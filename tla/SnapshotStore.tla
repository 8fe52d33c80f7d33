--------------------------- MODULE SnapshotStore ----------------------------
(***************************************************************************)
(* What a checkpoint of working files promises: the snapshot a new owner   *)
(* gets back is the whole content the files once had at one moment, the    *)
(* one the last completed checkpoint looked at, however many checkpoints   *)
(* were begun and abandoned since.                                         *)
(***************************************************************************)
CONSTANTS
    Contents,  \* the contents the files can have together
    Empty,     \* the content of a directory nobody has written to
    None       \* no content: lost, not looked at, never saved

VARIABLES
    live,   \* the content of the files, None after their node is lost
    seen,   \* the content the checkpoint in progress has looked at
    saved   \* the content of the last completed checkpoint

Init == live = Empty /\ seen = None /\ saved = None

Work == live # None /\ live' \in Contents /\ UNCHANGED <<seen, saved>>

Look == live # None /\ seen' = live /\ UNCHANGED <<live, saved>>

Abandon == seen' = None /\ UNCHANGED <<live, saved>>

Save == seen # None /\ saved' = seen /\ UNCHANGED <<live, seen>>

Lose == live' = None /\ seen' = None /\ UNCHANGED saved

Recover ==
    /\ live = None
    /\ live' = IF saved = None THEN Empty ELSE saved
    /\ UNCHANGED <<seen, saved>>

Next == Work \/ Look \/ Abandon \/ Save \/ Lose \/ Recover

Spec == Init /\ [][Next]_<<live, seen, saved>>
=============================================================================

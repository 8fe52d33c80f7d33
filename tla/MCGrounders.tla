---------------------------- MODULE MCGrounders -----------------------------
(* Instances of GrounderCache and ResidentPool for TLC.  A worker of         *)
(* GrounderCache sees of a call to the pool only that it returns or raises,  *)
(* so the two are checked side by side: the first state chooses which moves. *)
(*                                                                           *)
(* Requests 1 and 2 are locators of two entities with the same phrase, 3 is  *)
(* the category of both; the image has an old and a new content.             *)
EXTENDS ResidentPool, GrounderCache, TLC

VARIABLE pooled

(* Both tasks want the same settings; one of them sends two images.          *)
SameSettings == [t \in Task |-> "c"]
OneOrTwo == {<<"i">>, <<"j", "k">>}

With(first, second, third) ==
    [r \in Id |-> IF r = 1 THEN first ELSE IF r = 2 THEN second ELSE third]

One == With("old phrase", None, None)
Renamed == With(None, "old phrase", "old category")
Changed == With("new phrase", "new phrase", None)
Requests == {One, Renamed, Changed}

TwoSizes == {0, 2}

GroundersInit ==
    /\ CacheInit /\ Init
    /\ pooled \in BOOLEAN
    /\ ~pooled => \A s \in Service : owner[s] = "c"

GroundersNext ==
    \/ ~pooled /\ CacheNext /\ UNCHANGED <<poolVars, pooled>>
    \/ pooled /\ Next /\ UNCHANGED <<cacheVars, pooled>>

GroundersSpec == GroundersInit /\ [][GroundersNext]_<<cacheVars, poolVars, pooled>>

Symmetry == Permutations(Task) \cup Permutations(Service)
=============================================================================

---------------------------- MODULE RoleDiscovery ----------------------------
(***************************************************************************)
(* The inventory of an image followed by the search for its categories:    *)
(* RoleScene is the first stage of the image, RoleSearch the ones after    *)
(* it.  When the worker counts the inventory as done the search takes over *)
(* its categories with their hints; the inventory's own state is not read  *)
(* again and is put back to its beginning.                                 *)
(***************************************************************************)
EXTENDS RoleSearch

CONSTANTS Queries, Blank, Pages, MaxProposals, MaxSceneCrashes

VARIABLES
    sceneCalls, pages, categories, exhausted, sceneAt, falls,  \* of RoleScene
    searching                                                  \* the inventory is done

Scene == INSTANCE RoleScene WITH
    Regions <- Places, calls <- sceneCalls, at <- sceneAt

ASSUME Scene!SceneAssumption

sceneState == <<sceneCalls, pages, categories, exhausted, sceneAt, falls>>
allVars == <<vars, sceneState, searching>>

DiscoveryInit ==
    /\ Scene!Init
    /\ searching = FALSE
    /\ Init
    /\ \A c \in Category : hints[c] = <<>>

SceneStep ==
    /\ ~searching
    /\ Scene!Next
    /\ UNCHANGED <<vars, searching>>

(* The hints of a category, in the order of the search: add_hint.          *)
HintsFound(cat) ==
    IF cat.hints = {} THEN <<>> ELSE AddHint(<<>>, CHOOSE r \in cat.hints : TRUE)

(* Images with another number of categories than the search is instantiated*)
(* for stay where they are.                                                *)
BeginSearch ==
    /\ ~searching
    /\ sceneAt.todo = "end"
    /\ Len(categories) = NumCategories
    /\ searching' = TRUE
    /\ hints' = [c \in Category |-> HintsFound(categories[c])]
    /\ sceneCalls' = {} /\ pages' = <<>> /\ categories' = <<>>
    /\ exhausted' = FALSE /\ sceneAt' = Scene!Start /\ falls' = 0
    /\ UNCHANGED <<step, fullDone, searches, sam, egm, candidates, cursor, crashes, begun>>

OtherSize ==
    /\ sceneAt.todo = "end" /\ Len(categories) # NumCategories
    /\ UNCHANGED allVars

SearchStep ==
    /\ searching
    /\ Next
    /\ UNCHANGED <<sceneState, searching>>

DiscoveryNext == SceneStep \/ BeginSearch \/ OtherSize \/ SearchStep

DiscoverySpec == DiscoveryInit /\ [][DiscoveryNext]_allVars

-----------------------------------------------------------------------------
(* What a worker that died and came back has in its inventory is what it   *)
(* would have had (role_engine.py:45); the statement is in RoleScene.      *)
InventoryIsUninterrupted == Scene!InventoryIsUninterrupted
=============================================================================

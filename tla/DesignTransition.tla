-------------------------- MODULE DesignTransition ---------------------------
(***************************************************************************)
(* FilesystemTransitionExecutor (reduced_oracle/transition.py): changes    *)
(* the physical design by copying the files the new design wants and       *)
(* removing the ones it owns and the new design does not want.  A runtime  *)
(* directory keeps what it owns and which design is active, written        *)
(* before and after each file operation, so that the next transition can   *)
(* go on after a death between any two of them.  The reduced oracle and    *)
(* its recovery have a runtime directory each and share the files.         *)
(***************************************************************************)
EXTENDS Integers, SequencesExt

CONSTANTS
    Order,     \* design_ids, the safe design first
    Files,     \* materialization targets
    Desired,   \* the targets each design wants
    Foreign,   \* the sets of targets that may exist before the first run
    None

Designs == Range(Order)
Safe == Head(Order)
Dirs == {"incident", "recovery"}

ASSUME DesignAssumption ==
    /\ Order # <<>> /\ IsInjective(Order)
    /\ Desired \in [Designs -> SUBSET Files]
    /\ Foreign \subseteq SUBSET Files
    /\ None \notin Designs \cup Files

VARIABLES
    present,     \* targets that exist
    foreign,     \* targets that existed before and are nobody's
    runtime,     \* transition_state.json and active_plan.json of each directory
    move,        \* the transition under way
    transitions, \* the observations in the transitions file of each directory
    astray       \* history: a process has ended away from the safe design, and no
                 \* transition to it has been completed since

transitionVars == <<present, foreign, runtime, move, transitions, astray>>

NoMove == [dir |-> None, step |-> "none", from |-> None, to |-> None,
           type |-> None, file |-> None]
NoState == [exists |-> FALSE, active |-> None, owned |-> {}, plan |-> None]

Types == {"activate", "forward", "restore"}
Observation == (Designs \cup {None}) \X Designs \X Types

TransitionTypeOK ==
    /\ present \in SUBSET Files /\ foreign \in SUBSET Files
    /\ runtime \in [Dirs -> [exists : BOOLEAN, active : Designs \cup {None},
                             owned : SUBSET Files, plan : Designs \cup {None}]]
    /\ \/ move = NoMove
       \/ move \in [dir : Dirs, step : {"files", "disown", "plan", "observe"},
                    from : Designs \cup {None}, to : Designs, type : Types,
                    file : Files \cup {None}]
    /\ transitions \in [Dirs -> SUBSET Observation]
    /\ astray \in BOOLEAN

TransitionInit ==
    /\ foreign \in Foreign /\ present = foreign
    /\ runtime = [d \in Dirs |-> NoState]
    /\ move = NoMove
    /\ transitions = [d \in Dirs |-> {}]
    /\ astray = FALSE

At(step) == move.step = step
Owned == runtime[move.dir].owned

\* _persist_state
Persist(owned, active) ==
    runtime' = [runtime EXCEPT ![move.dir] = [@ EXCEPT !.exists = TRUE, !.owned = owned,
                                                       !.active = active]]

Begin(dir, to, type) ==
    /\ move = NoMove
    /\ move' = [dir |-> dir, step |-> "files", from |-> runtime[dir].active, to |-> to,
                type |-> type, file |-> None]
    /\ UNCHANGED <<present, foreign, runtime, transitions, astray>>

\* A missing target is owned before it exists; one that exists is reused.
Own ==
    /\ At("files") /\ move.file = None
    /\ \E f \in Desired[move.to] \ present :
          /\ Persist(Owned \cup {f}, runtime[move.dir].active)
          /\ move' = [move EXCEPT !.file = f]
    /\ UNCHANGED <<present, foreign, transitions, astray>>

Copy ==
    /\ At("files") /\ move.file # None
    /\ present' = present \cup {move.file}
    /\ move' = [move EXCEPT !.file = None]
    /\ UNCHANGED <<foreign, runtime, transitions, astray>>

\* Mutant: a file that is owned is taken for copied.
AllCopiedOrOwned ==
    At("files") /\ move.file = None /\ Desired[move.to] \subseteq present \cup Owned

AllCopied == At("files") /\ move.file = None /\ Desired[move.to] \subseteq present

Removable == Owned \ Desired[move.to]

\* An unwanted file is deleted, then no longer owned.
Unlink ==
    /\ AllCopied
    /\ \E f \in Removable :
          /\ present' = present \ {f}
          /\ move' = [move EXCEPT !.step = "disown", !.file = f]
    /\ UNCHANGED <<foreign, runtime, transitions, astray>>

Disown ==
    /\ At("disown")
    /\ Persist(Owned \ {move.file}, runtime[move.dir].active)
    /\ move' = [move EXCEPT !.step = "files", !.file = None]
    /\ UNCHANGED <<present, foreign, transitions, astray>>

Activate ==
    /\ AllCopied /\ Removable = {}
    /\ Persist(Owned, move.to)
    /\ move' = [move EXCEPT !.step = "plan"]
    /\ astray' = (astray /\ move.to # Safe)
    /\ UNCHANGED <<present, foreign, transitions>>

WriteActivePlan ==
    /\ At("plan")
    /\ runtime' = [runtime EXCEPT ![move.dir].plan = move.to]
    /\ move' = [move EXCEPT !.step = "observe"]
    /\ UNCHANGED <<present, foreign, transitions, astray>>

TransitionStep == Own \/ Copy \/ Unlink \/ Disown \/ Activate \/ WriteActivePlan

\* The caller appends the observation that transition() returned.
Observe ==
    /\ At("observe")
    /\ transitions' = [transitions EXCEPT ![move.dir] =
                          @ \cup {<<move.from, move.to, move.type>>}]
    /\ move' = NoMove
    /\ UNCHANGED <<present, foreign, runtime, astray>>

\* An exception or a death of the process of a directory leaves the files as they
\* are.
Abandon(dir) ==
    /\ move' = NoMove
    /\ astray' = \/ astray
                 \/ runtime[dir].active \notin {None, Safe}
                 \/ At("files") \/ At("disown")
    /\ UNCHANGED <<present, foreign, runtime, transitions>>
=============================================================================

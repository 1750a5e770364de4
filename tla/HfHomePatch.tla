---------------------------- MODULE HfHomePatch ----------------------------
(***************************************************************************)
(* _inject_trainer_hf_home of trainer/api/training.py: for the time of one *)
(* client.train() it replaces a function of the SDK by a wrapper that adds *)
(* HF_HOME to the trainer's environment, and puts the function it found    *)
(* back afterwards.  The function found is read BEFORE the lock is taken.  *)
(*                                                                         *)
(* Every call makes its own wrapper, so a call stands for its wrapper, and *)
(* the SDK's function is one of the values of the patched slot.            *)
(***************************************************************************)
EXTENDS Integers, FiniteSets

CONSTANTS Calls,    \* calls of fine_tune, each made once
          Original, \* the SDK's own get_trainer_cr_from_builtin_trainer
          NoCall    \* no holder of _hf_home_lock

ASSUME NamesAssumption == Original \notin Calls /\ NoCall \notin Calls

VARIABLES slot,     \* k8s_utils.get_trainer_cr_from_builtin_trainer
          holder,   \* holder of _hf_home_lock
          pc,       \* "start", "waiting", "patched", "trained", "done"
          original, \* what each call found in the slot

          env,      \* observer: HF_HOME entries of the job a call submitted
          overlapped \* observer: a call read the slot while another held the lock

patchVars == <<slot, holder, pc, original, env, overlapped>>

Functions == Calls \cup {Original}

NotBuilt == -1

PatchTypeOK ==
    /\ slot \in Functions
    /\ holder \in Calls \cup {NoCall}
    /\ pc \in [Calls -> {"start", "waiting", "patched", "trained", "done"}]
    /\ original \in [Calls -> Functions]
    /\ env \in [Calls -> {NotBuilt, 0, 1}]
    /\ overlapped \in BOOLEAN

PatchInit ==
    /\ slot = Original
    /\ holder = NoCall
    /\ pc = [c \in Calls |-> "start"]
    /\ original = [c \in Calls |-> Original]
    /\ env = [c \in Calls |-> NotBuilt]
    /\ overlapped = FALSE

-----------------------------------------------------------------------------
\* Mutation of WithHome: the wrapper does not look for an entry first.
WithHomeAgain(entries) == entries + 1

\* The wrapper adds HF_HOME to what the function below it returned.
WithHome(entries) == IF entries = 0 THEN 1 ELSE entries

\* HF_HOME entries in the trainer CR that a function of the slot builds.
Homes[f \in Functions] == IF f = Original THEN 0 ELSE WithHome(Homes[original[f]])

\* original = k8s_utils.get_trainer_cr_from_builtin_trainer
ReadOriginal(c) ==
    /\ pc[c] = "start"
    /\ original' = [original EXCEPT ![c] = slot]
    /\ pc' = [pc EXCEPT ![c] = "waiting"]
    /\ overlapped' = (overlapped \/ holder # NoCall)
    /\ UNCHANGED <<slot, holder, env>>

\* Mutation of Patch: the lock is not waited for.
PatchUnlocked(c) ==
    /\ pc[c] = "waiting"
    /\ holder' = c
    /\ slot' = c
    /\ pc' = [pc EXCEPT ![c] = "patched"]
    /\ UNCHANGED <<original, env, overlapped>>

\* with _hf_home_lock: the wrapper goes into the slot.
Patch(c) ==
    /\ pc[c] = "waiting"
    /\ holder = NoCall
    /\ holder' = c
    /\ slot' = c
    /\ pc' = [pc EXCEPT ![c] = "patched"]
    /\ UNCHANGED <<original, env, overlapped>>

\* client.train() builds the trainer CR through whatever is in the slot; it
\* may also raise before it gets there.
Train(c) ==
    /\ pc[c] = "patched"
    /\ pc' = [pc EXCEPT ![c] = "trained"]
    /\ env' \in {env, [env EXCEPT ![c] = Homes[slot]]}
    /\ UNCHANGED <<slot, holder, original, overlapped>>

\* Mutation of Restore: the wrapper stays when client.train() raised.
RestoreOnSuccess(c) ==
    /\ pc[c] = "trained"
    /\ slot' = IF env[c] = NotBuilt THEN slot ELSE original[c]
    /\ holder' = NoCall
    /\ pc' = [pc EXCEPT ![c] = "done"]
    /\ UNCHANGED <<original, env, overlapped>>

\* Mutation of Restore: the lock is taken by hand and not released on an error.
RestoreHolding(c) ==
    /\ pc[c] = "trained"
    /\ slot' = original[c]
    /\ holder' = IF env[c] = NotBuilt THEN holder ELSE NoCall
    /\ pc' = [pc EXCEPT ![c] = "done"]
    /\ UNCHANGED <<original, env, overlapped>>

\* finally: what was found goes back, and the lock is released.
Restore(c) ==
    /\ pc[c] = "trained"
    /\ slot' = original[c]
    /\ holder' = NoCall
    /\ pc' = [pc EXCEPT ![c] = "done"]
    /\ UNCHANGED <<original, env, overlapped>>

PatchStep(c) == ReadOriginal(c) \/ Patch(c) \/ Train(c) \/ Restore(c)

PatchNext == \E c \in Calls : PatchStep(c)

PatchSpec == PatchInit /\ [][PatchNext]_patchVars

\* client.train() returns or raises; the lock is given to a thread that waits.
FairPatchSpec == PatchSpec /\ \A c \in Calls : WF_patchVars(PatchStep(c))

-----------------------------------------------------------------------------
\* While a call trains, the slot holds its own wrapper: no other call puts
\* something back under it.
OwnWrapper == \A c \in Calls : pc[c] \in {"patched", "trained"} => slot = c

\* However wrappers end up on top of each other, every trainer that a call
\* builds carries HF_HOME, and carries it once.
HomeOnce == \A c \in Calls : env[c] \in {NotBuilt, 1}

\* No call waits for ever, and none finds the lock taken by a call that ended.
AllEnd == <>(\A c \in Calls : pc[c] = "done")

Quiescent == \A c \in Calls : pc[c] \in {"start", "done"}

\* The SDK's function is back whenever no call is under way, unless a call read
\* the slot while another one had its wrapper in it.
RestoredUnlessOverlap == Quiescent /\ ~overlapped => slot = Original

\* The docstring (training.py:112): the context manager "temporarily patches"
\* the SDK's function.
PatchIsTemporary == Quiescent => slot = Original
=============================================================================

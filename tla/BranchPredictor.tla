---- MODULE BranchPredictor ----
(***************************************************************************)
(* branch_predictor.vhd and branch_misprediction.vhd: a direct-mapped      *)
(* table of targets with a tag and a two-bit counter, and the check of a   *)
(* resolved branch against the instruction that was fetched after it.      *)
(***************************************************************************)
EXTENDS Integers

CONSTANTS
    BpEntries,      \* entries of the table, 128 in the RTL
    BpTags          \* values of the tag, 2^8 in the RTL

ASSUME BpAssumption == BpEntries \in Nat \ {0} /\ BpTags \in Nat \ {0}

VARIABLE bp         \* pc_buffer, pc_check and pc_predict, entry by entry

BpIndex(pc) == pc % BpEntries
BpTag(pc)   == (pc \div BpEntries) % BpTags

\* The arrays start cleared.
BpInit == bp = [i \in 0 .. BpEntries - 1 |-> [target |-> 0, tag |-> 0, counter |-> 0]]

BpTypeOK(words) ==
    bp \in [0 .. BpEntries - 1 ->
               [target : words, tag : 0 .. BpTags - 1, counter : 0 .. 3]]

Cached(pc) == bp[BpIndex(pc)].tag = BpTag(pc)

BranchPredicted(pc) == Cached(pc) /\ bp[BpIndex(pc)].counter >= 2
PredictedPc(pc)     == bp[BpIndex(pc)].target

\* Mutation: the counter does not saturate.
NextCounterUnsaturated(pc_e, taken) ==
    LET c == bp[BpIndex(pc_e)].counter IN
    IF taken THEN (IF ~Cached(pc_e) THEN 1 ELSE c + 1)
             ELSE (IF ~Cached(pc_e) \/ c = 0 THEN 0 ELSE c - 1)

\* Any branch in E, whatever becomes of it, trains its entry.
NextCounter(pc_e, taken) ==
    LET c == bp[BpIndex(pc_e)].counter IN
    IF taken THEN (IF ~Cached(pc_e) THEN 1 ELSE IF c = 3 THEN 3 ELSE c + 1)
             ELSE (IF ~Cached(pc_e) \/ c = 0 THEN 0 ELSE c - 1)

BpNext(branch_e, taken_e, pc_e, jump_address) ==
    bp' = IF branch_e
          THEN [bp EXCEPT ![BpIndex(pc_e)] =
                   [target |-> jump_address, tag |-> BpTag(pc_e),
                    counter |-> NextCounter(pc_e, taken_e)]]
          ELSE bp

----
\* The address that was fetched, or is being fetched, after the branch in E.
Followed(valid_d, pc_d, pc_f) == IF valid_d THEN pc_d ELSE pc_f

MispredictTaken(valid_e, branch_e, taken_e, target, followed) ==
    valid_e /\ branch_e /\ taken_e /\ target # followed

\* Mutation: the polarity of take_branch is wrong.
MispredictNotTakenInverted(valid_e, branch_e, taken_e, pc_plus4_e, followed) ==
    valid_e /\ branch_e /\ taken_e /\ pc_plus4_e # followed

MispredictNotTaken(valid_e, branch_e, taken_e, pc_plus4_e, followed) ==
    valid_e /\ branch_e /\ ~taken_e /\ pc_plus4_e # followed
====

----------------------------- MODULE DevicePoll -----------------------------
(***************************************************************************)
(* Two functions that poll a device: wait_fw_ready                         *)
(* (poll_hw_ready_with_timeout.c) and reset_target                         *)
(* (safe_targeted_reset.c).  A step reads or updates one register; the     *)
(* device changes its status register between any two steps.  A register   *)
(* is the set of its bits that are set; the control register is a record   *)
(* of its fields.                                                          *)
(***************************************************************************)
EXTENDS Integers, Sequences

CONSTANTS Rounds,        \* the values of max_iters
          Targets,       \* the values of target_id
          MaxTarget      \* CTRL_TARGET_MASK >> CTRL_TARGET_SHIFT

PollAssumption == Rounds \subseteq Nat /\ Targets \subseteq Nat /\ MaxTarget \in Nat

VARIABLES call,          \* the function and its arguments
          status, ctrl,  \* the registers
          pc, ret,
          reads          \* history: what the loop has read from status

vars == <<call, status, ctrl, pc, ret, reads>>

Ready == IF call.fn = "reset_target" THEN {"RESET_DONE"} ELSE {"FW_READY"}
Bad == IF call.fn = "reset_target" THEN {"ERROR"} ELSE {"FW_ERROR", "FW_FATAL"}
Bits == Ready \cup Bad \cup (IF call.fn = "reset_target" THEN {"BUSY"} ELSE {})
TimedOut == IF call.fn = "reset_target" THEN "-3" ELSE "-1"

Idle == [target |-> 0, reset_req |-> FALSE, others |-> "others"]

TypeOK == /\ status \subseteq Bits /\ ctrl.target \in 0 .. MaxTarget
          /\ pc \in {"start", "write", "poll", "end"}
          /\ ret \in {"none", "0", "-1", "-2", "-3", "-4"}
          /\ Len(reads) <= call.max_iters

Init == /\ \E n \in Rounds, t \in Targets :
             call \in {[fn |-> "wait_fw_ready", max_iters |-> n, target_id |-> 0],
                       [fn |-> "reset_target", max_iters |-> n, target_id |-> t]}
        /\ status \in SUBSET Bits /\ ctrl = Idle
        /\ pc = "start" /\ ret = "none" /\ reads = <<>>

Return(r) == pc' = "end" /\ ret' = r

\* reset_target's checks; wait_fw_ready has none.
Start == /\ pc = "start" /\ UNCHANGED <<call, status, ctrl, reads>>
         /\ \/ call.target_id > MaxTarget /\ Return("-4")
            \/ call.target_id <= MaxTarget /\ "BUSY" \in status /\ Return("-1")
            \/ /\ call.target_id <= MaxTarget /\ "BUSY" \notin status
               /\ pc' = (IF call.fn = "reset_target" THEN "write" ELSE "poll")
               /\ UNCHANGED ret

WriteCtrl == /\ pc = "write" /\ pc' = "poll"
             /\ ctrl' = [ctrl EXCEPT !.target = call.target_id, !.reset_req = TRUE]
             /\ UNCHANGED <<call, status, ret, reads>>

\* What a status s tells: an error goes before success.
MutantFails(s) == s \cap Bad # {} /\ s \cap Ready = {}
Fails(s) == s \cap Bad # {}
Succeeds(s) == ~Fails(s) /\ s \cap Ready # {}

\* One round of the loop, on one read of the status.
Poll == /\ pc = "poll" /\ Len(reads) < call.max_iters
        /\ reads' = Append(reads, status)
        /\ \/ Fails(status) /\ Return("-2")
           \/ Succeeds(status) /\ Return("0")
           \/ ~Fails(status) /\ ~Succeeds(status) /\ UNCHANGED <<pc, ret>>
        /\ UNCHANGED <<call, status, ctrl>>
GiveUp == /\ pc = "poll" /\ Len(reads) = call.max_iters /\ Return(TimedOut)
          /\ UNCHANGED <<call, status, ctrl, reads>>

\* The device sets and clears bits as it likes.
Hardware == /\ pc # "end" /\ status' \in SUBSET Bits
            /\ UNCHANGED <<call, ctrl, pc, ret, reads>>

Caller == Start \/ WriteCtrl \/ Poll \/ GiveUp
Next == Caller \/ Hardware
Spec == Init /\ [][Next]_vars
-----------------------------------------------------------------------------
\* "Read the register once per loop": the first read that says anything decides,
\* an error before success ("What if READY and ERROR are set simultaneously?"),
\* a timeout is reported after max_iters reads that say nothing, and nothing
\* but the target and the request is changed in the control register.
Telling == {k \in 1 .. Len(reads) : reads[k] \cap (Bad \cup Ready) # {}}
FirstReadDecides ==
  /\ pc = "poll" => Telling = {}
  /\ ret \in {"0", "-2"} => /\ Telling = {Len(reads)}
                            /\ ret = "-2" <=> reads[Len(reads)] \cap Bad # {}
  /\ ret = TimedOut /\ reads # <<>> => Telling = {} /\ Len(reads) = call.max_iters
  /\ reads # <<>> /\ call.fn = "reset_target" =>
       ctrl = [Idle EXCEPT !.target = call.target_id, !.reset_req = TRUE]
=============================================================================

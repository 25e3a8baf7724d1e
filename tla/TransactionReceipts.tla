-------------------------- MODULE TransactionReceipts --------------------------
(***************************************************************************)
(* The receipt store of one transaction key                                *)
(* (orchestration/transaction_receipts.py, domain/transaction_receipts.py):*)
(* immutable receipt files, and the pointer current.json that selects the  *)
(* last one and with it the chain of its predecessors.                     *)
(*                                                                         *)
(* Publishing is two durable writes, the file and then the pointer; a death*)
(* between them leaves a file outside the chain, an orphan. A store is     *)
(*   [chain |-> the selected receipts, orphans |-> the unselected files];  *)
(* a receipt is a record with a field "phase", the rest is its adapter's.  *)
(***************************************************************************)
EXTENDS Naturals, Sequences, FiniteSets

Phases == {"prepared", "running", "terminal"}

NoReceipts == [chain |-> <<>>, orphans |-> {}]

\* The receipt the pointer selects.
Current(s) == s.chain[Len(s.chain)]

PhaseOf(s) == IF s.chain = <<>> THEN "absent" ELSE Current(s).phase

\* The phases that may follow: prepared first, a running receipt next, nothing
\* after a terminal one.
Following(phase) ==
    CASE phase = "absent" -> {"prepared"}
      [] phase = "prepared" -> {"running"}
      [] phase = "running" -> {"running", "terminal"}
      [] phase = "terminal" -> {}

\* A legal successor: a running receipt that repeats the last one is refused.
Succeeds(s, receipt) ==
    /\ receipt.phase \in Following(PhaseOf(s))
    /\ PhaseOf(s) = "running" => receipt # Current(s)

Selected(s, receipt) == s.chain # <<>> /\ Current(s) = receipt

\* publish_transaction_receipt refuses anything else: no file may be there
\* that is neither in the chain nor the receipt itself.
Publishable(s, receipt) ==
    /\ s.orphans \subseteq {receipt}
    /\ Selected(s, receipt) \/ Succeeds(s, receipt)

\* Its two writes.
WriteReceipt(s, receipt) ==
    IF Selected(s, receipt) THEN s ELSE [s EXCEPT !.orphans = {receipt}]

SelectReceipt(s, receipt) ==
    IF Selected(s, receipt) THEN s
    ELSE [chain |-> Append(s.chain, receipt), orphans |-> s.orphans \ {receipt}]

\* reconcile_transaction_receipt_crash_orphan: exactly one orphan, and a legal
\* successor; anything else is refused.
Reconcilable(s) ==
    \/ s.orphans = {}
    \/ \E receipt \in s.orphans : s.orphans = {receipt} /\ Succeeds(s, receipt)

Reconciled(s) ==
    IF s.orphans = {} THEN s
    ELSE SelectReceipt(s, CHOOSE receipt \in s.orphans : TRUE)

=============================================================================

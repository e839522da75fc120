--------------------------- MODULE TreasuryLedger ---------------------------
(***************************************************************************)
(* What the treasury ledger promises, with no transaction, lock or retry   *)
(* in sight: an instruction is posted whole or not at all, at most once    *)
(* for its reference, its journal is never changed afterwards, and no      *)
(* treasury goes below zero.  LedgerExecution, the code's way of doing it, *)
(* implements this specification.                                          *)
(***************************************************************************)
EXTENDS LedgerOperations

CONSTANTS
    Workload,    \* the instructions that callers may submit
    Opening      \* the treasuries before the first instruction

ASSUME WorkloadAssumption ==
    /\ Workload # {}
    /\ \A i \in Workload : IsInstruction(i)
    /\ Opening \in [Chama -> Nat]

VARIABLES
    pooled,      \* chamas.pooled_amount
    journals     \* ledger_transactions with their entries, by reference

ledgerVars == <<pooled, journals>>

After(balances, instruction) ==
    [c \in DOMAIN balances |->
        IF c \in DOMAIN instruction.deltas
        THEN balances[c] + instruction.deltas[c] ELSE balances[c]]

SolventBefore(instruction) == \A c \in Chama : pooled[c] >= 0
Solvent(instruction) == \A c \in Chama : After(pooled, instruction)[c] >= 0

LedgerInit ==
    /\ pooled = Opening
    /\ journals = [r \in {} |-> {}]

Post(instruction) ==
    /\ instruction.reference \notin DOMAIN journals
    /\ DOMAIN instruction.deltas \subseteq Chama
    /\ Solvent(instruction)
    /\ pooled' = After(pooled, instruction)
    /\ journals' = [r \in DOMAIN journals \cup {instruction.reference} |->
                        IF r = instruction.reference THEN instruction ELSE journals[r]]

\* executeWithinTransaction, inside the transaction of another service: a
\* posting, or a replay of the same instruction.
ExecuteWithinTransaction(instruction) ==
    \/ Post(instruction)
    \/ /\ instruction.reference \in DOMAIN journals
       /\ SameInstruction(journals[instruction.reference], instruction)
       /\ UNCHANGED ledgerVars

LedgerNext == \E i \in Workload : Post(i)

LedgerSpec == LedgerInit /\ [][LedgerNext]_ledgerVars

-----------------------------------------------------------------------------
\* The balance a treasury shows is its opening balance and the treasury entries
\* of every committed journal, no more and no less: an update is neither lost
\* nor applied twice (pooled_amount against ledger_entries).
BalanceIsJournalled ==
    \A c \in Chama :
        pooled[c] = Opening[c]
                     + SumFunction([r \in DOMAIN journals |-> TreasuryNet(journals[r], c)])
=============================================================================

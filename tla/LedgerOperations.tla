-------------------------- MODULE LedgerOperations --------------------------
(***************************************************************************)
(* The financial instructions the treasury ledger accepts, as data: what   *)
(* src/shared/business-logic.ts prepares before it opens a transaction and *)
(* what charge-ledger.service.ts inserts for a penalty or an interest.     *)
(*                                                                         *)
(* An instruction carries its effect twice, as the code does: `deltas` is  *)
(* what the treasuries gain or lose, `entries` is the journal.  Nothing in *)
(* the program derives one from the other.                                 *)
(***************************************************************************)
EXTENDS Integers, FiniteSets, FiniteSetsExt

CONSTANTS
    ChamaId,     \* every Chama identifier a caller may name (ordered, as UUIDs are)
    Chama,       \* the ones that have a row in chamas
    Reference,   \* idempotency references
    Amount,      \* amounts in minor units
    Currency     \* ISO currency codes

ASSUME ChamaAssumption  == ChamaId \subseteq Nat /\ Chama \subseteq ChamaId
ASSUME AmountAssumption == Amount \subseteq Nat \ {0}

Entry(chama, account, side, amount, currency) ==
    [chama |-> chama, account |-> account, side |-> side,
     amount |-> amount, currency |-> currency]

Instruction(type, reference, deltas, entries) ==
    [type |-> type, reference |-> reference, deltas |-> deltas, entries |-> entries]

-----------------------------------------------------------------------------
Deposit(reference, chama, amount, currency) ==
    Instruction("deposit", reference, [c \in {chama} |-> amount],
        {Entry(chama, "chama_treasury", "debit", amount, currency),
         Entry(chama, "member_contribution", "credit", amount, currency)})

\* recordPayout and recordMemberPayoutWithinTransaction differ only in the
\* member the counter entry names, which no comparison in the ledger reads.
Payout(reference, chama, amount, currency) ==
    Instruction("payout", reference, [c \in {chama} |-> -amount],
        {Entry(chama, "member_payout", "debit", amount, currency),
         Entry(chama, "chama_treasury", "credit", amount, currency)})

LoanDisbursement(reference, chama, amount, currency) ==
    Instruction("payout", reference, [c \in {chama} |-> -amount],
        {Entry(chama, "member_loan_principal", "debit", amount, currency),
         Entry(chama, "chama_treasury", "credit", amount, currency)})

Transfer(reference, from, to, amount, currency) ==
    Instruction("transfer", reference,
        [c \in {from, to} |-> IF c = from THEN -amount ELSE amount],
        {Entry(from, "chama_treasury", "credit", amount, currency),
         Entry(to, "chama_treasury", "debit", amount, currency)})

\* A penalty is a receivable: its journal touches no treasury.
PenaltyCharge(reference, chama, amount, currency) ==
    Instruction("contribution_penalty", reference, [c \in {} |-> 0],
        {Entry(chama, "member_penalty_receivable", "debit", amount, currency),
         Entry(chama, "penalty_income", "credit", amount, currency)})

InterestCharge(reference, chama, amount, currency) ==
    Instruction("loan_interest", reference, [c \in {} |-> 0],
        {Entry(chama, "member_interest_receivable", "debit", amount, currency),
         Entry(chama, "interest_income", "credit", amount, currency)})

IsCharge(instruction) == instruction.type \in {"contribution_penalty", "loan_interest"}

\* findExistingOperation and sameEntries: what makes a second call a replay.
SameInstruction(existing, instruction) ==
    /\ existing.type = instruction.type
    /\ existing.entries = instruction.entries

-----------------------------------------------------------------------------
Side(instruction, chama, side) ==
    SumFunctionOnSet([e \in instruction.entries |-> e.amount],
        {e \in instruction.entries :
            e.chama = chama /\ e.account = "chama_treasury" /\ e.side = side})

\* What the journal itself says the treasury of a Chama gained.
TreasuryNet(instruction, chama) ==
    Side(instruction, chama, "debit") - Side(instruction, chama, "credit")

\* An instruction is what one of the calls prepares; a transfer needs two
\* different Chamas.
IsInstruction(i) ==
    \E reference \in Reference, chama, other \in ChamaId, amount \in Amount, currency \in Currency :
        \/ i = Deposit(reference, chama, amount, currency)
        \/ i = Payout(reference, chama, amount, currency)
        \/ i = LoanDisbursement(reference, chama, amount, currency)
        \/ chama # other /\ i = Transfer(reference, chama, other, amount, currency)
        \/ i = PenaltyCharge(reference, chama, amount, currency)
        \/ i = InterestCharge(reference, chama, amount, currency)
=============================================================================

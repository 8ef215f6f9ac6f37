---------------------------- MODULE TransferSaga ----------------------------
(* The transfer mutation implements the saga.                              *)
EXTENDS Transfer

\* The verdict a client has: that of its answer, once the handler returned.
verdictOf(c) ==
    CASE call[c].pc = "lost" -> "failed"
      [] call[c].pc = "done" ->
            (IF call[c].outcome = "ok" THEN "acknowledged"
             ELSE IF call[c].outcome \in Refusals THEN "refused" ELSE "failed")
      [] OTHER -> "pending"

S == INSTANCE Saga WITH
        Transfers <- Calls,
        order     <- req,
        legs      <- moves,
        recorded  <- {c \in Calls : transactions[c] # "none"},
        verdict   <- [c \in Calls |-> verdictOf(c)]

\* The mutation, as the code runs it, is a saga that debits, credits, records
\* and only then acknowledges, never takes a step back, and never refuses a
\* transfer of which any step has been taken, if no message of a failed operation
\* is taken for a refusal (Misreadings).
ImplementsSaga == S!SagaSpec

=============================================================================

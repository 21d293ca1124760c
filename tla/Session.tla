------------------------------- MODULE Session -------------------------------
(***************************************************************************)
(* A session of several turns that sends only what the client has not been *)
(* shown (context/session.py), packed into a token budget                  *)
(* (context/pack.py).  The session believes what it has sent; the client   *)
(* may lose it, and the code that is shown is edited between the turns.    *)
(***************************************************************************)
EXTENDS Naturals, FiniteSets

CONSTANTS Keys,       \* the symbols asked about: naturals, in the order of their names
          TokenBudgets, \* budgets a caller may pass
          MaxTurns,   \* bound on the turns
          MaxTextEdits  \* bound on the edits

VARIABLES text,    \* key -> the version of its text now
          seen,    \* key -> the fingerprint last sent (0: none)
          held,    \* key -> the version the client has (0: none)
          turn,    \* what the last turn sent, left out and held back
          lost,    \* whether the client lost its history and nobody made up for it
          turns
sessionVars == <<text, seen, held, turn, lost, turns>>

(* The header and the text, token by token: later versions are longer.     *)
UnitTokens(k) == text[k]
Cost(S) == Cardinality(UNION {{k} \X (1..UnitTokens(k)) : k \in S})
NoTurn == [asked |-> {}, required |-> {}, sent |-> {}, omitted |-> {}, suppressed |-> {},
           budget |-> 0, used |-> 0, exceeded |-> FALSE, full |-> FALSE]
Init ==
    /\ text = [k \in Keys |-> 1] /\ seen = [k \in Keys |-> 0] /\ held = [k \in Keys |-> 0]
    /\ turn = NoTurn /\ lost = FALSE /\ turns = 0

-----------------------------------------------------------------------------

(* pack_units: the required ones always; of the others, best first, each   *)
(* that still fits beside those taken before it.  A budget of 0 stands for *)
(* none.  There is one such set.                                           *)
Before(a, b, required, best) ==
    LET rank(k) == IF k \in required THEN 0 ELSE IF k \in best THEN 1 ELSE 2
    IN  rank(a) < rank(b) \/ (rank(a) = rank(b) /\ a < b)
PackUnits(S, required, best, budget) ==
    {in \in SUBSET S : \A k \in S :
        k \in in <=> \/ k \in required \/ budget = 0
                   \/ Cost({j \in in : Before(j, k, required, best)} \cup {k}) <= budget}

(* What is marked as shown: what went out, not what was chosen to.         *)
Shown_Fresh(fresh, sent) == fresh
Shown(fresh, sent) == sent
Turn == \E asked \in (SUBSET Keys) \ {{}}, budget \in TokenBudgets \cup {0}, full \in BOOLEAN :
    \E required \in SUBSET asked : \E best \in SUBSET (asked \ required) :
        /\ turns < MaxTurns
        /\ LET fresh == {k \in asked : full \/ seen[k] # text[k]} IN
           \E sent \in PackUnits(fresh, required, best, budget) :
               /\ turn' = [asked |-> asked, required |-> required, sent |-> sent,
                           omitted |-> fresh \ sent, suppressed |-> asked \ fresh, budget |-> budget,
                           used |-> Cost(sent), exceeded |-> budget > 0 /\ Cost(sent) > budget, full |-> full]
               /\ seen' = [k \in Keys |-> IF k \in Shown(fresh, sent) THEN text[k] ELSE seen[k]]
               /\ held' = [k \in Keys |-> IF k \in sent THEN text[k] ELSE held[k]]
               /\ lost' = (lost /\ ~(full /\ {k \in Keys : seen[k] # 0} \subseteq sent))
        /\ turns' = turns + 1 /\ UNCHANGED text
Reset == /\ turns > 0 /\ seen' = [k \in Keys |-> 0] /\ lost' = FALSE /\ turn' = NoTurn
         /\ UNCHANGED <<text, held, turns>>

(* Around the session: the file is edited, or put back as it was, and the  *)
(* client's history is cut.                                                *)
EditText == \E k \in Keys, v \in 1..MaxTextEdits + 1 :
    /\ v # text[k] /\ turns > 0 /\ turns < MaxTurns
    /\ text' = [text EXCEPT ![k] = v]
    /\ turn' = NoTurn /\ UNCHANGED <<seen, held, lost, turns>>
LoseHistory ==
    /\ \E k \in Keys : held[k] # 0
    /\ held' = [k \in Keys |-> 0] /\ lost' = TRUE
    /\ turn' = NoTurn /\ UNCHANGED <<text, seen, turns>>

Next == Turn \/ Reset \/ EditText \/ LoseHistory

-----------------------------------------------------------------------------

(* After a turn the client has each unit that was asked about as it is, or *)
(* is told that it was left out, however often the text changed (also back *)
(* to what it was) and whatever budgets cut before; after a lost history,  *)
(* from the next reset or complete resend on.  A resend that a budget cuts *)
(* is not enough: what it leaves out stays marked as shown.                *)
(* (context/session.py:7-15, 97-104.)                                      *)
ClientUpToDate ==
    ~lost => \A k \in turn.asked : held[k] = text[k] \/ k \in turn.omitted
(* The budget is kept unless the required units alone exceed it, which is  *)
(* reported; what is required is never left out, and nothing that would    *)
(* still fit is.  (context/pack.py:7-11.)                                  *)
BudgetKept ==
    LET fresh == turn.sent \cup turn.omitted
    IN  turn.budget > 0 =>
          /\ turn.exceeded <=> Cost(fresh \cap turn.required) > turn.budget
          /\ turn.exceeded => turn.sent \subseteq turn.required
          /\ turn.omitted \cap turn.required = {}
          /\ \A k \in turn.omitted : turn.used + UnitTokens(k) > turn.budget
=============================================================================

------------------------------- MODULE History -------------------------------
(***************************************************************************)
(* /history of one channel: at most PageLimit rows, the earliest           *)
(* timestamps first, rows of one timestamp by rowid (the order in which    *)
(* idx_channel_timestamp holds them).  Who may ask is Messaging's matter.  *)
(***************************************************************************)
EXTENDS MessageTable

CONSTANTS
  Readers,   \* clients that load the channel
  PageLimit  \* 100

ASSUME HistoryAssumption == PageLimit \in Nat \ {0}

VARIABLES
  page,  \* the rows of a reader's last answer
  upto   \* history: how many rows there were when it was given

historyVars == <<page, upto>>

HistoryTypeOK ==
  /\ page \in [Readers -> SUBSET (1..Len(messages))]
  /\ upto \in [Readers -> 0..Len(messages)]

HistoryInit ==
  /\ page = [h \in Readers |-> {}]
  /\ upto = [h \in Readers |-> 0]

\* ORDER BY timestamp ASC.
Before(i, j) ==
  \/ messages[i].ts < messages[j].ts
  \/ messages[i].ts = messages[j].ts /\ i < j

\* Mutants; the specification uses neither: the latest rows instead of the
\* earliest, and one row too many.
MutPage ==
  {i \in 1..Len(messages) :
     Cardinality({j \in 1..Len(messages) : Before(i, j)}) < PageLimit}

MutPageOver ==
  {i \in 1..Len(messages) :
     Cardinality({j \in 1..Len(messages) : Before(j, i)}) <= PageLimit}

\* LIMIT 100.
Page ==
  {i \in 1..Len(messages) :
     Cardinality({j \in 1..Len(messages) : Before(j, i)}) < PageLimit}

\* rows.Err is never looked at: a step that fails ends the list early, even
\* before its first row.  (Every column that SaveMessage writes does scan.)
ReadTo(rows) == {got \in SUBSET rows : \A j \in got, i \in rows : Before(i, j) => i \in got}

\* 200 with what was read; 500 when the query fails leaves the reader with what
\* it has.
HistoryHandler(h) ==
  /\ exists
  /\ \E got \in ReadTo(Page) : page' = [page EXCEPT ![h] = got]
  /\ upto' = [upto EXCEPT ![h] = Len(messages)]

(***************************************************************************)
(* An answer is closed under causes: with a message it shows, before it,   *)
(* every message that was stored when that one got its timestamp, and so   *)
(* all those its sender could have read or had acknowledged                *)
(* (messaging/main.go 538-560, 585-587).                                   *)
(***************************************************************************)
HistoryCausal ==
  \A h \in Readers : \A j \in page[h] : \A i \in 1..messages[j].seen :
    i \in page[h] /\ Before(i, j)

(***************************************************************************)
(* A message a reader was shown leaves its later answers only if a row     *)
(* that came in since, although stamped earlier, took its place in a full  *)
(* page, or if the list was cut short by an error nobody is told of; then  *)
(* all that is left are earlier ones, and what a whole answer shows is     *)
(* missing at the end (messaging/main.go 543, 551, 587, 594-601).          *)
(***************************************************************************)
ShownStays ==
  [][ \A h \in Readers : \A i \in page[h] \ page'[h] :
        /\ \A k \in page'[h] : Before(k, i)
        /\ \/ page'[h] # Page
           \/ /\ Cardinality(page'[h]) = PageLimit
              /\ \E k \in page'[h] : k > upto[h] ]_<<tableVars, historyVars>>
=============================================================================

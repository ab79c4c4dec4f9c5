------------------------------ MODULE BessSignals ------------------------------
(***************************************************************************)
(* gold/gold_bess_signals.py and api/routers/bess.py: the charge and       *)
(* discharge slots of a day, ranked by the windows of Spark and once more  *)
(* in plain Python, and the windows the API makes of them.                 *)
(*                                                                         *)
(* prices is a function from the instants of one day to EUR prices.        *)
(***************************************************************************)
EXTENDS Integers, Sequences, FiniteSets

Null == 0

(* The elements of S in the order of Before, which is strict and total.    *)
InOrder(S, Before(_, _)) ==
    [i \in 1..Cardinality(S) |->
        CHOOSE x \in S : Cardinality({y \in S : Before(y, x)}) = i - 1]

Priced(prices) == {u \in DOMAIN prices : prices[u] # Null}

(* row_number over asc_nulls_last, timestamp_utc.asc()                     *)
RankAsc(prices, u) ==
    Cardinality({v \in Priced(prices) :
        prices[v] < prices[u] \/ (prices[v] = prices[u] /\ v <= u)})

(* Faulty variant of RankDesc: equal prices in the order of RankAsc.       *)
RankDescEarliest(prices, u) ==
    Cardinality({v \in Priced(prices) :
        prices[v] > prices[u] \/ (prices[v] = prices[u] /\ v <= u)})

(* row_number over desc_nulls_last, timestamp_utc.desc()                   *)
RankDesc(prices, u) ==
    Cardinality({v \in Priced(prices) :
        prices[v] > prices[u] \/ (prices[v] = prices[u] /\ v >= u)})

Signal(prices, slots, u) ==
    IF prices[u] = Null THEN 0
    ELSE IF RankAsc(prices, u) <= slots.charge THEN -1
    ELSE IF RankDesc(prices, u) <= slots.discharge THEN 1 ELSE 0

(* assign_signals: a stable sort by price, then the first and last ranks.  *)
AssignSignals(prices, slots) ==
    LET inTime == InOrder(Priced(prices), <)
        Cheaper(i, j) == prices[inTime[i]] < prices[inTime[j]]
                         \/ (prices[inTime[i]] = prices[inTime[j]] /\ i < j)
        sorted == InOrder(DOMAIN inTime, Cheaper)
        rank == [u \in Priced(prices) |->
                    (CHOOSE r \in DOMAIN sorted : inTime[sorted[r]] = u) - 1]
    IN  [u \in DOMAIN prices |->
            IF u \notin Priced(prices) THEN 0
            ELSE IF rank[u] < slots.charge THEN -1
            ELSE IF rank[u] >= Len(sorted) - slots.discharge THEN 1 ELSE 0]

------------------------------------------------------------------------------
(* Faulty variant of Sorted: ascending=False.                              *)
SortedDescending(rows, later) ==
    InOrder(rows, LAMBDA a, b :
        a.time_id > b.time_id \/ (a.time_id = b.time_id /\ a.at > b.at))

(* sort_values("time_id") leaves rows with the same time_id in any order;  *)
(* later names the time_ids whose second occurrence comes first.           *)
Sorted(rows, later) ==
    InOrder(rows, LAMBDA a, b :
        \/ a.time_id < b.time_id
        \/ /\ a.time_id = b.time_id
           /\ IF a.time_id \in later THEN a.at > b.at ELSE a.at < b.at)

(* itertools.groupby: a group starts where the signal changes, and goes on *)
(* for as long as it stays.                                                *)
GroupStarts(rows) == {i \in DOMAIN rows : i > 1 => rows[i].signal # rows[i - 1].signal}
GroupEnd(rows, i) ==
    CHOOSE j \in i..Len(rows) :
        /\ \A k \in i..j : rows[k].signal = rows[i].signal
        /\ j < Len(rows) => rows[j + 1].signal # rows[i].signal

(* Faulty variant of Group: all rows of a signal, wherever they are.       *)
GroupOfSignal(rows, i) == SelectSeq(rows, LAMBDA r : r.signal = rows[i].signal)
Group(rows, i) == SubSeq(rows, i, GroupEnd(rows, i))

(* The charge and discharge windows of the answer; idle rows are skipped.  *)
Windows(rows) ==
    LET starts == InOrder({i \in GroupStarts(rows) : rows[i].signal # 0}, <)
    IN  [k \in DOMAIN starts |-> Group(rows, starts[k])]
==============================================================================

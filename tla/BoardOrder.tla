----------------------------- MODULE BoardOrder -----------------------------
(***************************************************************************)
(* The order of the cards in a column, apps/api/src/services/board.ts: a   *)
(* card's place is a string key, a move writes a key between those of its  *)
(* new neighbours and renumbers nobody.  A key is a sequence of digits in  *)
(* base Base (36 in the code), compared as strings are.                    *)
(***************************************************************************)
EXTENDS Naturals, Sequences, FiniteSets

CONSTANTS Tickets, Columns, Base,
          MaxKey,         \* bound: digits in a key
          Nobody

Digit == 0..(Base - 1)

ASSUME BaseAssumption == Base \in Nat /\ Base > 1
ASSUME TicketsAssumption == IsFiniteSet(Tickets) /\ Nobody \notin Columns \cup Seq(Digit)

VARIABLES
    column,     \* Nobody if there is no such card
    shelved,    \* archived cards
    key

orderVars == <<column, shelved, key>>

-----------------------------------------------------------------------------
\* String comparison of two keys.
Precedes(a, b) ==
    \E n \in 0..Len(a) :
        /\ n < Len(b)
        /\ \A i \in 1..n : a[i] = b[i]
        /\ n = Len(a) \/ a[n + 1] < b[n + 1]

\* The digits of the two bounds at place i of the walk; once they differ by
\* one, what follows is bounded only from below.
Low(a, i) == IF i <= Len(a) THEN a[i] ELSE 0
Roof(b, i) == IF i <= Len(b) THEN b[i] ELSE Base
Opened(a, b, i) == \E h \in 1..(i - 1) : Roof(b, h) = Low(a, h) + 1
High(a, b, i) == IF Opened(a, b, i) THEN Base ELSE Roof(b, i)

\* Where the walk returns: the first place with room between the digits.
Ends(a, b) == {i \in 1..(Len(a) + Len(b) + 1) : High(a, b, i) > Low(a, i) + 1}
Stop(a, b) == CHOOSE i \in Ends(a, b) : \A j \in Ends(a, b) : i <= j

Walked(a, b) ==
    [i \in 1..Stop(a, b) |-> IF i < Stop(a, b) THEN Low(a, i) ELSE (Low(a, i) + High(a, b, i)) \div 2]

\* orderKeyBetween; Nobody is the open end.
OrderKeyBetween(a, b) ==
    Walked(IF a = Nobody THEN <<>> ELSE a, IF b = Nobody THEN <<>> ELSE b)

-----------------------------------------------------------------------------
Shown(col) == {t \in Tickets : column[t] = col} \ shelved

First_Last(shown) == IF shown = {} THEN Nobody
                     ELSE key[CHOOSE t \in shown : ~\E u \in shown : Precedes(key[t], key[u])]

\* firstKey: the least key of the column, and so the upper bound at its top.
First(shown) == IF shown = {} THEN Nobody
                ELSE key[CHOOSE t \in shown : ~\E u \in shown : Precedes(key[u], key[t])]

Above(shown, k) == {t \in shown : Precedes(k, key[t])}

\* The key of the sibling listed after `after`; the listing may show cards
\* with one key in any order.
Uppers(siblings, after) ==
    {First(Above(siblings, key[after]))}
        \cup {key[t] : t \in {u \in siblings \ {after} : key[u] = key[after]}}

OrderInit ==
    /\ column = [t \in Tickets |-> Nobody]
    /\ shelved = {}
    /\ key = [t \in Tickets |-> <<>>]

Place(t, col, lower, upper) ==
    LET k == OrderKeyBetween(lower, upper)
    IN  /\ Len(k) <= MaxKey
        /\ key' = [key EXCEPT ![t] = k]
        /\ column' = [column EXCEPT ![t] = col]
        /\ UNCHANGED shelved

\* create: on top of its column.
CreateTicket(t, col) ==
    /\ column[t] = Nobody
    /\ Place(t, col, Nobody, First(Shown(col)))

MoveOnTop(t, col) ==
    /\ column[t] # Nobody /\ t \notin shelved
    /\ Place(t, col, Nobody, First(Shown(col) \ {t}))

\* move, after a card still in the column; two equal bounds are refused.
MoveAfter(t, col, after) ==
    /\ column[t] # Nobody /\ t \notin shelved
    /\ after \in Shown(col) \ {t}
    /\ \E upper \in Uppers(Shown(col) \ {t}, after) :
         /\ upper # key[after]
         /\ Place(t, col, key[after], upper)

ArchiveTicket(t) ==
    /\ column[t] # Nobody /\ t \notin shelved
    /\ shelved' = shelved \cup {t}
    /\ UNCHANGED <<column, key>>

\* restore: into the column and at the key it had.
RestoreTicket(t) ==
    /\ t \in shelved
    /\ shelved' = shelved \ {t}
    /\ UNCHANGED <<column, key>>

DeleteTicket(t) ==
    /\ t \in shelved
    /\ column' = [column EXCEPT ![t] = Nobody]
    /\ shelved' = shelved \ {t}
    /\ key' = [key EXCEPT ![t] = <<>>]

OrderNext ==
    \/ \E t \in Tickets, col \in Columns : CreateTicket(t, col) \/ MoveOnTop(t, col)
    \/ \E t, u \in Tickets, col \in Columns : MoveAfter(t, col, u)
    \/ \E t \in Tickets : ArchiveTicket(t) \/ RestoreTicket(t) \/ DeleteTicket(t)

OrderSpec == OrderInit /\ [][OrderNext]_orderVars

-----------------------------------------------------------------------------
(* Properties *)

\* orderKeyBetween, "generated keys never end in '0', so every key admits a
\* successor on either side": there is room below and above every card, and
\* the walk between two keys ends.
EveryKeyLeavesRoom ==
    \A t \in Tickets : column[t] # Nobody =>
        /\ key[t] \in Seq(Digit)
        /\ key[t] # <<>> /\ key[t][Len(key[t])] # 0

\* move, placed "after" a card or on top: whatever was moved, archived and
\* restored before, a card the board takes shows exactly where it was
\* dropped, above everything that stood below that place.
DropsLandWhereAimed ==
    [][\A t \in Tickets, col \in Columns :
         LET siblings == Shown(col) \ {t}
         IN  /\ MoveOnTop(t, col) => \A x \in siblings : Precedes(key'[t], key[x])
             /\ \A u \in siblings : MoveAfter(t, col, u) =>
                  \A x \in siblings : IF Precedes(key[u], key[x]) THEN Precedes(key'[t], key[x])
                                                              ELSE Precedes(key[x], key'[t])]_orderVars

\* move, "so a stale drag still lands inside the column it aimed at": a card
\* of the column can always be dropped after another.
NoDropIsRefused ==
    \A t, u \in Tickets, col \in Columns :
        /\ column[t] # Nobody /\ {t, u} \cap shelved = {} /\ column[u] = col /\ t # u
        => \A upper \in Uppers(Shown(col) \ {t}, u) : upper # key[u]
=============================================================================

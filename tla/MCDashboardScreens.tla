------------------------ MODULE MCDashboardScreens ------------------------
(* Instances of DashboardScreens for TLC. *)
EXTENDS DashboardScreens

CONSTANTS c1, c2, l1, l2, l3, m1, m2, o1, o2, w1, w2, x1, x2

AllOps == [list |-> 3, catalog |-> 3, exports |-> 4, field |-> 6, panel |-> 4, form |-> 5]

\* The table: two rows of a company and one of another, one yet to be created.
OwnerOf == <<c1, c1, c2>>
StoredFirst == <<"active", "unused", "active">>
FindsOf == "" :> {1, 2, 3} @@ "x" :> {2, 3}

\* The catalog: a list with one marketplace, one with two, one with none.
ListsFor == c1 :> <<l1, l2>> @@ c2 :> <<l3>>
MarketsFor == l1 :> <<m1>> @@ l2 :> <<m1, m2>> @@ l3 :> <<>>

\* The field: a text too short, two terms, and one of them with a blank.
TextsTyped == {"", "ab", "abcd", "abcd ", "abcde"}
LongOnes == {"abcd", "abcd ", "abcde"}
TrimOf == [t \in TextsTyped \cup {"one", "two"} |-> IF t = "abcd " THEN "abcd" ELSE t]
LabelOf == o1 :> "one" @@ o2 :> "two"
SuggestOf == "abcd" :> <<o1, o2>> @@ "abcde" :> <<o2>> @@ "one" :> <<o1>>
             @@ [t \in TextsTyped \cup {"two"} |-> <<>>]

\* The form: a browser west of Greenwich.
DaysShown == [d \in {NoText} |-> NoText] @@ "late" :> "early" @@ "early" :> "eve" @@ "eve" :> "eve"

AssignedFirst == w1 :> {x1} @@ w2 :> {x2}
=============================================================================

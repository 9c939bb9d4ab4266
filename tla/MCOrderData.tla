---------------------------- MODULE MCOrderData -----------------------------
(* Messages, rows and worlds for the runs of OrderLookup and Answers.        *)
EXTENDS SahiyRows

CONSTANTS k1, k2, k3, k4,   \* keys of numbers
          tel                \* digits of the customer's phone

Number(k) == [key |-> k, dashed |-> FALSE]
Dashed(k) == [key |-> k, dashed |-> TRUE]

Message(words) == [track |-> NoTrack, words |-> words, blank |-> FALSE, phone |-> FALSE]
Naming(n)      == [Message({}) EXCEPT !.track = n]

\* "buyurtmalarim", "hammasini korsat", "bekor qilingan buyurtmalarim",
\* "zakazlarim qayerda", "buyurtmam kelmayapti", "qabul qilgan buyurtmalarim",
\* "buyurtmam qachon keladi", "xitoydagi zakazlar", "filialda buyurtmam bormi",
\* "aktiv olib ketilmagan buyurtmalarim", a phone with and without spaces (the
\* digits of the latter read as a tracking number)
MyOrders   == Message({"arrivalContext", "orderNounWords", "listForms", "orderNouns"})
AllOrders  == Message({"allOrders", "statusWords"})
Cancelled  == Message({"cancelled", "arrivalContext", "orderNounWords", "listForms", "orderNouns"})
WhereAre   == Message({"where", "orderNounWords", "listForms", "statusWords", "orderNouns"})
NotCome    == Message({"delayed", "arrivalContext", "orderNounWords", "possessiveSingulars", "orderNouns"})
Received   == Message({"arrivalContext", "orderNounWords", "completed", "listForms", "orderNouns", "accepted"})
WhenCome   == Message({"arrival", "arrivalAsks", "arrivalVerbs", "arrivalContext", "orderNounWords",
                       "possessiveSingulars", "orderNouns"})
InChina    == Message({"orderNounWords", "inChina", "daigou", "listForms", "orderNouns"})
AtBranch   == Message({"arrivalContext", "orderNounWords", "dashboard", "possessiveSingulars", "orderNouns"})
NotTaken   == Message({"active", "unpicked", "arrivalContext", "orderNounWords", "listForms", "orderNouns"})
PhoneNumber == [Message({}) EXCEPT !.phone = TRUE]
Digits      == [PhoneNumber EXCEPT !.track = Number(tel)]

ListQuestions == {MyOrders, AllOrders, Cancelled, WhereAre, NotCome, Received,
                  WhenCome, InChina, AtBranch, NotTaken}

Verified(m)  == [msg |-> m, user |-> Customer, phone |-> FALSE]
Anonymous(m) == [msg |-> m, user |-> Nobody, phone |-> FALSE]

MCRequests ==
  {Verified(m) : m \in ListQuestions \cup {Naming(Number(k1)), Naming(Number(k2)), Naming(Number(k3))}}
    \cup {Anonymous(m) : m \in {Naming(Number(k1)), PhoneNumber, Digits, MyOrders}}
    \cup {[Anonymous(MyOrders) EXCEPT !.phone = TRUE]}

Unpriced == [goods |-> 0, freight |-> 0, amount |-> 0]
Row(source, pos, code, track, numbers) ==
  [source |-> source, pos |-> pos, code |-> code, track |-> track, numbers |-> numbers,
   price |-> IF source = "daigou" THEN [goods |-> 10, freight |-> 0, amount |-> 12] ELSE Unpriced]

Pool == {
  Row("delivery", 1, 4, Number(k1), {Number(k1)}),
  Row("delivery", 2, 7, Dashed(k2), {Dashed(k2)}),
  Row("delivery", 3, 1, NoTrack, {}),
  Row("jiyun", 1, 4, Number(k2), {Number(k2), Number(k3)}),
  Row("jiyun", 2, 5, Number(k1), {Number(k1)}),
  Row("unpicked", 1, 4, Number(k1), {Number(k1), Number(k2)}),
  Row("unpicked", 2, 7, Number(k4), {Number(k4)}),
  Row("dashboard", 1, 1, NoTrack, {Dashed(k1)}),
  Row("daigou", 1, 10, Number(k4), {Number(k4)}),
  Row("daigou", 2, 3, Number(k3), {Number(k3)}),
  Row("daigou", 3, 6, Number(k2), {Number(k2), Number(k3)})}

World(R, found) == [rows |-> R, tracking |-> found, phone |-> found, counts |-> found,
                    search |-> IF found THEN "none" ELSE "tracking"]

\* No row, one row, two rows of one parcel, three of which the second shares a
\* number with the others, or all of them.  A server that finds nobody at once and
\* reports no total is tried with no row and with all of them.
Parcels  == {{q[1], q[2]} : q \in {q \in Pool \X Pool : q[1] = q[2] \/ SameParcel(q[1], q[2])}}
Chain    == {o \in Pool : <<o.source, o.pos>> \in {<<"jiyun", 2>>, <<"unpicked", 1>>, <<"delivery", 2>>}}
MCWorlds == {World(R, TRUE) : R \in Parcels \cup {{}, Chain, Pool}}
              \cup {World(R, FALSE) : R \in {{}, Pool}}
=============================================================================

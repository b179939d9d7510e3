----------------------------- MODULE BatchProofs ----------------------------
(* Machine-checked proofs about Batch, for texts of any length with any    *)
(* number of parameters and rows.                                          *)
EXTENDS Batch, SequenceTheorems, TLAPS

Element == Statement \cup {Comment}

Place == {"prepare", "bind", "step", "read", "block", "close", "exec", "map",
          "end"}

(* Only the last element of a text may be a comment.                       *)
TypeInv ==
    /\ method \in Method /\ yields \in BOOLEAN
    /\ text \in Seq(Element)
    /\ \A i \in 1 .. Len(text) - 1 : text[i] \in Statement
    /\ given \in Seq({"ok", "bad"})
    /\ at \in Nat \ {0} /\ pc \in Place
    /\ stmt \in {"none", "open", "closed"}
    /\ bound \in Nat /\ row \in Nat
    /\ rows \in Seq(Nat \X Nat)
    /\ exit \in {"none", "raised", "left"}
    /\ ran \in Seq(Nat \X Nat)

(* Which method is where, and with which statement.                        *)
ControlInv ==
    /\ method = "batch2" =>
          pc \in {"exec", "map", "block", "end"} /\ stmt = "none"
    /\ pc \in {"exec", "map"} => method = "batch2"
    /\ pc = "read" => method = "execute2"
    /\ pc = "block" => method # "batch"
    /\ method = "batch" => ~yields
    /\ method \in Queries => yields
    /\ pc \notin {"close", "end"} => exit = "none"
    /\ ~Batches => at = 1
    /\ method = "batch" /\ pc # "end" => at <= Len(text)
    /\ stmt = "open" /\ pc # "end" => at <= Len(text) /\ text[at] \in Statement
    /\ method # "batch2" /\ pc \in {"bind", "step", "read", "block", "close"}
          => stmt # "none"
    /\ method = "batch" /\ pc \in {"bind", "step"} => stmt = "open"
    /\ method \in {"first", "query"} /\ pc \in {"prepare", "bind", "step"} =>
          rows = <<>>

(* The statements before the present one have all run, and none failed.    *)
PrefixInv ==
    /\ \A i \in DOMAIN ran : ran[i][1] = i
    /\ Len(ran) <= at
    /\ at <= Len(text) + 1
    /\ \A i \in 1 .. at - 1 : text[i] # Comment /\ ~Failing(text[i])
    /\ Batches /\ pc \in {"prepare", "bind", "step", "exec"} =>
          Len(ran) = at - 1
    /\ method = "batch" /\ pc = "close" /\ exit = "none" =>
          IF text[at] = Comment THEN Len(ran) = at - 1
          ELSE Len(ran) = at /\ ~Failing(text[at])
    /\ method = "batch2" /\ pc \in {"map", "block"} =>
          Len(ran) = at - 1 /\ Count = at - 1

(* What execute_batch would return after the first k statements.           *)
Last(k) == IF k > 0 /\ text[k].rows > 0 THEN <<k, 1>> ELSE Nil

ResultInv == method = "batch" /\ exit = "none" => result = Last(Len(ran))

(* What execute, execute2, get_first_value and execute_batch have read of  *)
(* the one statement they run, or run now.                                 *)
ReadInv ==
    /\ method = "batch" /\ pc \in {"bind", "step"} => row = 0
    /\ method \in {"execute", "execute2"} =>
          /\ rows = [i \in 1 .. row |-> <<1, i>>]
          /\ pc = "prepare" => row = 0
          /\ row <= Now.rows
          /\ pc = "close" /\ exit = "none" =>
                stmt = "open" /\ row = Now.rows /\ Len(ran) = 1
    /\ method = "first" =>
          /\ pc \in {"prepare", "bind", "step", "block"} =>
                row = 0 /\ rows = <<>>
          /\ pc \in {"block", "close"} /\ exit # "raised" => stmt = "open"
          /\ pc = "close" /\ exit # "raised" =>
                rows = IF text[1].rows > 0 THEN <<<<1, 1>>>> ELSE <<>>

(* The rows of s are those of the first k statements, in order.            *)
AllRows(s, k) ==
    /\ {s[i] : i \in DOMAIN s} = UNION {RowsOf(i) : i \in 1 .. k}
    /\ \A i, j \in DOMAIN s : i < j =>
          \/ s[i][1] < s[j][1]
          \/ s[i][1] = s[j][1] /\ s[i][2] < s[j][2]

(* What execute_batch2 has collected.                                      *)
CollectInv ==
    method = "batch2" /\ exit = "none" => AllRows(rows, Len(ran))

BatchInv ==
    /\ TypeInv
    /\ ControlInv
    /\ PrefixInv
    /\ ResultInv
    /\ ReadInv
    /\ CollectInv
    /\ EverythingClosed
    /\ AllOrPrefix
    /\ ReturnsAllRows

-----------------------------------------------------------------------------
(* The elements of a text, as far as the methods tell them apart.          *)
LEMMA Elements ==
    ASSUME NEW p \in Element
    PROVE  /\ p.rows \in Nat /\ p.params \in Nat
           /\ p.ends \in {"done", "error"}
           /\ p # Comment <=> p \in Statement
           /\ p = Comment => p.rows = 0 /\ p.ends = "done"
           /\ p.is = "write" => p.rows = 0
           /\ p # Invalid /\ p # Comment => p \in Write \cup Query
<1> USE DEF Element, Statement, Comment, Invalid, Write, Query
<1> QED
  OBVIOUS

(* A text is a sequence of statements, with or without a comment after it. *)
LEMMA TextShape ==
    ASSUME NEW s \in Text
    PROVE  /\ s \in Seq(Element)
           /\ \A i \in 1 .. Len(s) - 1 : s[i] \in Statement
<1>1. ASSUME NEW n \in Nat, NEW u \in [1 .. n -> Statement]
      PROVE  u \in Seq(Statement) /\ u \in Seq(Element) /\ Len(u) = n
  BY DEF Element
<1>2. CASE \E n \in 0 .. MaxLength : s \in [1 .. n -> Statement]
  <2>1. PICK n \in 0 .. MaxLength : s \in [1 .. n -> Statement]
    BY <1>2
  <2> QED
    BY <1>1, <2>1
<1>3. CASE \E n \in 0 .. MaxLength :
              \E u \in [1 .. n -> Statement] : s = Append(u, Comment)
  <2>0. PICK n \in 0 .. MaxLength :
           \E u \in [1 .. n -> Statement] : s = Append(u, Comment)
    BY <1>3
  <2>1. PICK u \in [1 .. n -> Statement] : s = Append(u, Comment)
    BY <2>0
  <2>2. n \in Nat /\ u \in Seq(Element) /\ Len(u) = n
    BY <1>1
  <2>3. Comment \in Element
    BY DEF Element
  <2>4. s \in Seq(Element) /\ Len(s) = n + 1 /\ \A i \in 1 .. n : s[i] = u[i]
    BY <2>1, <2>2, <2>3
  <2> QED
    BY <2>4
<1> QED
  BY <1>2, <1>3 DEF Text

(* The statement whose turn it is.                                         *)
LEMMA NowFacts ==
    ASSUME TypeInv
    PROVE  /\ Now \in Element /\ Len(text) \in Nat
           /\ Now.rows \in Nat /\ Now.params \in Nat
           /\ Now.ends \in {"done", "error"}
           /\ Now # Comment => at <= Len(text) /\ text[at] \in Statement
           /\ at <= Len(text) => Now = text[at] /\ text[at] \in Element
           /\ at < Len(text) => Now # Comment
           /\ Now = Comment => Now.rows = 0 /\ Now.ends = "done"
           /\ Now.is = "write" => Now.rows = 0
<1>2. at <= Len(text) => text[at] \in Element
  BY DEF TypeInv
<1>3. Now \in Element
  BY <1>2 DEF Now, Element
<1>5. at <= Len(text) => Now = text[at]
  BY DEF Now
<1>6. ~(at <= Len(text)) => Now = Comment
  BY DEF Now
<1> QED
  BY <1>3, <1>5, <1>6, Elements DEF TypeInv

(* How many statements a text has.                                         *)
LEMMA CountFacts ==
    ASSUME TypeInv
    PROVE  /\ (\A i \in 1 .. Len(text) : text[i] # Comment) =>
                 Count = Len(text)
           /\ at <= Len(text) /\ text[at] = Comment =>
                 at = Len(text) /\ Count = Len(text) - 1
<1>1. PICK n \in Nat : n = Len(text) /\ DOMAIN text = 1 .. n
  BY DEF TypeInv
<1>2. at < n => text[at] # Comment
  BY <1>1, NowFacts
<1>3. at \in Nat /\ at # 0
  BY DEF TypeInv
<1>4. (\A i \in 1 .. n : text[i] # Comment) => Count = n
  <2>1. (\A i \in 1 .. n : text[i] # Comment) =>
           ~ \E i \in DOMAIN text : text[i] = Comment
    BY <1>1
  <2>2. (~ \E i \in DOMAIN text : text[i] = Comment) => Count = Len(text)
    BY ONLY <1>1 DEF Count
  <2> QED
    BY ONLY <1>1, <2>1, <2>2
<1>5. at <= n /\ text[at] = Comment => at = n /\ Count = n - 1
  <2> SUFFICES ASSUME at <= n, text[at] = Comment
               PROVE  at = n /\ Count = n - 1
    OBVIOUS
  <2>1. at = n /\ \E i \in DOMAIN text : text[i] = Comment
    BY ONLY <1>1, <1>2, <1>3, at <= n, text[at] = Comment
  <2>2. Count = Len(text) - 1
    BY ONLY <2>1 DEF Count
  <2> QED
    BY ONLY <1>1, <2>1, <2>2
<1> QED
  BY ONLY <1>1, <1>4, <1>5

(* The history after a step of the present statement.                      *)
LEMMA RanFacts ==
    ASSUME TypeInv, \A i \in DOMAIN ran : ran[i][1] = i,
           Len(ran) \in {at - 1, at}
    PROVE  /\ Ran \in Seq(Nat \X Nat)
           /\ Len(Ran) = at
           /\ \A i \in DOMAIN Ran : Ran[i][1] = i
<1>1. PICK n \in Nat : n = Len(ran) /\ DOMAIN ran = 1 .. n
  BY LenProperties DEF TypeInv
<1>2. at \in Nat /\ at # 0 /\ bound \in Nat /\ ran \in Seq(Nat \X Nat)
  BY DEF TypeInv
<1>3. CASE n = at
  <2>1. at \in DOMAIN ran /\ ran[at][1] = at
    BY <1>1, <1>2, <1>3
  <2>2. Ran = ran
    BY <2>1 DEF Ran
  <2> QED
    BY <1>1, <1>2, <1>3, <2>2
<1>4. CASE n = at - 1
  <2>1. ~ \E i \in DOMAIN ran : ran[i][1] = at
    BY <1>1, <1>4
  <2>2. Ran = Append(ran, <<at, bound>>)
    BY <2>1 DEF Ran
  <2>4. /\ Ran \in Seq(Nat \X Nat) /\ Len(Ran) = n + 1
        /\ \A i \in 1 .. n : Ran[i] = ran[i]
        /\ Ran[n + 1] = <<at, bound>>
    BY <1>1, <1>2, <2>2
  <2>6. ASSUME NEW i \in 1 .. at
        PROVE  Ran[i][1] = i
    <3>1. CASE i = at
      BY ONLY <1>2, <1>4, <2>4, <3>1
    <3>2. CASE i \in 1 .. n
      BY <1>1, <2>4, <3>2
    <3> QED
      BY ONLY <1>2, <1>4, <3>1, <3>2, i \in 1 .. at
  <2> QED
    BY <1>4, <2>4, <2>6
<1> QED
  BY <1>1, <1>3, <1>4

(* The lengths of the sequences.                                           *)
LEMMA Lengths ==
    ASSUME TypeInv
    PROVE  Len(ran) \in Nat /\ Len(rows) \in Nat /\ Len(given) \in Nat
  BY LenProperties DEF TypeInv

(* All rows of the one statement.                                          *)
LEMMA OneStatement ==
    ASSUME NEW n \in Nat, n = text[1].rows,
           NEW s, s = [i \in 1 .. n |-> <<1, i>>]
    PROVE  AllRows(s, 1)
<1>2. {s[i] : i \in DOMAIN s} = RowsOf(1)
  BY DEF RowsOf
<1> QED
  BY <1>2 DEF AllRows

(* The rows of the next statement are appended.                            *)
LEMMA Collected ==
    ASSUME TypeInv, AllRows(rows, at - 1), text[at].rows \in Nat,
           NEW t, t = rows \o [i \in 1 .. text[at].rows |-> <<at, i>>]
    PROVE  AllRows(t, at)
<1> DEFINE m == text[at].rows
           u == [i \in 1 .. m |-> <<at, i>>]
<1>1. at \in Nat /\ at # 0 /\ rows \in Seq(Nat \X Nat) /\ m \in Nat
  BY DEF TypeInv
<1>4. t = rows \o u
  OBVIOUS
<1> HIDE DEF m
<1>2. u \in Seq(Nat \X Nat) /\ Len(u) = m /\ \A i \in 1 .. m : u[i] = <<at, i>>
  BY <1>1
<1>3. PICK l \in Nat : l = Len(rows) /\ DOMAIN rows = 1 .. l
  BY <1>1, LenProperties
<1> HIDE DEF u
<1>5. /\ t \in Seq(Nat \X Nat) /\ Len(t) = l + m
      /\ \A i \in 1 .. l + m : t[i] = IF i <= l THEN rows[i] ELSE u[i - l]
  <2>1. /\ t \in Seq(Nat \X Nat) /\ Len(t) = Len(rows) + Len(u)
        /\ \A i \in 1 .. Len(rows) + Len(u) :
              t[i] = IF i <= Len(rows) THEN rows[i] ELSE u[i - Len(rows)]
    BY ONLY <1>1, <1>2, <1>4, ConcatProperties
  <2> QED
    BY ONLY <1>2, <1>3, <2>1
<1>6. DOMAIN t = 1 .. l + m
  BY <1>5, LenProperties
<1>7. \A i \in 1 .. l : t[i] = rows[i] /\ i \in 1 .. l + m
  BY ONLY <1>1, <1>5, l \in Nat
<1>8. ASSUME NEW k \in 1 .. m PROVE t[l + k] = <<at, k>>
  <2>1. l + k \in 1 .. l + m /\ ~(l + k <= l) /\ (l + k) - l = k
    BY ONLY <1>1, l \in Nat, k \in 1 .. m
  <2>2. t[l + k] = u[(l + k) - l]
    BY <1>5, <2>1
  <2> QED
    BY ONLY <1>2, <2>1, <2>2, k \in 1 .. m
<1>9. \A i \in 1 .. l + m : i \in 1 .. l \/ \E k \in 1 .. m : i = l + k
  <2> SUFFICES ASSUME NEW i \in 1 .. l + m, i \notin 1 .. l
               PROVE  i - l \in 1 .. m /\ i = l + (i - l)
    OBVIOUS
  <2> QED
    BY ONLY <1>1, l \in Nat, i \in 1 .. l + m, i \notin 1 .. l
<1>10. RowsOf(at) = {<<at, k>> : k \in 1 .. m}
  BY DEF RowsOf, m
<1>11. {t[i] : i \in DOMAIN t} = {rows[i] : i \in DOMAIN rows} \cup RowsOf(at)
  <2>1. ASSUME NEW i \in DOMAIN t
        PROVE  t[i] \in {rows[j] : j \in DOMAIN rows} \cup RowsOf(at)
    <3>1. CASE i \in 1 .. l
      BY <1>3, <1>7, <3>1
    <3>2. CASE i \notin 1 .. l
      <4>1. PICK k \in 1 .. m : i = l + k
        BY <1>6, <1>9, <3>2
      <4> QED
        BY <1>8, <1>10, <4>1
    <3> QED
      BY <3>1, <3>2
  <2>2. ASSUME NEW i \in DOMAIN rows
        PROVE  rows[i] \in {t[j] : j \in DOMAIN t}
    BY <1>3, <1>6, <1>7
  <2>3. ASSUME NEW k \in 1 .. m
        PROVE  <<at, k>> \in {t[j] : j \in DOMAIN t}
    <3>1. l + k \in 1 .. l + m
      BY ONLY <1>1, l \in Nat, k \in 1 .. m
    <3> QED
      BY <1>6, <1>8, <3>1
  <2> QED
    BY ONLY <1>10, <2>1, <2>2, <2>3
<1>12. UNION {RowsOf(i) : i \in 1 .. at}
         = (UNION {RowsOf(i) : i \in 1 .. at - 1}) \cup RowsOf(at)
  <2>1. 1 .. at = (1 .. at - 1) \cup {at}
    BY <1>1
  <2> QED
    BY <2>1
<1>13. ASSUME NEW i \in 1 .. l + m, NEW j \in 1 .. l + m, i < j
       PROVE  \/ t[i][1] < t[j][1]
              \/ t[i][1] = t[j][1] /\ t[i][2] < t[j][2]
  <2>1. CASE j \in 1 .. l
    <3>1. i \in 1 .. l
      BY ONLY <1>13, <2>1, l \in Nat
    <3> QED
      BY <1>3, <1>7, <1>13, <2>1, <3>1 DEF AllRows
  <2>2. CASE i \in 1 .. l /\ j \notin 1 .. l
    <3>1. t[i] \in UNION {RowsOf(q) : q \in 1 .. at - 1}
      BY <1>3, <1>7, <2>2 DEF AllRows
    <3>2. PICK q \in 1 .. at - 1 : t[i] \in RowsOf(q)
      BY <3>1
    <3>3. t[i][1] = q
      <4>1. PICK k \in 1 .. text[q].rows : t[i] = <<q, k>>
        BY <3>2 DEF RowsOf
      <4> QED
        BY ONLY <4>1
    <3>4. t[j][1] = at
      <4>1. PICK k \in 1 .. m : j = l + k
        BY <1>9, <2>2
      <4>2. t[j] = <<at, k>>
        BY <1>8, <4>1
      <4> QED
        BY ONLY <4>2
    <3> QED
      BY ONLY <1>1, <3>3, <3>4, q \in 1 .. at - 1
  <2>3. CASE i \notin 1 .. l
    <3>1. j \notin 1 .. l
      BY ONLY <1>13, <2>3, <1>1, l \in Nat
    <3>2. PICK k \in 1 .. m : i = l + k
      BY <1>9, <2>3
    <3>3. PICK h \in 1 .. m : j = l + h
      BY <1>9, <3>1
    <3>4. k < h
      BY ONLY <1>1, <1>13, <3>2, <3>3, l \in Nat, k \in 1 .. m, h \in 1 .. m
    <3>5. t[i] = <<at, k>> /\ t[j] = <<at, h>>
      BY <1>8, <3>2, <3>3
    <3> QED
      BY ONLY <3>4, <3>5
  <2> QED
    BY <2>1, <2>2, <2>3
<1> QED
  BY <1>6, <1>11, <1>12, <1>13 DEF AllRows

(* Where a method goes on after its block.                                 *)
LEMMA AfterBlocks ==
    /\ AfterBlock["execute"] = "step" /\ AfterBlock["execute2"] = "read"
    /\ AfterBlock["query"] = "close" /\ AfterBlock["batch2"] = "map"
  BY DEF AfterBlock

(* The call itself does not change.                                        *)
LEMMA SameCall ==
    ASSUME UNCHANGED <<method, text>>
    PROVE  Count' = Count /\ (Batches' <=> Batches)
  BY DEF Count, Batches

(* Nor do the rows that it has collected.                                  *)
LEMMA SameRows ==
    ASSUME UNCHANGED <<text, rows, ran>>
    PROVE  AllRows(rows, Len(ran))' <=> AllRows(rows, Len(ran))
  BY DEF AllRows, RowsOf

-----------------------------------------------------------------------------
(* Every call starts with nothing run and nothing read.                    *)
LEMMA InitInv == Init => BatchInv
<1> SUFFICES ASSUME Init PROVE BatchInv
  OBVIOUS
<1>1. /\ text \in Seq(Element)
      /\ \A i \in 1 .. Len(text) - 1 : text[i] \in Statement
  BY TextShape DEF Init
<1>2. given \in Seq({"ok", "bad"})
  <2>1. CASE given = <<>>
    BY <2>1
  <2>2. CASE given \in Given
    <3>1. PICK n \in 0 .. MaxParams + 1 : given \in [1 .. n -> {"ok", "bad"}]
      BY <2>2 DEF Given
    <3> QED
      BY <3>1
  <2> QED
    BY <2>1, <2>2 DEF Init
<1>3. rows = <<>> /\ ran = <<>> /\ Len(ran) = 0 /\ Len(rows) = 0
      /\ DOMAIN ran = {} /\ DOMAIN rows = {}
  BY DEF Init
<1>4. TypeInv
  <2>1. yields \in BOOLEAN /\ pc \in Place
    BY DEF Init, Place
  <2> QED
    BY <1>1, <1>2, <2>1 DEF Init, TypeInv
<1>5. Len(text) \in Nat /\ (text # <<>> => 1 <= Len(text))
  BY <1>4, LenProperties, EmptySeq DEF TypeInv
<1>6. ControlInv
  BY <1>5 DEF Init, ControlInv, Queries
<1>7. PrefixInv
  BY <1>3, <1>5 DEF Init, PrefixInv
<1>8. ResultInv
  BY <1>3 DEF Init, ResultInv, Last
<1>9. ReadInv
  BY <1>4, NowFacts DEF Init, ReadInv
<1>10. AllRows(rows, Len(ran))
  BY <1>3 DEF AllRows
<1>11. CollectInv /\ EverythingClosed
  BY <1>10 DEF CollectInv, EverythingClosed, Init
<1>12. text = <<>> => Count = 0
  BY DEF Count
<1>13. AllOrPrefix
  BY <1>3, <1>12 DEF AllOrPrefix, Init
<1>14. ReturnsAllRows
  BY DEF ReturnsAllRows, Init
<1> QED
  BY <1>4, <1>6, <1>7, <1>8, <1>9, <1>11, <1>13, <1>14 DEF BatchInv

(* A statement is prepared; a text that does not compile leaves none.      *)
LEMMA PrepareKeeps ==
    ASSUME BatchInv, Prepare
    PROVE  BatchInv'
<1> USE NowFacts DEF BatchInv, input, Prepare
<1>0. /\ UNCHANGED <<method, text>>
      /\ Count' = Count /\ (Batches' <=> Batches)
  BY SameCall
<1>1. TypeInv'
  BY DEF TypeInv, Place
<1>2. ControlInv'
  BY <1>0 DEF ControlInv
<1>3. PrefixInv'
  BY DEF PrefixInv, ControlInv, Batches, Failing
<1>4. ResultInv'
  BY DEF ResultInv, Last
<1>5. ReadInv'
  BY DEF ReadInv, Now
<1>6. CollectInv'
  BY SameRows DEF CollectInv
<1>7. EverythingClosed'
  BY DEF EverythingClosed
<1>8. AllOrPrefix'
  BY <1>0 DEF AllOrPrefix, Failing
<1>9. ReturnsAllRows'
  BY DEF ReturnsAllRows
<1> QED
  BY <1>1, <1>2, <1>3, <1>4, <1>5, <1>6, <1>7, <1>8, <1>9

(* A variable is bound, or the statement raises before it has run.         *)
LEMMA BindKeeps ==
    ASSUME BatchInv, Bind
    PROVE  BatchInv'
<1> USE DEF BatchInv, input, Bind, Leave, Queries
<1>0. /\ UNCHANGED <<method, text>>
      /\ Count' = Count /\ (Batches' <=> Batches)
  BY SameCall
<1>1. TypeInv'
  BY DEF TypeInv, Place
<1>2. ControlInv'
  BY <1>0 DEF ControlInv
<1>3. PrefixInv'
  BY <1>0 DEF PrefixInv, Failing
<1>4. ResultInv'
  BY DEF ResultInv, Last
<1>5. ReadInv'
  BY DEF ReadInv, Now
<1>6. CollectInv'
  BY SameRows DEF CollectInv
<1>7. EverythingClosed'
  BY DEF EverythingClosed, ControlInv
<1>8. AllOrPrefix'
  BY <1>0 DEF AllOrPrefix, Failing
<1>9. ReturnsAllRows'
  BY DEF ReturnsAllRows
<1> QED
  BY <1>1, <1>2, <1>3, <1>4, <1>5, <1>6, <1>7, <1>8, <1>9

(* execute_batch runs the statement.                                       *)
LEMMA StepBatchKeeps ==
    ASSUME BatchInv, StepBatch
    PROVE  BatchInv'
<1> USE NowFacts DEF BatchInv, input, StepBatch, Answer, Leave, Queries
<1>0. /\ UNCHANGED <<method, text>>
      /\ Count' = Count /\ (Batches' <=> Batches)
  BY SameCall
<1>ran. /\ Ran \in Seq(Nat \X Nat) /\ Len(Ran) = at
      /\ \A i \in DOMAIN Ran : Ran[i][1] = i
  BY RanFacts DEF ControlInv, PrefixInv
<1>1. TypeInv'
  BY <1>0, <1>ran DEF TypeInv, Place
<1>2. ControlInv'
  BY <1>0 DEF ControlInv
<1>3. PrefixInv'
  <2>1. /\ at <= Len(text) /\ Now = text[at] /\ text[at] # Comment
        /\ row = 0 /\ stmt = "open"
    BY Elements DEF ControlInv, ReadInv
  <2>2. exit' = "none" => ~Failing(text[at])
    BY <2>1 DEF Failing
  <2> QED
    BY <1>0, <1>ran, <2>1, <2>2
       DEF PrefixInv, ControlInv, TypeInv, Batches, Failing
<1>4. ResultInv'
  BY <1>0, <1>ran DEF ResultInv, ReadInv, Last, ControlInv, TypeInv
<1>5. ReadInv'
  BY DEF ReadInv
<1>6. CollectInv'
  BY DEF CollectInv
<1>7. EverythingClosed'
  BY DEF EverythingClosed
<1>8. AllOrPrefix'
  BY <1>ran DEF AllOrPrefix, PrefixInv, Batches, Failing
<1>9. ReturnsAllRows'
  BY DEF ReturnsAllRows
<1> QED
  BY <1>1, <1>2, <1>3, <1>4, <1>5, <1>6, <1>7, <1>8, <1>9

(* A statement without columns runs, any other waits.                      *)
LEMMA StartKeeps ==
    ASSUME BatchInv, Start
    PROVE  BatchInv'
<1> USE NowFacts, Lengths
        DEF BatchInv, input, Start, Answer, Leave, Queries, cursor
<1>0. /\ UNCHANGED <<method, text>>
      /\ Count' = Count /\ (Batches' <=> Batches)
  BY SameCall
<1>ran. /\ Ran \in Seq(Nat \X Nat) /\ Len(Ran) = at
      /\ \A i \in DOMAIN Ran : Ran[i][1] = i
  BY RanFacts DEF ControlInv, PrefixInv
<1>1. TypeInv'
  BY <1>ran DEF TypeInv, Place
<1>2. ControlInv'
  BY <1>0, <1>ran DEF ControlInv, TypeInv, Place
<1>3. PrefixInv'
  <2>1. ~Batches' /\ at = 1 /\ at' = at /\ ran' \in {ran, Ran}
    BY <1>0 DEF ControlInv, Batches
  <2>2. method' # "batch" /\ method' # "batch2"
    BY <2>1 DEF Batches
  <2>3. at' <= Len(text') + 1
    BY <1>0, <2>1 DEF PrefixInv
  <2>4. Len(ran') <= at' /\ \A i \in DOMAIN ran' : ran'[i][1] = i
    <3>1. CASE ran' = ran
      BY ONLY PrefixInv, <2>1, <3>1 DEF PrefixInv
    <3>2. CASE ran' = Ran
      <4>1. Len(ran') <= at'
        <5>1. Len(ran') = at /\ at \in Nat /\ at' = at
          BY ONLY <1>ran, <2>1, <3>2
        <5> QED
          BY ONLY <5>1
      <4>2. \A i \in DOMAIN ran' : ran'[i][1] = i
        BY ONLY <1>ran, <3>2
      <4> QED
        BY ONLY <4>1, <4>2
    <3> QED
      BY ONLY <2>1, <3>1, <3>2
  <2>5. 1 .. at' - 1 = {}
    BY ONLY <2>1
  <2> QED
    BY ONLY <2>1, <2>2, <2>3, <2>4, <2>5 DEF PrefixInv
<1>4. ResultInv'
  BY DEF ResultInv
<1>5. ReadInv'
  BY DEF ReadInv, ControlInv, TypeInv, Now
<1>6. CollectInv'
  BY DEF CollectInv
<1>7. EverythingClosed'
  BY DEF EverythingClosed, ControlInv
<1>8. AllOrPrefix'
  BY <1>ran DEF AllOrPrefix, ControlInv, Batches
<1>9. ReturnsAllRows'
  BY DEF ReturnsAllRows
<1> QED
  BY <1>1, <1>2, <1>3, <1>4, <1>5, <1>6, <1>7, <1>8, <1>9

(* A row is read.                                                          *)
LEMMA StepRowKeeps ==
    ASSUME BatchInv, StepRow
    PROVE  BatchInv'
<1> USE NowFacts, Lengths
        DEF BatchInv, input, StepRow, Reads, Answer, Leave, Queries
<1>0. /\ UNCHANGED <<method, text>>
      /\ Count' = Count /\ (Batches' <=> Batches)
  BY SameCall
<1>ran. /\ Ran \in Seq(Nat \X Nat) /\ Len(Ran) = at
      /\ \A i \in DOMAIN Ran : Ran[i][1] = i
  BY RanFacts DEF ControlInv, PrefixInv, Batches
<1>1. TypeInv'
  <2>1. rows' \in Seq(Nat \X Nat) /\ row' \in Nat
    BY DEF TypeInv
  <2>2. pc' \in Place /\ exit' \in {"none", "raised", "left"}
    BY DEF TypeInv, Place
  <2> QED
    BY <1>ran, <2>1, <2>2 DEF TypeInv
<1>2. ControlInv'
  BY <1>0 DEF ControlInv
<1>3. PrefixInv'
  <2>1. ~Batches' /\ at = 1 /\ at' = at /\ ran' = Ran
    BY <1>0 DEF ControlInv, Batches
  <2>2. method' # "batch" /\ method' # "batch2"
    BY <2>1 DEF Batches
  <2>3. at' <= Len(text') + 1
    BY <1>0, <2>1 DEF PrefixInv
  <2>4. Len(ran') <= at' /\ \A i \in DOMAIN ran' : ran'[i][1] = i
    BY <1>ran, <2>1
  <2>5. 1 .. at' - 1 = {}
    BY ONLY <2>1
  <2> QED
    BY ONLY <2>1, <2>2, <2>3, <2>4, <2>5 DEF PrefixInv
<1>4. ResultInv'
  BY DEF ResultInv
<1>5. ReadInv'
  <2>1. /\ Now' = Now /\ row < Now.rows /\ row' = row + 1
        /\ rows' = Append(rows, <<at, row + 1>>)
        /\ stmt = "open" /\ stmt' = stmt /\ row \in Nat /\ Now.rows \in Nat
    BY DEF Now, TypeInv
  <2>2. CASE method \in {"execute", "execute2"}
    <3>1. at = 1 /\ rows = [i \in 1 .. row |-> <<1, i>>]
      BY <2>2 DEF ControlInv, ReadInv, Batches
    <3>2. rows' = [i \in 1 .. row + 1 |-> <<1, i>>]
      BY <2>1, <3>1
    <3>3. row' <= Now'.rows
      BY <2>1
    <3> QED
      BY <2>2, <3>2, <3>3 DEF ReadInv
  <2>3. CASE method = "first"
    <3>1. at = 1 /\ row = 0 /\ rows = <<>>
      BY <2>3 DEF ControlInv, ReadInv, Batches
    <3>2. rows' = <<<<1, 1>>>>
      BY ONLY <2>1, <3>1
    <3> QED
      BY <2>3, <3>2 DEF ReadInv
  <2>4. CASE method = "query"
    BY <2>4 DEF ReadInv
  <2> QED
    BY <2>2, <2>3, <2>4
<1>6. CollectInv'
  BY DEF CollectInv
<1>7. EverythingClosed'
  BY DEF EverythingClosed
<1>8. AllOrPrefix'
  <2>1. ~Batches' /\ pc' # "end" /\ at' = 1
    BY DEF ControlInv, Batches
  <2>2. Len(ran') \in Nat
    BY <1>1, LenProperties DEF TypeInv
  <2> QED
    BY ONLY <1>3, <2>1, <2>2 DEF AllOrPrefix, PrefixInv
<1>9. ReturnsAllRows'
  BY DEF ReturnsAllRows
<1> QED
  BY <1>1, <1>2, <1>3, <1>4, <1>5, <1>6, <1>7, <1>8, <1>9

(* The statement is at its end.                                            *)
LEMMA StepDoneKeeps ==
    ASSUME BatchInv, StepDone
    PROVE  BatchInv'
<1> USE NowFacts, Lengths
        DEF BatchInv, input, StepDone, Reads, Answer, Queries, cursor
<1>0. /\ UNCHANGED <<method, text>>
      /\ Count' = Count /\ (Batches' <=> Batches)
  BY SameCall
<1>ran. /\ Ran \in Seq(Nat \X Nat) /\ Len(Ran) = at
      /\ \A i \in DOMAIN Ran : Ran[i][1] = i
  BY RanFacts DEF ControlInv, PrefixInv, Batches
<1>1. TypeInv'
  BY <1>ran DEF TypeInv, Place
<1>2. ControlInv'
  BY <1>0 DEF ControlInv
<1>3. PrefixInv'
  <2>1. ~Batches' /\ at = 1 /\ at' = at /\ ran' = Ran
    BY <1>0 DEF ControlInv, Batches
  <2>2. method' # "batch" /\ method' # "batch2"
    BY <2>1 DEF Batches
  <2>3. at' <= Len(text') + 1
    BY <1>0, <2>1 DEF PrefixInv
  <2>4. Len(ran') <= at' /\ \A i \in DOMAIN ran' : ran'[i][1] = i
    BY <1>ran, <2>1
  <2>5. 1 .. at' - 1 = {}
    BY ONLY <2>1
  <2> QED
    BY ONLY <2>1, <2>2, <2>3, <2>4, <2>5 DEF PrefixInv
<1>4. ResultInv'
  BY DEF ResultInv
<1>5. ReadInv'
  <2>1. /\ Now' = Now /\ ~(row < Now.rows) /\ stmt = "open"
        /\ row \in Nat /\ Now.rows \in Nat
        /\ UNCHANGED <<method, row, rows, stmt, exit>>
    BY DEF Now, TypeInv
  <2>2. at = 1 /\ Len(ran') = at /\ pc # "close" /\ pc' # "prepare"
    BY <1>ran DEF ControlInv, Batches
  <2>3. /\ method = "batch" => FALSE
        /\ method = "first" => /\ text' = text /\ Now = text[1]
                               /\ row = 0 /\ rows = <<>>
    BY <1>0, <2>1, <2>2 DEF ReadInv, ControlInv, Now
  <2> QED
    BY ONLY ReadInv, <2>1, <2>2, <2>3 DEF ReadInv
<1>6. CollectInv'
  BY DEF CollectInv
<1>7. EverythingClosed'
  BY DEF EverythingClosed
<1>8. AllOrPrefix'
  BY <1>ran DEF AllOrPrefix, PrefixInv, ControlInv, Batches, Failing
<1>9. ReturnsAllRows'
  BY DEF ReturnsAllRows
<1> QED
  BY <1>1, <1>2, <1>3, <1>4, <1>5, <1>6, <1>7, <1>8, <1>9

(* A step raises.                                                          *)
LEMMA StepRaisesKeeps ==
    ASSUME BatchInv, StepRaises
    PROVE  BatchInv'
<1> USE DEF BatchInv, input, StepRaises, Reads, Leave, Queries, cursor
<1>0. /\ UNCHANGED <<method, text>>
      /\ Count' = Count /\ (Batches' <=> Batches)
  BY SameCall
<1>ran. /\ Ran \in Seq(Nat \X Nat) /\ Len(Ran) = at
      /\ \A i \in DOMAIN Ran : Ran[i][1] = i
  BY RanFacts DEF ControlInv, PrefixInv, Batches
<1>1. TypeInv'
  BY <1>ran DEF TypeInv, Place
<1>2. ControlInv'
  BY <1>0 DEF ControlInv
<1>3. PrefixInv'
  BY <1>ran DEF PrefixInv, TypeInv, Failing
<1>4. ResultInv'
  BY DEF ResultInv
<1>5. ReadInv'
  BY DEF ReadInv, Now
<1>6. CollectInv'
  BY DEF CollectInv
<1>7. EverythingClosed'
  BY DEF EverythingClosed
<1>8. AllOrPrefix'
  BY <1>0, <1>ran
     DEF AllOrPrefix, PrefixInv, ControlInv, TypeInv, Batches, Failing
<1>9. ReturnsAllRows'
  BY DEF ReturnsAllRows
<1> QED
  BY <1>1, <1>2, <1>3, <1>4, <1>5, <1>6, <1>7, <1>8, <1>9

(* The block returns.                                                      *)
LEMMA BlockReturnsKeeps ==
    ASSUME BatchInv, BlockReturns
    PROVE  BatchInv'
<1> USE DEF BatchInv, input, BlockReturns, cursor
<1>0. /\ UNCHANGED <<method, text>>
      /\ Count' = Count /\ (Batches' <=> Batches)
  BY SameCall
<1>after. \/ method = "execute" /\ pc' = "step"
          \/ method = "execute2" /\ pc' = "read"
          \/ method = "query" /\ pc' = "close"
          \/ method = "batch2" /\ pc' = "map"
  <2>1. method \in {"execute", "execute2", "query", "batch2"}
    BY DEF TypeInv, ControlInv, Method
  <2>2. pc' = AfterBlock[method]
    OBVIOUS
  <2> QED
    BY ONLY <2>1, <2>2, AfterBlocks
<1>1. TypeInv'
  BY <1>after DEF TypeInv, Place
<1>2. ControlInv'
  BY <1>0, <1>after DEF ControlInv
<1>3. PrefixInv'
  BY <1>0, <1>after DEF PrefixInv, Batches, Failing
<1>4. ResultInv'
  BY <1>after DEF ResultInv
<1>5. ReadInv'
  BY <1>after DEF ReadInv, Now
<1>6. CollectInv'
  BY SameRows DEF CollectInv
<1>7. EverythingClosed'
  BY <1>after DEF EverythingClosed
<1>8. AllOrPrefix'
  BY <1>0, <1>after DEF AllOrPrefix, Failing
<1>9. ReturnsAllRows'
  BY <1>after DEF ReturnsAllRows
<1> QED
  BY <1>1, <1>2, <1>3, <1>4, <1>5, <1>6, <1>7, <1>8, <1>9

(* The block raises, or leaves the method.                                 *)
LEMMA BlockLeavesKeeps ==
    ASSUME BatchInv, BlockLeaves
    PROVE  BatchInv'
<1> USE DEF BatchInv, input, BlockLeaves, Leave, cursor
<1>0. /\ UNCHANGED <<method, text>>
      /\ Count' = Count /\ (Batches' <=> Batches)
  BY SameCall
<1>1. TypeInv'
  BY DEF TypeInv, Place
<1>2. ControlInv'
  BY <1>0 DEF ControlInv
<1>3. PrefixInv'
  BY DEF PrefixInv, Failing
<1>4. ResultInv'
  BY DEF ResultInv
<1>5. ReadInv'
  BY DEF ReadInv, Now
<1>6. CollectInv'
  BY DEF CollectInv
<1>7. EverythingClosed'
  BY DEF EverythingClosed, ControlInv
<1>8. AllOrPrefix'
  BY <1>0 DEF AllOrPrefix, Failing
<1>9. ReturnsAllRows'
  BY DEF ReturnsAllRows
<1> QED
  BY <1>1, <1>2, <1>3, <1>4, <1>5, <1>6, <1>7, <1>8, <1>9

(* The block closes the result set.                                        *)
LEMMA BlockClosesKeeps ==
    ASSUME BatchInv, BlockCloses
    PROVE  BatchInv'
<1> USE DEF BatchInv, input, BlockCloses
<1>0. /\ UNCHANGED <<method, text>>
      /\ Count' = Count /\ (Batches' <=> Batches)
  BY SameCall
<1>1. TypeInv'
  BY DEF TypeInv
<1>2. ControlInv'
  BY <1>0 DEF ControlInv
<1>3. PrefixInv'
  BY DEF PrefixInv, ControlInv, Batches
<1>4. ResultInv'
  BY DEF ResultInv
<1>5. ReadInv'
  BY DEF ReadInv
<1>6. CollectInv'
  BY DEF CollectInv
<1>7. EverythingClosed'
  BY DEF EverythingClosed
<1>8. AllOrPrefix'
  BY DEF AllOrPrefix, TypeInv, Batches
<1>9. ReturnsAllRows'
  BY DEF ReturnsAllRows
<1> QED
  BY <1>1, <1>2, <1>3, <1>4, <1>5, <1>6, <1>7, <1>8, <1>9

(* The ensure clause, and the loop of execute_batch.                       *)
LEMMA CloseKeeps ==
    ASSUME BatchInv, Close
    PROVE  BatchInv'
<1> USE NowFacts, Lengths DEF BatchInv, input, Close, Queries
<1>0. /\ UNCHANGED <<method, text>>
      /\ Count' = Count /\ (Batches' <=> Batches)
  BY SameCall
<1>1. TypeInv'
  BY DEF TypeInv, Place
<1>2. ControlInv'
  BY DEF ControlInv, TypeInv, Batches
<1>3. PrefixInv'
  <2>1. UNCHANGED <<method, text, ran>> /\ at \in Nat /\ Len(text) \in Nat
    BY LenProperties DEF TypeInv
  <2>2. CASE method = "batch" /\ exit = "none" /\ at < Len(text)
    <3>1. at' = at + 1 /\ pc' = "prepare"
      BY <2>2
    <3>2. text[at] # Comment /\ ~Failing(text[at]) /\ Len(ran) = at
      BY <2>1, <2>2, CountFacts DEF PrefixInv
    <3> QED
      BY <2>1, <2>2, <3>1, <3>2 DEF PrefixInv, Failing, Batches
  <2>3. CASE ~(method = "batch" /\ exit = "none" /\ at < Len(text))
    <3>1. at' = at /\ pc' = "end"
      BY <2>3
    <3> QED
      BY <2>1, <3>1 DEF PrefixInv, Failing
  <2> QED
    BY <2>2, <2>3
<1>4. ResultInv'
  BY DEF ResultInv, Last
<1>5. ReadInv'
  BY DEF ReadInv, Now
<1>6. CollectInv'
  BY SameRows DEF CollectInv
<1>7. EverythingClosed'
  BY DEF EverythingClosed
<1>8. AllOrPrefix'
  <2>1. ASSUME method = "batch", exit = "none", at = Len(text)
        PROVE  Len(ran) = Count /\ \A i \in 1 .. Len(ran) : ~Failing(text[i])
    <3>1. CASE text[at] = Comment
      BY <2>1, CountFacts DEF PrefixInv
    <3>2. CASE text[at] # Comment
      <4>1. \A i \in 1 .. Len(text) : text[i] # Comment
        BY <2>1, <3>2 DEF PrefixInv
      <4>2. Count = Len(text)
        BY <4>1, CountFacts
      <4>3. /\ Len(ran) = at /\ ~Failing(text[at]) /\ at \in Nat
            /\ \A i \in 1 .. at - 1 : ~Failing(text[i])
        BY <2>1, <3>2 DEF PrefixInv
      <4>4. \A i \in 1 .. at : ~Failing(text[i])
        BY ONLY <4>3
      <4> QED
        BY ONLY <2>1, <4>2, <4>3, <4>4
    <3> QED
      BY <3>1, <3>2
  <2>2. DOMAIN ran = 1 .. Len(ran)
    BY LenProperties DEF TypeInv
  <2>3. method = "batch" /\ exit' = "none" /\ pc' = "end" =>
           Len(ran) = Count /\ \A i \in DOMAIN ran : ~Failing(text[i])
    BY <2>1, <2>2 DEF ControlInv, TypeInv
  <2> QED
    BY <1>0, <2>3 DEF AllOrPrefix, ControlInv, Batches, Failing
<1>9. ReturnsAllRows'
  <2>1. UNCHANGED <<text, rows, ran>>
    OBVIOUS
  <2>2. ASSUME method \in {"execute", "execute2"}, exit' = "none"
        PROVE  AllRows(rows, Len(ran))
    <3>1. exit = "none" /\ at = 1
      BY <2>2 DEF ControlInv, Batches
    <3>2. /\ row = text[1].rows /\ Len(ran) = 1 /\ row \in Nat
          /\ rows = [i \in 1 .. row |-> <<1, i>>]
      BY <2>2, <3>1 DEF ReadInv, ControlInv
    <3> QED
      BY ONLY <3>2, OneStatement
  <2>3. ASSUME method = "first", exit' # "raised"
        PROVE  rows = IF text[1].rows > 0 THEN <<<<1, 1>>>> ELSE <<>>
    BY <2>3 DEF ReadInv
  <2>4. DOMAIN ran = 1 .. Len(ran)
    BY LenProperties DEF TypeInv
  <2>5. method # "batch2" /\ stmt' = "closed"
    BY DEF ControlInv
  <2> HIDE DEF BatchInv, Close
  <2> QED
    BY ONLY <1>0, <2>1, <2>2, <2>3, <2>4, <2>5
       DEF ReturnsAllRows, AllRows, RowsOf
<1> QED
  BY <1>1, <1>2, <1>3, <1>4, <1>5, <1>6, <1>7, <1>8, <1>9

(* execute_batch2 runs a statement to its end.                             *)
LEMMA ExecKeeps ==
    ASSUME BatchInv, Exec
    PROVE  BatchInv'
<1> USE NowFacts, Lengths DEF BatchInv, input, Exec
<1>0. /\ UNCHANGED <<method, text>>
      /\ Count' = Count /\ (Batches' <=> Batches)
  BY SameCall
<1>ran. /\ Ran \in Seq(Nat \X Nat) /\ Len(Ran) = at
      /\ \A i \in DOMAIN Ran : Ran[i][1] = i
  BY RanFacts DEF ControlInv, PrefixInv
<1>1. TypeInv'
  <2> DEFINE more == [i \in 1 .. Now.rows |-> <<at, i>>]
  <2>1. Now.rows \in Nat /\ at \in Nat
    BY DEF TypeInv
  <2>2. more \in Seq(Nat \X Nat)
    BY <2>1
  <2>3. rows \o more \in Seq(Nat \X Nat)
    BY <2>2 DEF TypeInv
  <2>4. rows' \in Seq(Nat \X Nat)
    BY <2>3 DEF TypeInv
  <2>5. ran' \in Seq(Nat \X Nat)
    BY <1>ran DEF TypeInv
  <2>6. /\ at' \in {at, at + 1} /\ pc' \in {pc, "map", "end"}
        /\ row' \in {row, 0} /\ exit' \in {exit, "raised"}
    OBVIOUS
  <2>7. UNCHANGED <<method, yields, text, given, stmt, bound>>
    OBVIOUS
  <2> QED
    BY ONLY TypeInv, <2>4, <2>5, <2>6, <2>7 DEF TypeInv, Place
<1>2. ControlInv'
  BY DEF ControlInv, Batches
<1>3. PrefixInv'
  <2>1. CASE at > Len(text) \/ Now = Comment
    <3>1. Count = at - 1
      <4>1. CASE at > Len(text)
        BY <4>1, CountFacts DEF PrefixInv, TypeInv
      <4>2. CASE at <= Len(text)
        BY <2>1, <4>2, CountFacts DEF TypeInv
      <4> QED
        BY <4>1, <4>2 DEF TypeInv
    <3>2. UNCHANGED <<at, ran, exit, text, method>> /\ pc' = "map"
      BY <2>1
    <3> QED
      BY <1>0, <3>1, <3>2 DEF PrefixInv, Failing, Batches
  <2>2. CASE ~(at > Len(text) \/ Now = Comment)
    <3>1. at <= Len(text) /\ Now = text[at] /\ text[at] # Comment
      BY <2>2
    <3>2. pc' = "exec" => at' = at + 1 /\ ~Failing(text[at]) /\ ran' = Ran
      BY DEF Failing
    <3>3. pc' # "exec" => pc' = "end" /\ at' = at
      BY <2>2
    <3>4. ran' \in {ran, Ran}
      OBVIOUS
    <3>5. method = "batch2"
      BY DEF ControlInv
    <3>6. \A i \in DOMAIN ran' : ran'[i][1] = i
      BY <1>ran DEF PrefixInv
    <3>7. Len(ran) = at - 1 /\ at \in Nat /\ Len(text) \in Nat
      BY <3>5 DEF PrefixInv, TypeInv, Batches
    <3>8. Len(ran') <= at' /\ (pc' = "exec" => Len(ran') = at' - 1)
      BY ONLY <1>ran, <3>2, <3>3, <3>4, <3>7
    <3>9. at' <= Len(text) + 1
      BY ONLY <3>1, <3>2, <3>3, <3>7
    <3>10. \A i \in 1 .. at' - 1 : text[i] # Comment /\ ~Failing(text[i])
      <4>1. \A i \in 1 .. at - 1 : text[i] # Comment /\ ~Failing(text[i])
        BY DEF PrefixInv
      <4> QED
        BY ONLY <3>1, <3>2, <3>3, <3>7, <4>1
    <3>11. pc' \in {"exec", "end"}
      BY <3>3
    <3> QED
      BY ONLY <1>0, <3>5, <3>6, <3>8, <3>9, <3>10, <3>11
         DEF PrefixInv, Failing
  <2> QED
    BY <2>1, <2>2
<1>4. ResultInv'
  BY DEF ResultInv, ControlInv
<1>5. ReadInv'
  BY DEF ReadInv, ControlInv
<1>6. CollectInv'
  <2> SUFFICES ASSUME exit' = "none"
               PROVE  AllRows(rows, Len(ran))'
    BY DEF CollectInv
  <2>1. AllRows(rows, Len(ran)) /\ Len(ran) = at - 1
    BY DEF CollectInv, ControlInv, PrefixInv, Batches
  <2>2. CASE at > Len(text) \/ Now = Comment
    BY <2>1, <2>2, SameRows
  <2>3. CASE ~(at > Len(text) \/ Now = Comment)
    <3>1. /\ ran' = Ran /\ Now = text[at]
          /\ rows' = rows \o [i \in 1 .. Now.rows |-> <<at, i>>]
      BY <2>3
    <3>2. AllRows(rows', at)
      BY <2>1, <3>1, Collected
    <3>3. Len(ran') = at
      BY <3>1, <1>ran
    <3> QED
      BY ONLY <1>0, <3>2, <3>3 DEF AllRows, RowsOf
  <2> QED
    BY <2>2, <2>3
<1>7. EverythingClosed'
  BY DEF EverythingClosed, ControlInv
<1>8. AllOrPrefix'
  BY <1>ran DEF AllOrPrefix, PrefixInv, ControlInv, Batches, Failing
<1>9. ReturnsAllRows'
  BY DEF ReturnsAllRows
<1> QED
  BY <1>1, <1>2, <1>3, <1>4, <1>5, <1>6, <1>7, <1>8, <1>9

(* execute_batch2 gives a row to the block.                                *)
LEMMA MapKeeps ==
    ASSUME BatchInv, Map
    PROVE  BatchInv'
<1> USE NowFacts, Lengths DEF BatchInv, input, Map
<1>0. /\ UNCHANGED <<method, text>>
      /\ Count' = Count /\ (Batches' <=> Batches)
  BY SameCall
<1>1. TypeInv'
  BY DEF TypeInv, Place
<1>2. ControlInv'
  BY <1>0 DEF ControlInv
<1>3. PrefixInv'
  BY <1>0 DEF PrefixInv, Failing
<1>4. ResultInv'
  BY DEF ResultInv, Last
<1>5. ReadInv'
  BY DEF ReadInv, ControlInv
<1>6. CollectInv'
  BY SameRows DEF CollectInv
<1>7. EverythingClosed'
  BY DEF EverythingClosed, ControlInv
<1>8. AllOrPrefix'
  <2>1. /\ UNCHANGED <<method, text, ran, at, exit>> /\ method = "batch2"
        /\ Len(ran) = at - 1 /\ Count = at - 1 /\ DOMAIN ran = 1 .. at - 1
    BY LenProperties DEF PrefixInv, ControlInv, TypeInv
  <2>2. \A i \in DOMAIN ran : ~Failing(text[i])
    BY <2>1 DEF PrefixInv
  <2> QED
    BY <1>0, <2>1, <2>2 DEF AllOrPrefix, Batches, Failing
<1>9. ReturnsAllRows'
  <2>1. UNCHANGED <<text, rows, ran, exit>> /\ method = "batch2"
    BY DEF ControlInv
  <2>2. AllRows(rows, Len(ran)) /\ DOMAIN ran = 1 .. Len(ran)
    BY LenProperties DEF CollectInv, ControlInv, TypeInv
  <2> QED
    BY ONLY <1>0, <2>1, <2>2 DEF ReturnsAllRows, AllRows, RowsOf
<1> QED
  BY <1>1, <1>2, <1>3, <1>4, <1>5, <1>6, <1>7, <1>8, <1>9

-----------------------------------------------------------------------------
(* Every step keeps the invariant.                                         *)
LEMMA StepInv == BatchInv /\ [Next]_vars => BatchInv'
<1> SUFFICES ASSUME BatchInv, [Next]_vars
             PROVE  BatchInv'
  OBVIOUS
<1>1. CASE UNCHANGED vars
  <2>1. /\ Count' = Count
        /\ AllRows(rows, Len(ran))' <=> AllRows(rows, Len(ran))
    BY <1>1, SameCall, SameRows DEF vars
  <2> USE <1>1, <2>1 DEF vars, cursor, BatchInv
  <2>2. TypeInv' /\ ControlInv'
    BY DEF TypeInv, ControlInv, Batches
  <2>3. PrefixInv' /\ AllOrPrefix'
    BY DEF PrefixInv, AllOrPrefix, Batches, Failing
  <2>4. ResultInv' /\ ReadInv' /\ CollectInv' /\ EverythingClosed'
    BY DEF ResultInv, Last, ReadInv, Now, CollectInv, EverythingClosed
  <2>5. ReturnsAllRows'
    BY DEF ReturnsAllRows, RowsOf
  <2> QED
    BY <2>2, <2>3, <2>4, <2>5
<1>2. CASE Next
  BY <1>2, PrepareKeeps, BindKeeps, StepBatchKeeps, StartKeeps, StepRowKeeps,
     StepDoneKeeps, StepRaisesKeeps, BlockReturnsKeeps, BlockLeavesKeeps,
     BlockClosesKeeps, CloseKeeps, ExecKeeps, MapKeeps DEF Next
<1> QED
  BY <1>1, <1>2

(* The inductive invariant, for texts of any length.                       *)
THEOREM BatchInvariance == Spec => []BatchInv
<1> QED
  BY InitInv, StepInv, PTL DEF Spec

(* Whatever raises and wherever the block of the caller goes, the prepared *)
(* statement is closed when the method is over; only a query that raises   *)
(* before its block leaves it open.                                        *)
THEOREM EverythingClosed_Holds == Spec => []EverythingClosed
<1>1. BatchInv => EverythingClosed
  BY DEF BatchInv
<1> QED
  BY <1>1, BatchInvariance, PTL

(* The statements of a text run in order, each once; all of them if a      *)
(* batch returns, and none after one that fails.                           *)
THEOREM AllOrPrefix_Holds == Spec => []AllOrPrefix
<1>1. BatchInv => AllOrPrefix
  BY DEF BatchInv
<1> QED
  BY <1>1, BatchInvariance, PTL

(* execute_batch returns what the last statement answered; execute,        *)
(* execute2 and execute_batch2 give every row of every statement they ran, *)
(* once and in order, and get_first_value the first row.                   *)
THEOREM ReturnsWhatItRan_Holds == Spec => []ReturnsWhatItRan
<1>1. BatchInv => ResultIsLast
  BY DEF BatchInv, ResultInv, Last, AllOrPrefix, Batches, ResultIsLast
<1>2. BatchInv => ReturnsAllRows
  BY DEF BatchInv
<1>3. BatchInv => ReturnsWhatItRan
  BY <1>1, <1>2 DEF ReturnsWhatItRan
<1> QED
  BY <1>3, BatchInvariance, PTL

-----------------------------------------------------------------------------
(* With which variables the statements run.                                *)

(* The present statement is on its way there.                              *)
BoundInv ==
    /\ VariablesBound
    /\ bound <= Len(given)
    /\ method = "batch2" => bound = 0
    /\ pc = "bind" /\ method = "batch" /\ Len(given) # Now.params => bound = 0
    /\ pc \in {"step", "read", "block"} /\ method # "batch2" => bound = Wanted(at)

(* The history grows by the present statement only.                        *)
LEMMA RanGrows ==
    ASSUME BatchInv, VariablesBound, at \in DOMAIN text, bound = Wanted(at)
    PROVE  \A i \in DOMAIN Ran :
              Ran[i][1] \in DOMAIN text /\ Ran[i][2] = Wanted(Ran[i][1])
<1>1. CASE \E i \in DOMAIN ran : ran[i][1] = at
  BY <1>1 DEF Ran, VariablesBound
<1>2. CASE ~ \E i \in DOMAIN ran : ran[i][1] = at
  <2>1. PICK n \in Nat : n = Len(ran) /\ DOMAIN ran = 1 .. n
    BY LenProperties DEF BatchInv, TypeInv
  <2>2. Ran = Append(ran, <<at, bound>>) /\ ran \in Seq(Nat \X Nat)
    BY <1>2 DEF Ran, BatchInv, TypeInv
  <2>3. /\ DOMAIN Ran = 1 .. n + 1
        /\ \A i \in 1 .. n : Ran[i] = ran[i]
        /\ Ran[n + 1] = <<at, bound>>
    BY <2>1, <2>2, AppendProperties, at \in Nat, bound \in Nat DEF BatchInv, TypeInv
  <2> HIDE DEF Ran
  <2> QED
    BY <2>1, <2>3 DEF VariablesBound
<1> QED
  BY <1>1, <1>2

(* bind_params binds all the variables or raises.                          *)
THEOREM VariablesBound_Holds == Spec => []VariablesBound
<1>1. Init => BoundInv
  BY DEF Init, BoundInv, VariablesBound, Given
<1>2. BatchInv /\ BoundInv /\ [Next]_vars => BoundInv'
  <2> SUFFICES ASSUME BatchInv, BoundInv, Next
               PROVE  BoundInv'
    BY DEF BoundInv, VariablesBound, Wanted, Now, vars, cursor
  <2>0. /\ UNCHANGED <<method, text, given>>
        /\ \A i : Wanted(i)' = Wanted(i)
    BY DEF Next, Prepare, Bind, StepBatch, Start, StepRow, StepDone, StepRaises,
           BlockReturns, BlockLeaves, BlockCloses, Close, Exec, Map, input, Wanted
  <2>01. /\ Now # Comment => at \in DOMAIN text /\ Now = text[at]
         /\ stmt = "open" /\ pc # "end" => at \in DOMAIN text /\ Now = text[at]
         /\ Len(given) \in Nat /\ bound \in Nat
    BY NowFacts, Lengths, LenProperties DEF BatchInv, ControlInv, TypeInv
  <2> USE <2>0, <2>01 DEF Leave
  <2>1. CASE Prepare
    BY <2>1 DEF Prepare, VariablesBound, BoundInv, BatchInv, ControlInv
  <2>2. CASE Bind
    <3>1. CASE ~BindsStatement \/ bound = Len(given)
      <4>1. pc' = "step" /\ UNCHANGED <<at, ran, bound>>
        BY <2>2, <3>1 DEF Bind
      <4>2. method # "batch2" /\ (method = "batch" => Now = text[at])
        BY <2>2 DEF Bind, BatchInv, ControlInv
      <4>3. bound = Wanted(at)
        BY <2>2, <3>1, <4>2
           DEF Bind, BoundInv, BindsStatement, BindParameterCount, Wanted
      <4> QED
        BY <4>1, <4>2, <4>3 DEF BoundInv, VariablesBound
    <3>2. CASE BindsStatement /\ bound # Len(given)
      <4>1. /\ pc' \notin {"step", "read", "block"} /\ UNCHANGED <<at, ran>>
            /\ bound' \in {bound, bound + 1}
        BY <2>2, <3>2 DEF Bind
      <4>2. ~(method = "batch" /\ Len(given) # Now.params)
        BY <3>2 DEF BindsStatement, BindParameterCount
      <4>3. method # "batch2" /\ Now' = Now
        BY <2>2, <4>1 DEF Bind, BatchInv, ControlInv, Now
      <4> QED
        BY <3>2, <4>1, <4>2, <4>3 DEF BoundInv, VariablesBound
    <3> QED
      BY <3>1, <3>2
  <2>3. CASE StepBatch
    <3>1. /\ at \in DOMAIN text /\ bound = Wanted(at)
          /\ pc' = "close" /\ ran' = Ran /\ bound' = bound
      BY <2>3 DEF StepBatch, BoundInv, BatchInv, ControlInv, Queries
    <3> QED
      BY <3>1, RanGrows DEF BoundInv, VariablesBound
  <2>4. CASE Start
    <3>1. /\ bound = Wanted(at) /\ method # "batch2" /\ method # "batch"
          /\ bound' = bound /\ at' = at
          /\ ran' = ran \/ (at \in DOMAIN text /\ ran' = Ran)
          /\ pc' # "bind"
      BY <2>4 DEF Start, BoundInv, Queries, cursor, Comment
    <3> QED
      BY <3>1, RanGrows DEF BoundInv, VariablesBound
  <2>5. CASE StepRow \/ StepDone \/ StepRaises
    <3>1. /\ bound = Wanted(at) /\ method # "batch2" /\ method # "batch"
          /\ bound' = bound /\ at' = at
          /\ pc # "end"
      BY <2>5 DEF StepRow, StepDone, StepRaises, Reads, BoundInv, Queries, cursor
    <3>2. ran' = ran \/ (at \in DOMAIN text /\ ran' = Ran)
      BY <2>5, <3>1 DEF StepRow, StepDone, StepRaises, BatchInv, TypeInv, Reads,
                        ControlInv
    <3> QED
      BY <3>1, <3>2, RanGrows DEF BoundInv, VariablesBound
  <2>6. CASE BlockReturns \/ BlockLeaves \/ BlockCloses
    <3>1. pc = "block" /\ UNCHANGED <<bound, at, ran>>
      BY <2>6 DEF BlockReturns, BlockLeaves, BlockCloses, cursor
    <3>2. method \in Method /\ method # "batch"
      BY <3>1 DEF BatchInv, ControlInv, TypeInv
    <3>3. pc' # "bind"
      BY <2>6, <3>1, <3>2, AfterBlocks
         DEF BlockReturns, BlockLeaves, BlockCloses, Method
    <3> QED
      BY <3>1, <3>2, <3>3 DEF BoundInv, VariablesBound
  <2>7. CASE Close \/ Map
    BY <2>7 DEF Close, Map, BoundInv, VariablesBound, BatchInv, ControlInv
  <2>8. CASE Exec
    <3>1. /\ method = "batch2" /\ bound = 0 /\ bound' = bound /\ pc' # "bind"
          /\ ran' = ran \/ (Now # Comment /\ ran' = Ran)
      BY <2>8 DEF Exec, BoundInv, BatchInv, ControlInv
    <3> QED
      BY <3>1, RanGrows DEF BoundInv, VariablesBound, Wanted
  <2> QED
    BY <2>1, <2>2, <2>3, <2>4, <2>5, <2>6, <2>7, <2>8 DEF Next
<1>3. BoundInv => VariablesBound
  BY DEF BoundInv
<1> QED
  BY <1>1, <1>2, <1>3, BatchInvariance, PTL DEF Spec

(* Every statement that has parameters has one for each variable.          *)
OneCountOfParameters ==
    \A i \in DOMAIN text : text[i].params \in {0, Len(given)}

(* The comment of Database#execute_batch, that the same parameters are     *)
(* applied to each statement, holds where the numbers agree throughout.    *)
THEOREM GivenToEachIfCountsAgree ==
    Spec => [](OneCountOfParameters => GivenToEachStatement)
<1>1. BatchInv /\ VariablesBound
        => (OneCountOfParameters => GivenToEachStatement)
  <2> SUFFICES ASSUME BatchInv, VariablesBound, OneCountOfParameters,
                      method = "batch",
                      NEW i \in DOMAIN ran, NEW j \in DOMAIN ran,
                      ran[i][2] > 0, text[ran[j][1]].params > 0
               PROVE  ran[j][2] > 0
    BY DEF GivenToEachStatement
  <2>1. /\ ran[i][2] = Wanted(ran[i][1]) /\ ran[j][2] = Wanted(ran[j][1])
        /\ ran[j][1] \in DOMAIN text
    BY DEF VariablesBound
  <2>2. Len(given) > 0
    BY <2>1 DEF Wanted
  <2>3. text[ran[j][1]].params = Len(given)
    BY <2>1 DEF OneCountOfParameters
  <2> QED
    BY <2>1, <2>2, <2>3 DEF Wanted
<1> QED
  BY <1>1, VariablesBound_Holds, BatchInvariance, PTL

=============================================================================

------------------------- MODULE RoctoSessionProofs -------------------------
(***************************************************************************)
(* One rocto process, for any texts, names and messages: how parse_line    *)
(* walks through a text, and what the loops of the handlers make of it.    *)
(***************************************************************************)
EXTENDS RoctoSession, FiniteSetTheorems, SequenceTheorems, WellFoundedInduction, TLAPS

-----------------------------------------------------------------------------
(* The input buffer.                                                       *)

LEMMA LeastNat ==
    ASSUME NEW T, T \subseteq Nat, T # {}
    PROVE  \E n \in T : \A m \in T : n <= m
<1> DEFINE R == OpToRel(<, Nat)
<1>1. IsWellFoundedOn(R, Nat)
  BY NatLessThanWellFounded, Zenon
<1>2. \A i, j \in Nat : <<i, j>> \in R <=> i < j
  BY Zenon DEF OpToRel
<1> HIDE DEF R
<1>3. PICK n \in T : \A m \in T : ~(<<m, n>> \in R)
  BY <1>1, WFMin, Zenon
<1>4. ASSUME NEW m \in T PROVE n <= m
  <2>1. m \in Nat /\ n \in Nat /\ ~(<<m, n>> \in R)
    BY <1>3, Zenon
  <2> QED
    BY <1>2, <2>1
<1> QED
  BY <1>4, Zenon

\* The search for a token stops at the first one, or at the NUL.
LEMMA FirstFrom ==
    ASSUME NEW t \in Seq(Element), NEW i \in Nat \ {0}, NEW S
    PROVE  LET n == NextPosition(t, i, S)
           IN  /\ n \in Nat \ {0} /\ n <= Len(t) + 1
               /\ n <= Len(t) => i <= n /\ t[n] \in S
               /\ \A k \in i..Len(t) : k < n => t[k] \notin S
<1> DEFINE P == {k \in i..Len(t) : t[k] \in S} \cup {Len(t) + 1}
           n == NextPosition(t, i, S)
<1>1. Len(t) \in Nat
  OBVIOUS
<1>2. P \subseteq Nat /\ P # {}
  BY <1>1
<1>3. n = CHOOSE x \in P : \A y \in P : x <= y
  BY Zenon DEF NextPosition, Min
<1>4. n \in P /\ \A y \in P : n <= y
  <2> HIDE DEF P, n
  <2>1. \E x \in P : \A y \in P : x <= y
    BY <1>2, LeastNat, Zenon
  <2> QED
    BY <1>3, <2>1, Zenon
<1>5. n \in Nat \ {0} /\ n <= Len(t) + 1 /\ (n <= Len(t) => i <= n /\ t[n] \in S)
  BY <1>1, <1>4
<1>6. ASSUME NEW k \in i..Len(t), k < n PROVE t[k] \notin S
  <2>1. t[k] \in S => k \in P
    BY Zenon
  <2>2. k \in Int /\ n \in Int
    BY <1>1, <1>5
  <2> HIDE DEF P, n
  <2> QED
    BY <1>4, <1>6, <2>1, <2>2
<1> QED
  BY <1>5, <1>6, Zenon DEF n

\* Where the next token is
Token(t, i) == NextPosition(t, i, Element \ {Blank})

\* What yyparse makes of the end of the text and of an accepted statement.
LEMMA YyparseIs ==
    ASSUME NEW t, NEW i
    PROVE  /\ Token(t, i) > Len(t) => Yyparse(t, i).result = "no_data"
           /\ ~(Token(t, i) > Len(t)) /\ t[Token(t, i)] \in Accepted =>
                  /\ Yyparse(t, i).result = t[Token(t, i)]
                  /\ Yyparse(t, i).last = NextSemicolon(t, Token(t, i))
<1>1. PICK first : first = NextPosition(t, i, Element \ {Blank})
  BY Zenon
<1>2. Semicolon \notin Accepted /\ Semicolon \notin Failing /\ \A a \in Accepted : a \notin Failing
  BY Zenon DEF Accepted, Failing, Semicolon
<1>3. CASE first > Len(t)
  <2>1. Yyparse(t, i) = [result |-> "no_data", last |-> first]
    BY <1>1, <1>2, <1>3, Zenon DEF Yyparse, Failing
  <2> QED
    BY <1>1, <1>3, <2>1 DEF Token
<1>4. CASE ~(first > Len(t)) /\ t[first] \in Accepted
  <2>1. Yyparse(t, i) = [result |-> t[first], last |-> NextSemicolon(t, first)]
    BY <1>1, <1>2, <1>4, Zenon DEF Yyparse, Failing
  <2> QED
    BY <1>1, <1>4, <2>1 DEF Token
<1> QED
  BY <1>1, <1>3, <1>4, Zenon DEF Token

\* parse_line before the end of the text
NextLine(t, i) == ParseLine(t, i, FALSE)

\* What parse_line returns, by what yyparse does.
LEMMA LineIs ==
    ASSUME NEW t, NEW i
    PROVE  LET y == Yyparse(t, i)
               line == NextLine(t, i)
               read == Min({y.last + 2, Len(t) + 1})
           IN  /\ line.result = y.result
               /\ line.index = IF y.result \in {"error", "refused"} \/ read = 1 THEN read ELSE read - 1
               /\ line.eof = (y.last >= Len(t) \/ y.result = "no_data")
<1> DEFINE y == Yyparse(t, i)
           read == Min({y.last + 2, Len(t) + 1})
           next == IF y.result \in {"error", "refused"} \/ read = 1 THEN read ELSE read - 1
           end == FALSE \/ y.last >= Len(t) \/ y.result = "no_data"
<1>1. GetInput(t, i, FALSE) = t
  BY Zenon DEF GetInput
<1>2. PICK line, n, e : line = NextLine(t, i) /\ n = next /\ e = end
  BY Zenon
<1>3. line = [result |-> y.result, index |-> n, eof |-> e]
  BY <1>1, <1>2, Zenon DEF NextLine, ParseLine
<1> HIDE DEF y, next, end
<1>4. line.result = y.result /\ line.index = n /\ line.eof = e
  BY <1>3, Zenon
<1>5. end = (y.last >= Len(t) \/ y.result = "no_data")
  BY Zenon DEF end
<1> QED
  BY <1>2, <1>4, <1>5, Zenon DEF next, y

\* A text of accepted statements only
Smooth(t) == NoEmptyStatement(t) /\ \A k \in DOMAIN t : t[k] \notin Failing

\* At the start of such a text or after a semicolon, parse_line takes the next
\* statement up to its semicolon, or finds that there is none.
LEMMA NextStatement ==
    ASSUME NEW t, IsText(t), Smooth(t), NEW i \in 1..Len(t) + 1, i > 1 => t[i - 1] = Semicolon
    PROVE  LET line == NextLine(t, i)
           IN  \/ /\ line.result = "no_data" /\ line.eof = TRUE
                  /\ \A k \in i..Len(t) : t[k] \notin Kind
               \/ \E f \in i..Len(t), s \in i..Len(t) + 1 :
                      /\ t[f] \in Accepted /\ line.result = t[f]
                      /\ f < s /\ \A k \in i..Len(t) : k <= s => (t[k] \in Kind <=> k = f)
                      /\ line.eof = (s >= Len(t))
                      /\ s < Len(t) => t[s] = Semicolon /\ line.index = s + 1
<1> DEFINE line == NextLine(t, i)
           p == Yyparse(t, i)
<1>1. t \in Seq(Element)
  BY Zenon DEF IsText
<1>2. Len(t) \in Nat /\ i \in Nat \ {0} /\ DOMAIN t = 1..Len(t) /\ \A k \in i..Len(t) : k \in 1..Len(t)
  BY <1>1
<1>3. \A k \in 1..Len(t) : t[k] \in Element
  BY <1>1
<1>4. PICK first : first = Token(t, i)
  BY Zenon
<1>5. /\ first \in Nat \ {0} /\ first <= Len(t) + 1
      /\ first <= Len(t) => i <= first /\ t[first] \in Element \ {Blank}
      /\ \A k \in i..Len(t) : k < first => t[k] \notin Element \ {Blank}
  BY <1>1, <1>2, <1>4, FirstFrom, Zenon DEF Token
<1>6. \A k \in i..Len(t) : k < first => t[k] = Blank
  BY <1>2, <1>3, <1>5, Zenon
<1>7. PICK s : s = NextSemicolon(t, first)
  BY Zenon
<1>8. /\ s \in Nat \ {0} /\ s <= Len(t) + 1
      /\ s <= Len(t) => first <= s /\ t[s] \in {Semicolon}
      /\ \A k \in first..Len(t) : k < s => t[k] \notin {Semicolon}
  BY <1>1, <1>5, <1>7, FirstFrom, Zenon DEF NextSemicolon
<1>9. /\ Blank \notin Kind /\ Semicolon \notin Kind /\ Rest \notin Kind
       /\ Blank # Semicolon /\ Blank # Rest /\ Semicolon # Rest
       /\ \A k \in Kind : k \notin {"no_data", "error", "refused"}
  BY Zenon DEF Blank, Semicolon, Rest, Kind, Accepted, Failing
<1>10. CASE first > Len(t)
  <2>1. p.result = "no_data"
    BY <1>4, <1>10, YyparseIs, Zenon
  <2>2. line.result = "no_data" /\ line.eof = TRUE
    <3>1. line.result = p.result /\ line.eof = (p.last >= Len(t) \/ p.result = "no_data")
      BY LineIs, Zenon
    <3> HIDE DEF line, p
    <3> QED
      BY <2>1, <3>1, Zenon
  <2>3. \A k \in i..Len(t) : t[k] \notin Kind
    BY <1>2, <1>5, <1>6, <1>9, <1>10
  <2> QED
    BY <2>2, <2>3, Zenon
<1>11. CASE first <= Len(t)
  <2>1. first \in i..Len(t) /\ first \in 1..Len(t)
    BY <1>2, <1>5, <1>11
  \* What is before the first token is neither Rest nor a head.
  <2>2. first > 1 => t[first - 1] \in {Blank, Semicolon}
    <3>1. first > i => first - 1 \in i..Len(t) /\ first - 1 < first
      BY <1>2, <2>1
    <3> QED
      BY <1>2, <1>6, <2>1, <3>1
  <2>3. t[first] # Semicolon
    BY <1>9, <2>1, <2>2, Zenon DEF Smooth, NoEmptyStatement
  <2>4. t[first] # Rest
    BY <1>9, <2>1, <2>2, Zenon DEF IsText
  <2>5. t[first] \in Accepted
    BY <1>2, <1>5, <2>1, <2>3, <2>4 DEF Element, Kind, Smooth
  <2>6. first < s
    BY <1>2, <1>5, <1>8, <2>1, <2>3
  <2>7. p.result = t[first] /\ p.last = s
    <3>1. ~(first > Len(t))
      BY <1>2, <1>5, <1>11
    <3> QED
      BY <1>4, <1>7, <2>5, <3>1, YyparseIs, Zenon
  <2>8. ASSUME NEW k \in i..Len(t), k <= s PROVE t[k] \in Kind <=> k = first
    <3>1. CASE k < first
      BY <1>2, <1>5, <1>6, <1>9, <3>1
    <3>2. CASE k = first
      BY <2>5, <3>2, Zenon DEF Kind
    <3>3. CASE k > first /\ k = s
      BY <1>2, <1>5, <1>8, <1>9, <3>3
    <3>4. CASE k > first /\ k < s
      <4>1. k \in 1..Len(t) /\ first \in 1..(k - 1)
        BY <1>2, <1>5, <3>4
      <4>2. \A j \in first..k : t[j] # Semicolon
        BY <1>2, <1>5, <1>8, <3>4
      <4>3. t[first] \in Kind
        BY <2>5, Zenon DEF Kind
      <4>4. t[k] \notin Kind
        BY <4>1, <4>2, <4>3, Zenon DEF IsText
      <4> QED
        BY <1>5, <3>4, <4>4
    <3> QED
      BY <1>2, <1>5, <1>8, <2>8, <3>1, <3>2, <3>3, <3>4
  <2>9. t[first] \in Kind
    BY <2>5, Zenon DEF Kind
  <2>10. line.result = t[first]
    BY <2>7, LineIs, Zenon
  <2>11. line.eof = (s >= Len(t))
    <3>1. line.eof = (p.last >= Len(t) \/ p.result = "no_data")
      BY LineIs, Zenon
    <3>2. t[first] # "no_data"
      BY <1>9, <2>9, Zenon
    <3> HIDE DEF line, p
    <3> QED
      BY <2>7, <3>1, <3>2
  <2>12. ASSUME s < Len(t) PROVE t[s] = Semicolon /\ line.index = s + 1
    <3> DEFINE N == {s + 2, Len(t) + 1}
    <3>1. Min(N) = s + 2
      BY <1>2, <1>8, <2>12 DEF Min
    <3>2. line.index = IF t[first] \in {"error", "refused"} \/ Min(N) = 1 THEN Min(N) ELSE Min(N) - 1
      BY <2>7, LineIs, Zenon
    <3> HIDE DEF N, line
    <3> QED
      BY <1>2, <1>8, <1>9, <2>9, <2>12, <3>1, <3>2
  <2>13. s \in i..Len(t) + 1
    BY <1>2, <1>8, <2>1, <2>6
  <2> HIDE DEF line
  <2> QED
    BY <2>1, <2>5, <2>6, <2>8, <2>10, <2>11, <2>12, <2>13, Zenon DEF line
<1>12. first > Len(t) \/ first <= Len(t)
  BY <1>2, <1>5
<1> QED
  BY <1>10, <1>11, <1>12, Zenon

-----------------------------------------------------------------------------
(* The invariants.                                                         *)

\* The statements of t before i have been run, each once and in order: rs is what
\* parse_line returned for them.
Walked(t, i, rs) ==
    /\ i \in 1..Len(t) + 1
    /\ i > 1 => t[i - 1] = Semicolon
    /\ rs \in Seq(Accepted) /\ Len(rs) = Place(t, i - 1)
    /\ \A k \in 1..(i - 1) : t[k] \in Kind => Place(t, k) \in 1..Len(rs) /\ rs[Place(t, k)] = t[k]

\* All statements of t have
InOrder(t, rs) ==
    /\ \A k \in DOMAIN t : t[k] \in Kind => Place(t, k) \in DOMAIN rs /\ rs[Place(t, k)] = t[k]
    /\ Count(rs, Accepted) = Count(t, Kind)

\* The messages the handlers send
Sent == {"ErrorResponse", "Warning", "EmptyQueryResponse", "ParseComplete", "BindComplete",
         "RowDescription", "DataRow", "CommandComplete", "NoData"}

Loop == {"query", "execute", "describe"}

\* What is handled, and the texts that were sent before
Types ==
    /\ inbox \in Seq(Message)
    /\ req \in Message \cup {[type |-> "none"]}
    /\ prepared \in [Name -> Text \cup {None}] /\ bound \in [Name -> Portal \cup {None}]
    /\ resp \in Seq(Seq(Sent)) /\ results \in Seq(Result)

\* Where the process is tells which message it handles, and with what.
Handling ==
    /\ pc = "handle" => resp = <<>> /\ results = <<>>
    /\ pc = "query" => req.type = "Query"
    /\ pc = "execute" => req.type = "Execute"
    /\ pc = "describe" => req.type = "Describe"
    /\ pc \in Loop => eof = FALSE /\ text \in Text

\* The loops of handle_query and handle_execute walk through the text.
Walking == pc \in {"query", "execute"} /\ Smooth(text) => Walked(text, index, results)

\* One of the messages is x.
Has(ms, x) == \E k \in DOMAIN ms : ms[k] = x

\* The messages say that a statement, for which parse_line returned r, is not served.
Tells(ms, r) == Has(ms, "ErrorResponse") \/ (Has(ms, "Warning") /\ ~Failed(r))

\* The client is to be told so, wherever the statement is in a message of this type.
Due(r, type) ==
    /\ Failed(r) \/ r = "reject" \/ (r = "begin" /\ type # "Describe")
    /\ Failed(r) \/ type = "Describe" \/ LogLevel = "WARNING"

\* It was, in the answer to each of the statements.
Answered(rs, rp, type) ==
    /\ Len(rp) = Len(rs)
    /\ \A k \in DOMAIN rs : Due(rs[k], type) => Tells(rp[k], rs[k])

\* Until the last statement the handlers tell the client of all.
Reporting == pc \in Loop => Answered(results, resp, req.type)

SessionInv == Types /\ Handling /\ Walking /\ Reporting /\ RunsInOrder /\ FailuresReported

-----------------------------------------------------------------------------
(* Counting.                                                               *)

LEMMA CountNat ==
    ASSUME NEW A, NEW s \in Seq(A), NEW S
    PROVE  /\ IsFiniteSet({k \in DOMAIN s : s[k] \in S})
           /\ Count(s, S) \in Nat
<1>1. Len(s) \in Nat /\ DOMAIN s = 1..Len(s)
  OBVIOUS
<1>2. IsFiniteSet(1..Len(s))
  BY <1>1, FS_Interval
<1> DEFINE P == {k \in DOMAIN s : s[k] \in S}
<1>3. P \in SUBSET (1..Len(s))
  BY <1>1, Zenon
<1> HIDE DEF P
<1>4. IsFiniteSet(P) /\ Cardinality(P) \in Nat
  BY <1>2, <1>3, FS_Subset, FS_CardinalityType, Zenon
<1> QED
  BY <1>4, Zenon DEF P, Count

LEMMA CountAppend ==
    ASSUME NEW A, NEW s \in Seq(A), NEW x \in A, NEW S
    PROVE  Count(Append(s, x), S) = Count(s, S) + (IF x \in S THEN 1 ELSE 0)
<1> DEFINE P == {k \in DOMAIN s : s[k] \in S}
           Q == {k \in DOMAIN Append(s, x) : Append(s, x)[k] \in S}
           n == Len(s) + 1
<1>1. /\ n \in Nat /\ n \notin DOMAIN s /\ DOMAIN Append(s, x) = DOMAIN s \cup {n}
      /\ Append(s, x)[n] = x /\ \A k \in DOMAIN s : Append(s, x)[k] = s[k]
  OBVIOUS
<1>2. IsFiniteSet(P) /\ Cardinality(P) \in Nat
  BY CountNat, Zenon DEF Count
<1>3. n \notin P /\ Q = IF x \in S THEN P \cup {n} ELSE P
  BY <1>1, Zenon
<1> HIDE DEF P, Q, n
<1>4. Cardinality(Q) = Cardinality(P) + (IF x \in S THEN 1 ELSE 0)
  <2>1. Cardinality(P \cup {n}) = Cardinality(P) + 1
    BY <1>2, <1>3, FS_AddElement, Zenon
  <2>2. CASE x \in S
    BY <1>3, <2>1, <2>2, Zenon
  <2>3. CASE x \notin S
    BY <1>2, <1>3, <2>3
  <2> QED
    BY <2>2, <2>3, Zenon
<1> QED
  BY <1>4, Zenon DEF P, Q, Count

\* A sequence of accepted statements counts all of them.
LEMMA CountAll ==
    ASSUME NEW A, NEW s \in Seq(A)
    PROVE  Count(s, A) = Len(s)
<1>1. {k \in DOMAIN s : s[k] \in A} = 1..Len(s)
  OBVIOUS
<1>2. Len(s) \in Nat
  OBVIOUS
<1>3. Cardinality(1..Len(s)) = IF 1 > Len(s) THEN 0 ELSE Len(s) - 1 + 1
  BY <1>2, FS_Interval
<1>4. Cardinality(1..Len(s)) = Len(s)
  BY <1>2, <1>3
<1> QED
  BY <1>1, <1>4, Zenon DEF Count

Begun(t, i) == {j \in 1..i : t[j] \in Kind}

LEMMA PlaceNat ==
    ASSUME NEW t, NEW i \in Int
    PROVE  /\ IsFiniteSet(Begun(t, i)) /\ Place(t, i) = Cardinality(Begun(t, i))
           /\ Place(t, i) \in Nat
<1>1. IsFiniteSet(1..i) /\ Begun(t, i) \in SUBSET (1..i)
  BY FS_Interval DEF Begun
<1>2. IsFiniteSet(Begun(t, i)) /\ Cardinality(Begun(t, i)) \in Nat
  BY <1>1, FS_Subset, FS_CardinalityType, Zenon
<1> QED
  BY <1>2, Zenon DEF Place, Begun

LEMMA PlaceSame ==
    ASSUME NEW t, NEW i \in Nat, NEW j \in Nat, i <= j, \A k \in (i + 1)..j : t[k] \notin Kind
    PROVE  Place(t, j) = Place(t, i)
<1>1. Begun(t, j) = Begun(t, i)
  BY DEF Begun
<1> QED
  BY <1>1, PlaceNat

LEMMA PlaceNext ==
    ASSUME NEW t, NEW i \in Nat, NEW j \in Nat, NEW f \in (i + 1)..j,
           \A k \in (i + 1)..j : t[k] \in Kind <=> k = f
    PROVE  Place(t, j) = Place(t, i) + 1
<1>1. Begun(t, j) = Begun(t, i) \cup {f} /\ f \notin Begun(t, i)
  BY DEF Begun
<1>2. IsFiniteSet(Begun(t, i)) /\ Cardinality(Begun(t, i)) = Place(t, i)
  BY PlaceNat
<1>3. Cardinality(Begun(t, i) \cup {f}) = Cardinality(Begun(t, i)) + 1
  BY <1>1, <1>2, FS_AddElement, Zenon
<1>4. Cardinality(Begun(t, j)) = Place(t, j)
  BY PlaceNat
<1> QED
  BY <1>1, <1>2, <1>3, <1>4, Zenon

-----------------------------------------------------------------------------
(* The walk through a text.                                                *)

\* Appending a result keeps the places of the ones before.
LEMMA Earlier ==
    ASSUME NEW A, NEW rs \in Seq(A), NEW r
    PROVE  \A n \in 1..Len(rs) : n \in 1..Len(Append(rs, r)) /\ Append(rs, r)[n] = rs[n]
  OBVIOUS

LEMMA WalkOn ==
    ASSUME NEW t, IsText(t), Smooth(t), NEW i, NEW rs, Walked(t, i, rs)
    PROVE  LET line == NextLine(t, i)
           IN  /\ line.eof \in BOOLEAN
               /\ ~line.eof => Walked(t, line.index, Append(rs, line.result))
               /\ line.eof => InOrder(t, Append(rs, line.result))
<1>1. PICK line, r, n, e : /\ line = NextLine(t, i) /\ r = line.result /\ n = line.index /\ e = line.eof
  BY Zenon
<1>2. t \in Seq(Element) /\ rs \in Seq(Accepted)
  BY Zenon DEF IsText, Walked
<1>3. /\ Len(t) \in Nat /\ DOMAIN t = 1..Len(t) /\ Len(rs) \in Nat
      /\ i \in 1..Len(t) + 1 /\ i \in Nat /\ i - 1 \in Nat
      /\ Len(rs) = Place(t, i - 1)
      /\ \A k \in 1..(i - 1) : t[k] \in Kind => Place(t, k) \in 1..Len(rs) /\ rs[Place(t, k)] = t[k]
  BY <1>2 DEF Walked
<1>4. /\ \A k \in 1..(i - 1) : t[k] \in Kind =>
             Place(t, k) \in 1..Len(Append(rs, r)) /\ Append(rs, r)[Place(t, k)] = t[k]
  BY <1>2, <1>3, Earlier, Zenon
<1>5. Len(Append(rs, r)) = Len(rs) + 1 /\ DOMAIN Append(rs, r) = 1..Len(rs) + 1 /\ Append(rs, r)[Len(rs) + 1] = r
  BY <1>2
<1>6. Count(rs, Accepted) = Len(rs)
  BY <1>2, CountAll, Zenon
<1>7. Count(t, Kind) = Place(t, Len(t))
  BY <1>3, Zenon DEF Count, Place
<1>8. CASE /\ r = "no_data" /\ e = TRUE
           /\ \A k \in i..Len(t) : t[k] \notin Kind
  <2>1. Place(t, Len(t)) = Place(t, i - 1)
    <3>1. i - 1 <= Len(t) /\ \A k \in ((i - 1) + 1)..Len(t) : t[k] \notin Kind
      BY <1>3, <1>8
    <3> QED
      BY <1>3, <3>1, PlaceSame, Zenon
  <2>2. Count(Append(rs, r), Accepted) = Count(rs, Accepted)
    <3>1. rs \in Seq(Accepted \cup {"no_data"}) /\ r \in Accepted \cup {"no_data"} /\ r \notin Accepted
      BY <1>2, <1>8 DEF Accepted
    <3>2. Count(Append(rs, r), Accepted) = Count(rs, Accepted) + (IF r \in Accepted THEN 1 ELSE 0)
      BY <3>1, CountAppend, ZenonT(60)
    <3> QED
      BY <1>3, <1>6, <3>1, <3>2
  <2>3. \A k \in DOMAIN t : t[k] \in Kind => k \in 1..(i - 1)
    BY <1>3, <1>8
  <2>4. InOrder(t, Append(rs, r))
    BY <1>3, <1>4, <1>5, <1>6, <1>7, <2>1, <2>2, <2>3, Zenon DEF InOrder
  <2> QED
    BY <1>1, <1>8, <2>4, Zenon
<1>9. ASSUME NEW f \in i..Len(t), NEW s \in i..Len(t) + 1,
             t[f] \in Accepted, r = t[f],
             f < s, \A k \in i..Len(t) : k <= s => (t[k] \in Kind <=> k = f),
             e = (s >= Len(t)),
             s < Len(t) => t[s] = Semicolon /\ n = s + 1
      PROVE  /\ e \in BOOLEAN
             /\ ~e => Walked(t, n, Append(rs, r))
             /\ e => InOrder(t, Append(rs, r))
  <2>1. f \in Nat /\ s \in Nat /\ f \in i..f /\ f <= Len(t)
    BY <1>3
  <2>2. Place(t, f) = Len(rs) + 1
    <3>1. PICK p \in Nat : p = i - 1
      BY <1>3, Zenon
    <3>2. f \in (p + 1)..f /\ \A k \in (p + 1)..f : t[k] \in Kind <=> k = f
      BY <1>3, <1>9, <2>1, <3>1
    <3>3. Place(t, f) = Place(t, p) + 1
      BY <2>1, <3>2, PlaceNext, Zenon
    <3> QED
      BY <1>3, <3>1, <3>3, Zenon
  <2>3. Append(rs, r) \in Seq(Accepted)
    BY <1>2, <1>9
  <2>4. ASSUME NEW m \in Nat, f <= m, m <= s, m <= Len(t)
        PROVE  /\ Place(t, m) = Len(rs) + 1
               /\ \A k \in 1..m : t[k] \in Kind =>
                    Place(t, k) \in 1..Len(Append(rs, r)) /\ Append(rs, r)[Place(t, k)] = t[k]
    <3> PICK p \in Nat : p = i - 1
      BY <1>3, Zenon
    <3>1. f \in (p + 1)..m /\ \A k \in (p + 1)..m : t[k] \in Kind <=> k = f
      BY <1>3, <1>9, <2>1, <2>4
    <3>4. Place(t, m) = Place(t, p) + 1
      BY <2>4, <3>1, PlaceNext, Zenon
    <3>2. Place(t, m) = Len(rs) + 1
      BY <1>3, <3>4, Zenon
    <3>3. ASSUME NEW k \in 1..m, t[k] \in Kind
          PROVE  Place(t, k) \in 1..Len(Append(rs, r)) /\ Append(rs, r)[Place(t, k)] = t[k]
      <4>1. CASE k \in 1..(i - 1)
        BY <1>4, <3>3, <4>1, Zenon
      <4>2. CASE k \notin 1..(i - 1)
        <5>2. k \in (p + 1)..m
          BY <1>3, <2>4, <4>2
        <5>1. k = f
          BY <3>1, <3>3, <5>2, Zenon
        <5> QED
          BY <1>3, <1>5, <1>9, <2>2, <5>1
      <4> QED
        BY <4>1, <4>2, Zenon
    <3> QED
      BY <3>2, <3>3, Zenon
  <2>5. CASE e
    <3>1. s >= Len(t) /\ Len(t) <= s
      BY <1>3, <1>9, <2>1, <2>5, Zenon
    <3>2. /\ Place(t, Len(t)) = Len(rs) + 1
          /\ \A k \in 1..Len(t) : t[k] \in Kind =>
                Place(t, k) \in 1..Len(Append(rs, r)) /\ Append(rs, r)[Place(t, k)] = t[k]
      BY <1>3, <2>1, <2>4, <3>1
    <3>3. Count(Append(rs, r), Accepted) = Len(Append(rs, r))
      BY <2>3, CountAll, Zenon
    <3>4. InOrder(t, Append(rs, r))
      BY <1>3, <1>5, <1>7, <3>2, <3>3, Zenon DEF InOrder
    <3> QED
      BY <1>9, <2>5, <3>4, Zenon
  <2>6. CASE ~e
    <3>5. ~(s >= Len(t))
      BY <1>9, <2>6, Zenon
    <3>1. s < Len(t) /\ n = s + 1 /\ t[s] = Semicolon
      BY <1>3, <1>9, <2>1, <3>5
    <3>2. n - 1 = s /\ n \in 1..Len(t) + 1
      BY <1>3, <2>1, <3>1
    <3>3. /\ Place(t, s) = Len(rs) + 1
          /\ \A k \in 1..s : t[k] \in Kind =>
                Place(t, k) \in 1..Len(Append(rs, r)) /\ Append(rs, r)[Place(t, k)] = t[k]
      BY <1>3, <1>9, <2>1, <2>4, <3>1
    <3>4. Walked(t, n, Append(rs, r))
      BY <1>5, <2>3, <3>1, <3>2, <3>3, Zenon DEF Walked
    <3> QED
      BY <1>9, <2>6, <3>4
  <2> QED
    BY <1>9, <2>5, <2>6, Zenon
<1>10. i > 1 => t[i - 1] = Semicolon
  BY Zenon DEF Walked
<1>11. \/ /\ r = "no_data" /\ e = TRUE
          /\ \A k \in i..Len(t) : t[k] \notin Kind
       \/ \E f \in i..Len(t), s \in i..Len(t) + 1 :
              /\ t[f] \in Accepted /\ r = t[f]
              /\ f < s /\ \A k \in i..Len(t) : k <= s => (t[k] \in Kind <=> k = f)
              /\ e = (s >= Len(t))
              /\ s < Len(t) => t[s] = Semicolon /\ n = s + 1
  <2>1. \/ /\ NextLine(t, i).result = "no_data" /\ NextLine(t, i).eof = TRUE
           /\ \A k \in i..Len(t) : t[k] \notin Kind
        \/ \E f \in i..Len(t), s \in i..Len(t) + 1 :
              /\ t[f] \in Accepted /\ NextLine(t, i).result = t[f]
              /\ f < s /\ \A k \in i..Len(t) : k <= s => (t[k] \in Kind <=> k = f)
              /\ NextLine(t, i).eof = (s >= Len(t))
              /\ s < Len(t) => t[s] = Semicolon /\ NextLine(t, i).index = s + 1
    BY <1>3, <1>10, NextStatement, Zenon
  <2>2. r = NextLine(t, i).result /\ n = NextLine(t, i).index /\ e = NextLine(t, i).eof
    BY <1>1, Zenon
  <2> QED
    BY <2>1, <2>2, Zenon
<1>12. /\ e \in BOOLEAN
       /\ ~e => Walked(t, n, Append(rs, r))
       /\ e => InOrder(t, Append(rs, r))
  BY <1>1, <1>8, <1>9, <1>11, Zenon
<1> QED
  BY <1>1, <1>12, Zenon

-----------------------------------------------------------------------------
(* What is sent.                                                           *)

LEMMA LineTypes ==
    ASSUME NEW t, NEW i
    PROVE  NextLine(t, i).result \in Result /\ NextLine(t, i).eof \in BOOLEAN
<1>1. Yyparse(t, i).result \in Result
  <2>1. PICK first, semicolon, head :
             /\ first = NextPosition(t, i, Element \ {Blank})
             /\ semicolon = NextSemicolon(t, first)
             /\ head = IF first > Len(t) THEN Semicolon ELSE t[first]
    BY Zenon
  <2>2. Yyparse(t, i) =
          CASE head = Semicolon -> [result |-> "no_data", last |-> first]
            [] head \in Accepted -> [result |-> head, last |-> semicolon]
            [] head = "unqualified" ->
                   [result |-> "error", last |-> NextSemicolon(t, semicolon + 1)]
            [] head = "delete" -> [result |-> "refused", last |-> semicolon]
            [] head = "insert" -> [result |-> "refused", last |-> first + 1]
            [] head = "update" -> [result |-> "silent", last |-> semicolon]
            [] OTHER -> [result |-> "error", last |-> semicolon]
    BY <2>1, Zenon DEF Yyparse
  <2>3. "no_data" \in Result /\ "error" \in Result /\ "refused" \in Result /\ "silent" \in Result
        /\ \A a \in Accepted : a \in Result
    BY Zenon DEF Result
  <2>4. PICK r, l : Yyparse(t, i) = [result |-> r, last |-> l] /\ r \in Result
    BY <2>2, <2>3, Zenon
  <2> QED
    BY <2>4
<1>2. PICK r, n, e : /\ NextLine(t, i) = [result |-> r, index |-> n, eof |-> e]
                     /\ r = Yyparse(t, i).result /\ e \in BOOLEAN
  BY Zenon DEF NextLine, ParseLine, GetInput
<1>3. NextLine(t, i).result = r /\ NextLine(t, i).eof = e
  BY <1>2
<1> QED
  BY <1>1, <1>2, <1>3, Zenon

LEMMA Singleton ==
    ASSUME NEW m \in Sent
    PROVE  <<m>> \in Seq(Sent)
  OBVIOUS

LEMMA LoggedIs ==
    ASSUME NEW level
    PROVE  Logged(level) \in {<<>>, <<"Warning">>, <<"ErrorResponse">>}
  BY Zenon DEF Logged

LEMMA LoggedError ==
    ASSUME LogLevel # "FATAL"
    PROVE  Logged("ERROR") = <<"ErrorResponse">>
  BY Zenon DEF Logged

LEMMA LoggedWarning ==
    ASSUME LogLevel = "WARNING"
    PROVE  Logged("WARNING") = <<"Warning">>
  BY Zenon DEF Logged

LEMMA LoggedTypes ==
    ASSUME NEW level
    PROVE  Logged(level) \in Seq(Sent)
<1>1. <<>> \in Seq(Sent) /\ <<"Warning">> \in Seq(Sent) /\ <<"ErrorResponse">> \in Seq(Sent)
  BY Singleton DEF Sent
<1> QED
  BY <1>1, LoggedIs, Zenon

LEMMA RunQueryTypes ==
    ASSUME NEW r \in Result, NEW limit \in Int
    PROVE  RunQuery(r, limit) \in Seq(Sent)
<1>1. RowsSent(limit) \in Nat
  BY SessionAssumption DEF RowsSent
<1>2. [k \in 1..RowsSent(limit) |-> "DataRow"] \in Seq(Sent)
  BY <1>1 DEF Sent
<1>3. <<"RowDescription">> \o [k \in 1..RowsSent(limit) |-> "DataRow"] \o <<"CommandComplete">> \in Seq(Sent)
  <2> DEFINE rows == [k \in 1..RowsSent(limit) |-> "DataRow"]
  <2>1. rows \in Seq(Sent)
    BY <1>2, Zenon
  <2> HIDE DEF rows
  <2>2. <<"RowDescription">> \in Seq(Sent) /\ <<"CommandComplete">> \in Seq(Sent)
    BY Singleton, Zenon DEF Sent
  <2>3. <<"RowDescription">> \o rows \o <<"CommandComplete">> \in Seq(Sent)
    BY <2>1, <2>2
  <2> QED
    BY <2>3, Zenon DEF rows
<1>4. Logged("WARNING") \o Logged("ERROR") \in Seq(Sent)
  BY LoggedTypes
<1>5. /\ <<"RowDescription">> \in Seq(Sent) /\ <<"CommandComplete">> \in Seq(Sent)
      /\ <<"RowDescription", "DataRow", "CommandComplete">> \in Seq(Sent) /\ <<>> \in Seq(Sent)
  BY DEF Sent
<1> QED
  BY <1>3, <1>4, <1>5, LoggedTypes, Zenon DEF RunQuery

LEMMA ErrorLast ==
    ASSUME NEW m \in Seq(Sent)
    PROVE  m \o <<"ErrorResponse">> \in Seq(Sent) /\ Has(m \o <<"ErrorResponse">>, "ErrorResponse")
<1>1. /\ m \o <<"ErrorResponse">> \in Seq(Sent) /\ Len(m) + 1 \in DOMAIN (m \o <<"ErrorResponse">>)
      /\ (m \o <<"ErrorResponse">>)[Len(m) + 1] = "ErrorResponse"
  BY DEF Sent
<1> QED
  BY <1>1, Zenon DEF Has

LEMMA Stays ==
    ASSUME NEW m \in Seq(Sent), NEW n \in Seq(Sent), NEW x, Has(m, x)
    PROVE  Has(m \o n, x)
<1>1. PICK k \in DOMAIN m : m[k] = x
  BY Zenon DEF Has
<1>2. k \in DOMAIN (m \o n) /\ (m \o n)[k] = m[k]
  BY <1>1
<1> QED
  BY <1>1, <1>2, Zenon DEF Has

LEMMA Alone ==
    ASSUME NEW x
    PROVE  Has(<<x>>, x)
<1>1. 1 \in DOMAIN <<x>> /\ <<x>>[1] = x
  OBVIOUS
<1> QED
  BY <1>1, Zenon DEF Has

\* run_query reports an error, unless octo_log is not called or not heeded.
LEMMA RunQueryReports ==
    ASSUME NEW r \in {"error", "refused"}, NEW limit, LogLevel # "FATAL"
    PROVE  Has(RunQuery(r, limit), "ErrorResponse")
<1>1. CASE r = "error"
  <2>1. RunQuery(r, limit) = <<"ErrorResponse">>
    BY <1>1, LoggedError, Zenon DEF RunQuery
  <2> QED
    BY <2>1, Alone, Zenon
<1>2. CASE r = "refused"
  <2>1. RunQuery(r, limit) = Logged("WARNING") \o <<"ErrorResponse">>
    BY <1>2, LoggedError, Zenon DEF RunQuery
  <2> QED
    BY <2>1, LoggedTypes, ErrorLast, Zenon
<1> QED
  BY <1>1, <1>2, Zenon

LEMMA RunQueryWarns ==
    ASSUME NEW r \in {"begin", "reject"}, NEW limit, LogLevel = "WARNING"
    PROVE  Has(RunQuery(r, limit), "Warning")
<1>1. RunQuery(r, limit) = <<"Warning">>
  BY LoggedWarning, Zenon DEF RunQuery
<1> QED
  BY <1>1, Alone, Zenon

\* One more statement, and the answer to it.
LEMMA OneMore ==
    ASSUME NEW rs \in Seq(Result), NEW rp \in Seq(Seq(Sent)), Len(rp) = Len(rs),
           NEW r \in Result, NEW ms \in Seq(Sent)
    PROVE  /\ Append(rs, r) \in Seq(Result) /\ Append(rp, ms) \in Seq(Seq(Sent))
           /\ Len(Append(rp, ms)) = Len(Append(rs, r))
           /\ DOMAIN Append(rp, ms) = DOMAIN Append(rs, r)
           /\ \A k \in DOMAIN Append(rs, r) :
                 IF k = Len(Append(rs, r))
                 THEN Append(rs, r)[k] = r /\ Append(rp, ms)[k] = ms
                 ELSE k \in DOMAIN rs /\ Append(rs, r)[k] = rs[k] /\ Append(rp, ms)[k] = rp[k]
  OBVIOUS

-----------------------------------------------------------------------------
(* The invariant holds in every state.                                     *)

LEMMA MessageFields ==
    ASSUME NEW m \in Message
    PROVE  /\ m.type = "Query" => m.text \in Text
           /\ m.type = "Parse" => m.name \in Name /\ m.text \in Text
           /\ m.type = "Bind" => m.portal \in Name /\ m.source \in Name
           /\ m.type = "Describe" => m.name \in Name
           /\ m.type = "Execute" => m.portal \in Name /\ m.limit \in Int
           /\ m.type = "Describe" => m.item \in {"S", "P"}
  BY SessionAssumption, Zenon DEF Message

LEMMA FromTheStart ==
    ASSUME NEW t, IsText(t)
    PROVE  Walked(t, 1, <<>>)
<1>1. Len(t) \in Nat
  BY DEF IsText
<1>2. {j \in 1..0 : t[j] \in Kind} = {}
  OBVIOUS
<1>3. Place(t, 0) = 0
  BY <1>2, FS_EmptySet, Zenon DEF Place
<1>4. <<>> \in Seq(Accepted) /\ Len(<<>>) = 0 /\ 1 - 1 = 0 /\ ~(1 > 1) /\ 1 \in 1..Len(t) + 1
  BY <1>1
<1>5. \A k \in 1..0 : FALSE
  OBVIOUS
<1> QED
  BY <1>3, <1>4, <1>5, Zenon DEF Walked

LEMMA SessionInit == Init => SessionInv
<1> SUFFICES ASSUME Init PROVE SessionInv
  BY Zenon
<1>1. pc = "select" /\ results = <<>> /\ req.type = "none"
  BY Zenon DEF Init
<1>2. Types
  BY DEF Init, Types
<1>3. Handling /\ Walking /\ Reporting
  BY <1>1, Zenon DEF Handling, Walking, Reporting, Loop
<1>4. RunsInOrder /\ FailuresReported
  BY <1>1, Zenon DEF RunsInOrder, TextDone, FailuresReported
<1> QED
  BY <1>2, <1>3, <1>4, Zenon DEF SessionInv

\* The client's steps, and those of rocto_main_loop between messages.
LEMMA QuietStep ==
    ASSUME SessionInv, UNCHANGED <<req, resp, store, run>>, inbox' \in Seq(Message),
           pc' = pc \/ pc' \in {"ready", "read", "ended"}
    PROVE  SessionInv'
<1>1. Types'
  BY Zenon DEF SessionInv, Types, store, run
<1>2. CASE pc' = pc
  <2>1. Handling' /\ Walking' /\ Reporting'
    BY <1>2, Zenon DEF SessionInv, Handling, Walking, Reporting, run, input
  <2>2. RunsInOrder' /\ FailuresReported'
    BY <1>2, Zenon DEF SessionInv, RunsInOrder, TextDone, FailuresReported, Unserved, Overlooked, Told, run, input
  <2> QED
    BY <1>1, <2>1, <2>2, Zenon DEF SessionInv
<1>3. CASE pc' \in {"ready", "read", "ended"}
  <2>1. Handling' /\ Walking' /\ Reporting'
    BY <1>3, Zenon DEF Handling, Walking, Reporting, Loop
  <2>2. RunsInOrder' /\ FailuresReported'
    BY <1>3, Zenon DEF RunsInOrder, TextDone, FailuresReported
  <2> QED
    BY <1>1, <2>1, <2>2, Zenon DEF SessionInv
<1> QED
  BY <1>2, <1>3, Zenon

LEMMA ReadStep == SessionInv /\ ReadMessage => SessionInv'
<1> SUFFICES ASSUME SessionInv, ReadMessage PROVE SessionInv'
  BY Zenon
<1>1. pc' = "handle" /\ resp' = <<>> /\ results' = <<>>
  BY Zenon DEF ReadMessage
<1>2. Types'
  <2>1. req' \in Message /\ inbox' \in Seq(Message)
    BY DEF SessionInv, Types, ReadMessage
  <2>2. resp' \in Seq(Seq(Sent)) /\ results' \in Seq(Result)
    BY <1>1
  <2> QED
    BY <2>1, <2>2, Zenon DEF SessionInv, Types, ReadMessage, store
<1>3. Handling' /\ Walking' /\ Reporting'
  BY <1>1, Zenon DEF Handling, Walking, Reporting, Loop
<1>4. RunsInOrder' /\ FailuresReported'
  BY <1>1, Zenon DEF RunsInOrder, TextDone, FailuresReported
<1> QED
  BY <1>2, <1>3, <1>4, Zenon DEF SessionInv

\* read_bytes refuses a message.
LEMMA RefusedStep ==
    ASSUME SessionInv, ReadRefused, pc' = "ended", prepared' = prepared, bound' = bound
    PROVE  SessionInv'
<1>1. Types'
  <2>1. req' \in Message /\ inbox' \in Seq(Message)
    BY DEF SessionInv, Types, ReadRefused
  <2>2. PICK ms \in Seq(Sent) : resp' = <<ms>>
    BY LoggedTypes, Zenon DEF ReadRefused
  <2>3. resp' \in Seq(Seq(Sent))
    BY <2>2
  <2>4. results' \in Seq(Result)
    BY DEF ReadRefused
  <2> QED
    BY <2>1, <2>3, <2>4, Zenon DEF SessionInv, Types
<1>2. Handling' /\ Walking' /\ Reporting'
  BY Zenon DEF Handling, Walking, Reporting, Loop
<1>3. RunsInOrder' /\ FailuresReported'
  BY Zenon DEF RunsInOrder, TextDone, FailuresReported
<1> QED
  BY <1>1, <1>2, <1>3, Zenon DEF SessionInv

\* A handler that answers without running a statement
LEMMA AnswerStep ==
    ASSUME SessionInv, pc = "handle", NEW ms \in Seq(Sent), Answer(ms),
           prepared' \in [Name -> Text \cup {None}], bound' \in [Name -> Portal \cup {None}]
    PROVE  SessionInv'
<1>1. pc' = "select" /\ results' = <<>> /\ resp' = Append(<<>>, ms) /\ req' = req
  BY Zenon DEF Answer, SessionInv, Handling, run
<1>2. Types'
  <2>1. resp' \in Seq(Seq(Sent)) /\ results' \in Seq(Result)
    BY <1>1
  <2> QED
    BY <2>1, Zenon DEF SessionInv, Types, Answer, connection
<1>3. Handling' /\ Walking' /\ Reporting'
  BY <1>1, Zenon DEF Handling, Walking, Reporting, Loop
<1>4. RunsInOrder'
  BY <1>1, Zenon DEF RunsInOrder, TextDone
<1>5. FailuresReported'
  <2>1. DOMAIN results' = {}
    BY <1>1
  <2> QED
    BY <2>1, Zenon DEF FailuresReported
<1> QED
  BY <1>2, <1>3, <1>4, <1>5, Zenon DEF SessionInv

LEMMA LoadStep ==
    ASSUME SessionInv, pc = "handle", NEW t \in Text, NEW loop \in Loop, Load(t, loop),
           req.type = (IF loop = "query" THEN "Query" ELSE IF loop = "execute" THEN "Execute" ELSE "Describe")
    PROVE  SessionInv'
<1>1. /\ pc' = loop /\ results' = <<>> /\ resp' = <<>> /\ req' = req
      /\ text' = t /\ index' = 1 /\ eof' = FALSE
  BY Zenon DEF Load, SessionInv, Handling
<1>2. Types'
  BY Zenon DEF SessionInv, Types, Load, connection, store
<1>3. Handling'
  BY <1>1, Zenon DEF Handling, Loop
<1>4. Walking'
  <2>1. Walked(t, 1, <<>>)
    BY SessionAssumption, FromTheStart, Zenon
  <2> QED
    BY <1>1, <2>1, Zenon DEF Walking
<1>5. Reporting'
  <2>1. Len(resp') = Len(results') /\ DOMAIN results' = {}
    BY <1>1
  <2> QED
    BY <2>1, Zenon DEF Reporting, Answered
<1>6. RunsInOrder' /\ FailuresReported'
  BY <1>1, Zenon DEF RunsInOrder, TextDone, FailuresReported, Loop
<1> QED
  BY <1>2, <1>3, <1>4, <1>5, <1>6, Zenon DEF SessionInv

LEMMA DieStep ==
    ASSUME SessionInv, Die
    PROVE  SessionInv'
<1>1. Types'
  <2>1. resp' = Append(resp, <<"ErrorResponse">>) /\ resp \in Seq(Seq(Sent)) /\ <<"ErrorResponse">> \in Seq(Sent)
    BY Singleton, Zenon DEF SessionInv, Types, Die, Sent
  <2>2. resp' \in Seq(Seq(Sent))
    BY <2>1
  <2> QED
    BY <2>2, Zenon DEF SessionInv, Types, Die, connection, store, run
<1>2. Handling' /\ Walking' /\ Reporting'
  BY Zenon DEF Die, Handling, Walking, Reporting, Loop
<1>3. RunsInOrder' /\ FailuresReported'
  BY Zenon DEF Die, RunsInOrder, TextDone, FailuresReported
<1> QED
  BY <1>1, <1>2, <1>3, Zenon DEF SessionInv

\* The last statement of an Execute, which octo_log may leave out.
Last(r, e) == e /\ (r = "silent" \/ (Failed(r) /\ LogLevel = "FATAL"))

\* One statement of a text: with the answer ms to it the client is still told of all,
\* but for the last statement of an Execute.
LEMMA StatementStep ==
    ASSUME SessionInv, pc \in Loop, NEW ms \in Seq(Sent), Took(NextLine(text, index), ms),
           LET line == NextLine(text, index)
           IN  Due(line.result, req.type) =>
                   \/ Tells(ms, line.result)
                   \/ pc = "execute" /\ Last(line.result, line.eof)
    PROVE  SessionInv'
<1>1. PICK r, n, e : /\ r = NextLine(text, index).result /\ n = NextLine(text, index).index
                     /\ e = NextLine(text, index).eof
  BY Zenon
<1>2. r \in Result /\ e \in BOOLEAN
  BY <1>1, LineTypes, Zenon
<1>3. /\ index' = n /\ eof' = e /\ results' = Append(results, r) /\ resp' = Append(resp, ms)
      /\ pc' = IF e THEN "select" ELSE pc
      /\ req' = req /\ text' = text
  BY <1>1, Zenon DEF Took
<1>4. Due(r, req.type) => Tells(ms, r) \/ (pc = "execute" /\ Last(r, e))
  BY <1>1, Zenon
<1>5. /\ resp \in Seq(Seq(Sent)) /\ results \in Seq(Result)
      /\ Len(resp) = Len(results)
      /\ \A k \in DOMAIN results : Due(results[k], req.type) => Tells(resp[k], results[k])
      /\ text \in Text /\ IsText(text) /\ eof = FALSE
  BY SessionAssumption, Zenon DEF SessionInv, Types, Reporting, Answered, Handling
<1>6. Types'
  <2>1. resp' \in Seq(Seq(Sent)) /\ results' \in Seq(Result)
    BY <1>2, <1>3, <1>5, OneMore, Zenon
  <2> QED
    BY <2>1, Zenon DEF SessionInv, Types, Took, connection, store
<1>7. Handling'
  BY <1>2, <1>3, <1>5, Zenon DEF SessionInv, Handling, Loop
<1>8. ASSUME pc \in {"query", "execute"}, Smooth(text)
      PROVE  /\ ~e => Walked(text, n, Append(results, r))
             /\ e => InOrder(text, Append(results, r))
  <2>1. Walked(text, index, results)
    BY <1>8, Zenon DEF SessionInv, Walking
  <2>2. /\ ~NextLine(text, index).eof => Walked(text, NextLine(text, index).index, Append(results, NextLine(text, index).result))
        /\ NextLine(text, index).eof => InOrder(text, Append(results, NextLine(text, index).result))
    BY <1>5, <1>8, <2>1, WalkOn, Zenon
  <2> QED
    BY <1>1, <2>2, Zenon
<1>9. Walking'
  <2> SUFFICES ASSUME pc' \in {"query", "execute"}, Smooth(text')
               PROVE  Walked(text', index', results')
    BY Zenon DEF Walking, Smooth, NoEmptyStatement, Walked, Place
  <2>1. ~e /\ pc \in {"query", "execute"} /\ Smooth(text)
    BY <1>3, Zenon
  <2> QED
    BY <1>3, <1>8, <2>1, Zenon
<1>10. RunsInOrder'
  <2> SUFFICES ASSUME TextDone', Smooth(text') PROVE InOrder(text', results')
    BY Zenon DEF RunsInOrder, Smooth, InOrder, NoEmptyStatement, Place, Count
  <2>1. e /\ Smooth(text) /\ req.type \in {"Query", "Execute"}
    BY <1>3, Zenon DEF TextDone, Loop
  <2>2. pc \in {"query", "execute"}
    BY <2>1, Zenon DEF SessionInv, Handling, Loop
  <2> QED
    BY <1>3, <1>8, <2>1, <2>2, Zenon
<1>11. /\ Len(resp') = Len(results') /\ DOMAIN resp' = DOMAIN results'
       /\ \A k \in DOMAIN results' :
             IF k = Len(results')
             THEN results'[k] = r /\ resp'[k] = ms
             ELSE k \in DOMAIN results /\ results'[k] = results[k] /\ resp'[k] = resp[k]
  <2>1. PICK rs, rp : rs = Append(results, r) /\ rp = Append(resp, ms)
    BY Zenon
  <2>2. /\ Len(rp) = Len(rs) /\ DOMAIN rp = DOMAIN rs
        /\ \A k \in DOMAIN rs :
              IF k = Len(rs)
              THEN rs[k] = r /\ rp[k] = ms
              ELSE k \in DOMAIN results /\ rs[k] = results[k] /\ rp[k] = resp[k]
    BY <1>2, <1>5, <2>1, OneMore
  <2>3. results' = rs /\ resp' = rp
    BY <1>3, <2>1, Zenon
  <2> QED
    BY <2>2, <2>3, Zenon
<1>12. Reporting'
  <2> SUFFICES ASSUME pc' \in Loop PROVE Answered(results', resp', req.type)
    BY <1>3, Zenon DEF Reporting, Answered, Due, Tells, Has, Failed
  <2>1. ~e
    BY <1>3, Zenon DEF Loop
  <2>2. Due(r, req.type) => Tells(ms, r)
    BY <1>4, <2>1, Zenon DEF Last
  <2> QED
    BY <1>5, <1>11, <2>2, Zenon DEF Answered
<1>13. FailuresReported'
  <2> SUFFICES ASSUME NEW k \in DOMAIN results', Unserved(results[k])', ~Overlooked(k)'
               PROVE  k \in DOMAIN resp' /\ Told(k)'
    BY Zenon DEF FailuresReported
  <2>1. Due(results'[k], req.type)
    BY <1>3, Zenon DEF Due, Unserved, Overlooked, Failed
  <2>2. Tells(resp'[k], results'[k])
    <3>1. CASE k = Len(results')
      <4>1. results'[k] = r /\ resp'[k] = ms
        BY <1>11, <3>1, Zenon
      <4>2. ~(pc = "execute" /\ Last(r, e))
        <5> SUFFICES ASSUME pc = "execute", Last(r, e) PROVE FALSE
          BY Zenon
        <5>1. req'.type = "Execute"
          BY <1>3, Zenon DEF SessionInv, Handling
        <5> QED
          BY <3>1, <4>1, <5>1, Zenon DEF Last, Overlooked, Failed
      <4> QED
        BY <1>4, <2>1, <4>1, <4>2, Zenon
    <3>2. CASE k # Len(results')
      <4>1. k \in DOMAIN results /\ results'[k] = results[k] /\ resp'[k] = resp[k]
        BY <1>11, <3>2, Zenon
      <4> QED
        BY <1>5, <2>1, <4>1, Zenon
    <3> QED
      BY <3>1, <3>2, Zenon
  <2> QED
    BY <1>11, <2>2, Zenon DEF Tells, Has, Told, Failed
<1> QED
  BY <1>6, <1>7, <1>9, <1>10, <1>12, <1>13, Zenon DEF SessionInv

\* What QueryStatement, ExecuteStatement and DescribeStatement send.
LEMMA QueryMessages ==
    ASSUME NEW r \in Result
    PROVE  LET ms == RunQuery(r, 0) \o (IF Failed(r) THEN <<"ErrorResponse">> ELSE <<>>)
           IN  ms \in Seq(Sent) /\ (Due(r, "Query") => Tells(ms, r))
<1>1. PICK q : q = RunQuery(r, 0) /\ q \in Seq(Sent)
  BY RunQueryTypes
<1>2. CASE Failed(r)
  BY <1>1, <1>2, ErrorLast, Zenon DEF Tells
<1>3. CASE ~Failed(r)
  <2>1. q \o <<>> = q
    BY <1>1
  <2>2. Due(r, "Query") => r \in {"begin", "reject"} /\ LogLevel = "WARNING"
    BY <1>3, Zenon DEF Due
  <2>3. Due(r, "Query") => Has(q, "Warning")
    BY <1>1, <2>2, RunQueryWarns, Zenon
  <2> QED
    BY <1>1, <1>3, <2>1, <2>3, Zenon DEF Tells
<1> QED
  BY <1>2, <1>3, Zenon

LEMMA ExecuteMessages ==
    ASSUME NEW r \in Result, NEW e \in BOOLEAN, NEW limit \in Int
    PROVE  LET ms == RunQuery(r, limit)
                     \o (IF Failed(r) /\ ~e THEN <<"ErrorResponse">> ELSE <<>>)
                     \o (IF DataSent(r) THEN <<>> ELSE <<"EmptyQueryResponse">>)
           IN  ms \in Seq(Sent) /\ (Due(r, "Execute") => Tells(ms, r) \/ Last(r, e))
<1>1. PICK q : q = RunQuery(r, limit) /\ q \in Seq(Sent)
  BY RunQueryTypes, Zenon
<1>2. PICK d : d = (IF DataSent(r) THEN <<>> ELSE <<"EmptyQueryResponse">>) /\ d \in Seq(Sent)
  <2>1. <<>> \in Seq(Sent) /\ <<"EmptyQueryResponse">> \in Seq(Sent)
    BY Singleton DEF Sent
  <2> QED
    BY <2>1, Zenon
<1>3. PICK f : f = (IF Failed(r) /\ ~e THEN <<"ErrorResponse">> ELSE <<>>) /\ f \in Seq(Sent)
  <2>1. <<>> \in Seq(Sent) /\ <<"ErrorResponse">> \in Seq(Sent)
    BY Singleton DEF Sent
  <2> QED
    BY <2>1, Zenon
<1>4. q \o f \in Seq(Sent)
  BY <1>1, <1>3
<1>5. (q \o f) \o d \in Seq(Sent)
  BY <1>2, <1>4
<1>6. ASSUME NEW x, Has(q, x) \/ Has(q \o f, x) PROVE Has((q \o f) \o d, x)
  BY <1>1, <1>2, <1>3, <1>4, <1>6, Stays, Zenon
<1>7. ASSUME Due(r, "Execute"), ~Last(r, e) PROVE Tells((q \o f) \o d, r)
  <2>1. CASE Failed(r) /\ ~e
    <3>1. f = <<"ErrorResponse">>
      BY <1>3, <2>1, Zenon
    <3>2. Has(q \o f, "ErrorResponse")
      BY <1>1, <3>1, ErrorLast, Zenon
    <3> QED
      BY <1>6, <3>2, Zenon DEF Tells
  <2>2. CASE Failed(r) /\ e
    <3>1. r \in {"error", "refused"} /\ LogLevel # "FATAL"
      BY <1>7, <2>2, Zenon DEF Last, Failed
    <3>2. Has(q, "ErrorResponse")
      BY <1>1, <3>1, RunQueryReports, Zenon
    <3> QED
      BY <1>6, <3>2, Zenon DEF Tells
  <2>3. CASE ~Failed(r)
    <3>1. r \in {"begin", "reject"} /\ LogLevel = "WARNING"
      BY <1>7, <2>3, Zenon DEF Due
    <3>2. Has(q, "Warning")
      BY <1>1, <3>1, RunQueryWarns, Zenon
    <3> QED
      BY <1>6, <2>3, <3>2, Zenon DEF Tells
  <2> QED
    BY <2>1, <2>2, <2>3, Zenon
<1>8. RunQuery(r, limit)
        \o (IF Failed(r) /\ ~e THEN <<"ErrorResponse">> ELSE <<>>)
        \o (IF DataSent(r) THEN <<>> ELSE <<"EmptyQueryResponse">>) = (q \o f) \o d
  BY <1>1, <1>2, <1>3, Zenon
<1>9. Due(r, "Execute") => Tells((q \o f) \o d, r) \/ Last(r, e)
  BY <1>7, Zenon
<1> QED
  BY <1>5, <1>8, <1>9, Zenon

LEMMA DescribeMessages ==
    ASSUME NEW r \in Result
    PROVE  LET ms == CASE Failed(r) -> RunQuery(r, 0) \o <<"ErrorResponse">>
                       [] r = "reject" -> Logged("WARNING") \o <<"ErrorResponse">>
                       [] r = "no_data" -> <<"NoData">>
                       [] OTHER -> <<"RowDescription">>
           IN  ms \in Seq(Sent) /\ (Due(r, "Describe") => Tells(ms, r))
<1> DEFINE ms == CASE Failed(r) -> RunQuery(r, 0) \o <<"ErrorResponse">>
                   [] r = "reject" -> Logged("WARNING") \o <<"ErrorResponse">>
                   [] r = "no_data" -> <<"NoData">>
                   [] OTHER -> <<"RowDescription">>
<1>1. /\ RunQuery(r, 0) \o <<"ErrorResponse">> \in Seq(Sent)
      /\ Has(RunQuery(r, 0) \o <<"ErrorResponse">>, "ErrorResponse")
  BY RunQueryTypes, ErrorLast
<1>2. /\ Logged("WARNING") \o <<"ErrorResponse">> \in Seq(Sent)
      /\ Has(Logged("WARNING") \o <<"ErrorResponse">>, "ErrorResponse")
  BY LoggedTypes, ErrorLast, Zenon
<1>3. <<"NoData">> \in Seq(Sent) /\ <<"RowDescription">> \in Seq(Sent)
  BY Singleton, Zenon DEF Sent
<1>4. CASE Failed(r)
  <2>1. r # "reject" /\ r # "no_data"
    BY <1>4, Zenon DEF Failed
  <2>2. ms = RunQuery(r, 0) \o <<"ErrorResponse">>
    BY <1>4, <2>1, Zenon
  <2> QED
    BY <1>1, <2>2, Zenon DEF Tells
<1>5. CASE ~Failed(r) /\ r = "reject"
  <2>1. ms = Logged("WARNING") \o <<"ErrorResponse">>
    BY <1>5, Zenon
  <2> QED
    BY <1>2, <2>1, Zenon DEF Tells
<1>6. CASE ~Failed(r) /\ r # "reject"
  <2>1. ms \in {<<"NoData">>, <<"RowDescription">>}
    BY <1>6, Zenon
  <2>2. ms \in Seq(Sent)
    BY <1>3, <2>1, Zenon
  <2>3. ~Due(r, "Describe")
    BY <1>6, Zenon DEF Due
  <2> QED
    BY <2>2, <2>3, Zenon
<1> QED
  BY <1>4, <1>5, <1>6, Zenon

LEMMA StatementsStep ==
    ASSUME SessionInv, QueryStatement \/ ExecuteStatement \/ DescribeStatement
    PROVE  SessionInv'
<1>1. PICK line : line = NextLine(text, index)
  BY Zenon
<1>2. line.result \in Result /\ line.eof \in BOOLEAN
  BY <1>1, LineTypes, Zenon
<1>3. pc \in Loop
  BY Zenon DEF QueryStatement, ExecuteStatement, DescribeStatement, Loop
<1>4. ParseLine(text, index, eof) = line
  BY <1>1, <1>3, Zenon DEF SessionInv, Handling, NextLine
<1>5. CASE QueryStatement
  <2> DEFINE ms == RunQuery(line.result, 0) \o (IF Failed(line.result) THEN <<"ErrorResponse">> ELSE <<>>)
  <2>1. Took(line, ms)
    BY <1>4, <1>5, Zenon DEF QueryStatement
  <2>2. ms \in Seq(Sent) /\ (Due(line.result, "Query") => Tells(ms, line.result))
    BY <1>2, QueryMessages, Zenon
  <2>3. req.type = "Query"
    BY <1>5, Zenon DEF QueryStatement, SessionInv, Handling
  <2> HIDE DEF ms
  <2> QED
    BY <1>1, <1>3, <2>1, <2>2, <2>3, StatementStep, Zenon
<1>6. CASE ExecuteStatement
  <2> DEFINE ms == RunQuery(line.result, req.limit)
                   \o (IF Failed(line.result) /\ ~line.eof THEN <<"ErrorResponse">> ELSE <<>>)
                   \o (IF DataSent(line.result) THEN <<>> ELSE <<"EmptyQueryResponse">>)
  <2>1. Took(line, ms) /\ pc = "execute"
    BY <1>4, <1>6, Zenon DEF ExecuteStatement
  <2>2. req.type = "Execute" /\ req \in Message
    BY <2>1 DEF SessionInv, Handling, Types
  <2>3. req.limit \in Int
    BY <2>2, MessageFields, Zenon
  <2>4. /\ ms \in Seq(Sent)
        /\ Due(line.result, "Execute") => Tells(ms, line.result) \/ Last(line.result, line.eof)
    BY <1>2, <2>3, ExecuteMessages, Zenon
  <2> HIDE DEF ms
  <2> QED
    BY <1>1, <1>3, <2>1, <2>2, <2>4, StatementStep, Zenon
<1>7. CASE DescribeStatement
  <2> DEFINE ms == CASE Failed(line.result) -> RunQuery(line.result, 0) \o <<"ErrorResponse">>
                     [] line.result = "reject" -> Logged("WARNING") \o <<"ErrorResponse">>
                     [] line.result = "no_data" -> <<"NoData">>
                     [] OTHER -> <<"RowDescription">>
  <2>1. Took(line, ms)
    BY <1>4, <1>7, Zenon DEF DescribeStatement
  <2>2. ms \in Seq(Sent) /\ (Due(line.result, "Describe") => Tells(ms, line.result))
    BY <1>2, DescribeMessages, Zenon
  <2>3. req.type = "Describe"
    BY <1>7, Zenon DEF DescribeStatement, SessionInv, Handling
  <2> HIDE DEF ms
  <2> QED
    BY <1>1, <1>3, <2>1, <2>2, <2>3, StatementStep, Zenon
<1> QED
  BY <1>5, <1>6, <1>7, Zenon

LEMMA HandlersStep ==
    ASSUME SessionInv,
           Malformed \/ NoAction \/ HandleParse \/ HandleBind \/ HandleQuery \/ HandleExecute \/ HandleDescribe
    PROVE  SessionInv'
<1>1. pc = "handle"
  BY Zenon DEF Malformed, NoAction, HandleParse, HandleBind, HandleQuery, HandleExecute, HandleDescribe
<1>2. req \in Message
  <2>1. req.type # "none"
    BY Zenon DEF Malformed, NoAction, HandleParse, HandleBind, HandleQuery, HandleExecute, HandleDescribe
  <2>2. [type |-> "none"].type = "none"
    BY Zenon
  <2> QED
    BY <2>1, <2>2, Zenon DEF SessionInv, Types
<1>3. prepared \in [Name -> Text \cup {None}] /\ bound \in [Name -> Portal \cup {None}]
  BY Zenon DEF SessionInv, Types
<1>4. /\ <<>> \in Seq(Sent) /\ <<"ErrorResponse">> \in Seq(Sent) /\ <<"ParseComplete">> \in Seq(Sent)
      /\ <<"BindComplete">> \in Seq(Sent) /\ <<"EmptyQueryResponse">> \in Seq(Sent)
  BY Singleton DEF Sent
<1>5. ASSUME NEW ms \in Seq(Sent), Answer(ms), UNCHANGED store PROVE SessionInv'
  BY <1>1, <1>3, <1>5, AnswerStep, Zenon DEF store
<1>6. CASE Malformed
  BY <1>4, <1>5, <1>6, Zenon DEF Malformed
<1>7. CASE NoAction
  BY <1>4, <1>5, <1>7, Zenon DEF NoAction
<1>8. CASE HandleParse
  <2>1. req.name \in Name /\ req.text \in Text
    BY <1>2, <1>8, MessageFields, Zenon DEF HandleParse
  <2>2. prepared' \in [Name -> Text \cup {None}] /\ bound' = bound
    BY <1>3, <1>8, <2>1, Zenon DEF HandleParse
  <2>3. Answer(<<"ParseComplete">>)
    BY <1>8, Zenon DEF HandleParse
  <2> QED
    BY <1>1, <1>3, <1>4, <2>2, <2>3, AnswerStep, Zenon
<1>9. CASE HandleBind
  <2>1. req.portal \in Name /\ req.source \in Name
    BY <1>2, <1>9, MessageFields, Zenon DEF HandleBind
  <2>2. prepared' = prepared /\ bound' \in [Name -> Portal \cup {None}]
    <3>1. CASE bound' = bound
      BY <1>3, <1>9, <3>1, Zenon DEF HandleBind
    <3>2. CASE bound' # bound
      <4>1. PICK t, l : /\ t = prepared[req.source] /\ t # None /\ l = (req.parms = "long")
                        /\ bound' = [bound EXCEPT ![req.portal] = [text |-> t, long |-> l]]
        BY <1>9, <3>2, Zenon DEF HandleBind
      <4>2. t \in Text /\ l \in BOOLEAN
        BY <1>3, <2>1, <4>1, Zenon
      <4>3. [text |-> t, long |-> l] \in Portal
        BY <4>2, Zenon DEF Portal
      <4>4. prepared' = prepared
        BY <1>9, Zenon DEF HandleBind
      <4> QED
        BY <1>3, <4>1, <4>3, <4>4, Zenon
    <3> QED
      BY <3>1, <3>2, Zenon
  <2>3. Answer(<<"ErrorResponse">>) \/ Answer(<<"BindComplete">>)
    BY <1>9, Zenon DEF HandleBind
  <2> QED
    BY <1>1, <1>3, <1>4, <2>2, <2>3, AnswerStep, Zenon
<1>10. CASE HandleQuery
  <2>1. req.text \in Text /\ req.type = "Query"
    BY <1>2, <1>10, MessageFields, ZenonT(60) DEF HandleQuery
  <2>2. \/ Answer(<<"EmptyQueryResponse">>) /\ UNCHANGED store
        \/ Load(req.text, "query")
    BY <1>10, Zenon DEF HandleQuery
  <2>3. ASSUME Load(req.text, "query") PROVE SessionInv'
    BY <1>1, <2>1, <2>3, LoadStep, Zenon DEF Loop
  <2> QED
    BY <1>4, <1>5, <2>2, <2>3, Zenon
<1>11. CASE HandleExecute
  <2>1. PICK p : p = bound[req.portal]
    BY Zenon
  <2>2. p \in Portal \cup {None} /\ req.type = "Execute"
    BY <1>2, <1>3, <1>11, <2>1, MessageFields, Zenon DEF HandleExecute
  <2>3. \/ Die
        \/ Answer(<<"ErrorResponse">>) /\ UNCHANGED store
        \/ p # None /\ Load(p.text, "execute")
    BY <1>11, <2>1, Zenon DEF HandleExecute
  <2>4. ASSUME p # None, Load(p.text, "execute") PROVE SessionInv'
    <3>1. p.text \in Text
      BY <2>2, <2>4, Zenon DEF Portal
    <3> QED
      BY <1>1, <2>2, <2>4, <3>1, LoadStep, Zenon DEF Loop
  <2> QED
    BY <1>4, <1>5, <2>3, <2>4, DieStep, Zenon
<1>12. CASE HandleDescribe
  <2>1. req.name \in Name /\ req.item \in {"S", "P"} /\ req.type = "Describe"
    BY <1>2, <1>12, MessageFields, Zenon DEF HandleDescribe
  <2>2. PICK t : t = CASE req.item = "S" -> prepared[req.name]
                       [] req.item = "P" /\ bound[req.name] # None -> bound[req.name].text
                       [] OTHER -> None
    BY Zenon
  <2>3. t \in Text \cup {None}
    <3>1. bound[req.name] # None => bound[req.name].text \in Text
      BY <1>3, <2>1, Zenon DEF Portal
    <3>2. prepared[req.name] \in Text \cup {None}
      BY <1>3, <2>1, Zenon
    <3> QED
      BY <2>1, <2>2, <3>1, <3>2, Zenon
  <2>4. Die \/ (t # None /\ Load(t, "describe"))
    BY <1>12, <2>2, Zenon DEF HandleDescribe
  <2>5. ASSUME t # None, Load(t, "describe") PROVE SessionInv'
    BY <1>1, <2>1, <2>3, <2>5, LoadStep, Zenon DEF Loop
  <2> QED
    BY <2>4, <2>5, DieStep, Zenon
<1> QED
  BY <1>6, <1>7, <1>8, <1>9, <1>10, <1>11, <1>12, Zenon

LEMMA SessionNext == SessionInv /\ [Next]_vars => SessionInv'
<1> SUFFICES ASSUME SessionInv, [Next]_vars PROVE SessionInv'
  BY Zenon
<1>1. inbox \in Seq(Message)
  BY Zenon DEF SessionInv, Types
<1>2. ASSUME NEW m \in Message, ClientSend(m) PROVE SessionInv'
  <2>1. inbox' \in Seq(Message)
    BY <1>1, <1>2 DEF ClientSend
  <2> QED
    BY <1>2, <2>1, QuietStep, Zenon DEF ClientSend
<1>3. CASE ClientClose
  BY <1>1, <1>3, QuietStep, Zenon DEF ClientClose
<1>4. CASE Poll
  <2>1. pc' \in {"ready", "read", "ended"} /\ inbox' = inbox /\ UNCHANGED <<req, resp, store, run>>
    BY <1>4, Zenon DEF Poll, connection
  <2> QED
    BY <1>1, <2>1, QuietStep, Zenon
<1>5. CASE SendReady
  <2>1. pc' \in {"ready", "read", "ended"} /\ inbox' = inbox /\ UNCHANGED <<req, resp, store, run>>
    BY <1>5, Zenon DEF SendReady, connection
  <2> QED
    BY <1>1, <2>1, QuietStep, Zenon
<1>6. CASE ReadFails
  <2>1. CASE ReadClosed
    <3>1. pc' \in {"ready", "read", "ended"} /\ inbox' = inbox /\ UNCHANGED <<req, resp, store, run>>
      BY <1>6, <2>1, Zenon DEF ReadFails, ReadClosed, run
    <3> QED
      BY <1>1, <3>1, QuietStep, Zenon
  <2>2. CASE ReadRefused
    <3>1. pc' = "ended" /\ prepared' = prepared /\ bound' = bound
      BY <1>6, Zenon DEF ReadFails, store
    <3> QED
      BY <2>2, <3>1, RefusedStep, Zenon
  <2> QED
    BY <1>6, <2>1, <2>2, Zenon DEF ReadFails
<1>7. CASE ReadMessage
  BY <1>7, ReadStep, Zenon
<1>8. CASE UNCHANGED vars
  <2>1. pc' = pc /\ inbox' = inbox /\ UNCHANGED <<req, resp, store, run>>
    BY <1>8, Zenon DEF vars, connection, run
  <2> QED
    BY <1>1, <2>1, QuietStep, Zenon
<1> QED
  BY <1>2, <1>3, <1>4, <1>5, <1>6, <1>7, <1>8, HandlersStep, StatementsStep, Zenon DEF Next, Server

LEMMA SessionInvariant == Spec => []SessionInv
  BY SessionInit, SessionNext, PTL DEF Spec

-----------------------------------------------------------------------------
(* Any texts, any number of messages, in any order, with any leftovers of   *)
(* earlier ones.                                                            *)

\* handle_query and handle_execute run the statements of a text, when the grammar
\* accepts all of them, each once and in order.
THEOREM TextsRunInOrder == Spec => []RunsInOrder
<1>1. SessionInv => RunsInOrder
  BY Zenon DEF SessionInv
<1> QED
  BY <1>1, SessionInvariant, PTL

\* handle_query, handle_execute and handle_describe answer every statement that was
\* not served with an error or a warning of its own, wherever it is in its text; but
\* for a warning that octo_log does not send at LogLevel, and the last statement of
\* an Execute when octo_log is not called for it or sends no errors.
THEOREM FailuresAlwaysReported == Spec => []FailuresReported
<1>1. SessionInv => FailuresReported
  BY Zenon DEF SessionInv
<1> QED
  BY <1>1, SessionInvariant, PTL
=============================================================================

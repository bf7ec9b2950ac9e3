--------------------------- MODULE MessageProofs ---------------------------
(***************************************************************************)
(* What a server writes is read as it was written, for every message that  *)
(* MessageAssumption allows.                                               *)
(*                                                                         *)
(* A scan stops at a position that is known when the text before it holds  *)
(* nothing that stops it (UntilAt, WhileAt), so all that is needed of a    *)
(* text is where its parts are: the flags of a cookie (CookieParts) and    *)
(* the lines of a message (MessageParts).  The inductive invariant says    *)
(* that the parser is at the beginning of a line, at the end of a value or *)
(* between two flags, and has all that comes before (Reading).             *)
(***************************************************************************)
EXTENDS HttpMessage, SequenceTheorems, WellFoundedInduction, TLAPS

-----------------------------------------------------------------------------
(* Scans *)

\* A scan is at the first position that stops it, or past the last token.
LEMMA MinIs ==
    ASSUME NEW S, NEW x \in S, S \subseteq Nat, \A y \in S : x <= y
    PROVE  Min(S) = x
<1>1. \A z \in S : (\A y \in S : z <= y) => z = x
  OBVIOUS
<1>2. QED
  BY <1>1 DEF Min

LEMMA UntilAt ==
    ASSUME NEW s, NEW stops, NEW i \in Nat, NEW j \in Nat, Len(s) \in Nat,
           i <= j, j <= Len(s) + 1, j = Len(s) + 1 \/ s[j] \in stops,
           \A k \in Nat : i <= k /\ k < j => s[k] \notin stops
    PROVE  Until(s, i, stops) = j
<1> DEFINE S == {k \in i .. (Len(s) + 1) : k = Len(s) + 1 \/ s[k] \in stops}
<1>1. j \in S /\ S \subseteq Nat
  OBVIOUS
<1>2. \A k \in S : j <= k
  <2> SUFFICES ASSUME NEW k \in S, k < j PROVE FALSE
    BY <1>1
  <2>1. k \in Nat /\ i <= k /\ k # Len(s) + 1
    OBVIOUS
  <2>2. QED
    BY <2>1
<1> HIDE DEF S
<1>3. Min(S) = j
  BY <1>1, <1>2, MinIs
<1>4. QED
  BY <1>3 DEF S, Until

LEMMA WhileAt ==
    ASSUME NEW s, NEW set, NEW i \in Nat, NEW j \in Nat, Len(s) \in Nat,
           i <= j, j <= Len(s) + 1, j = Len(s) + 1 \/ s[j] \notin set,
           \A k \in Nat : i <= k /\ k < j => s[k] \in set
    PROVE  While(s, i, set) = j
<1> DEFINE S == {k \in i .. (Len(s) + 1) : k = Len(s) + 1 \/ s[k] \notin set}
<1>1. j \in S /\ S \subseteq Nat
  OBVIOUS
<1>2. \A k \in S : j <= k
  <2> SUFFICES ASSUME NEW k \in S, k < j PROVE FALSE
    BY <1>1
  <2>1. k \in Nat /\ i <= k /\ k # Len(s) + 1
    OBVIOUS
  <2>2. QED
    BY <2>1
<1> HIDE DEF S
<1>3. Min(S) = j
  BY <1>1, <1>2, MinIs
<1>4. QED
  BY <1>3 DEF S, While

-----------------------------------------------------------------------------
(* Parts of a text *)

Token == Space \cup {":", ";", "="} \cup Words

LEMMA TextIs == Text = Seq(Token)
BY DEF Text, Token

\* The text t has s at position p.
Holds(t, p, s) ==
    /\ p \in Nat \ {0} /\ p + Len(s) <= Len(t) + 1
    /\ \A k \in Nat : p <= k /\ k < p + Len(s) => t[k] = s[k + 1 - p]

\* The two parts of a concatenation.
LEMMA ConcatHolds ==
    ASSUME NEW a \in Text, NEW b \in Text, NEW t, t = a \o b,
           NEW end, end = Len(a) + 1
    PROVE  /\ t \in Text /\ Len(t) = Len(a) + Len(b) /\ Len(a) \in Nat /\ Len(b) \in Nat
           /\ Holds(t, 1, a) /\ Holds(t, end, b)
<1>1. /\ Len(a) \in Nat /\ Len(b) \in Nat
  BY LenProperties, TextIs
<1>2. /\ t \in Text /\ Len(t) = Len(a) + Len(b)
      /\ \A k \in 1 .. Len(a) + Len(b) : t[k] = IF k <= Len(a) THEN a[k] ELSE b[k - Len(a)]
  BY ConcatProperties, TextIs
<1>3. PICK m \in Nat : m = Len(a)
  BY <1>1
<1>4. PICK n \in Nat : n = Len(b)
  BY <1>1
<1>5. \A k \in Nat : 1 <= k /\ k <= m => t[k] = a[k]
  BY <1>2, <1>3, <1>4
<1>6. \A k \in Nat : m < k /\ k <= m + n => t[k] = b[k - m]
  BY <1>2, <1>3, <1>4
<1>7. Holds(t, 1, a)
  BY <1>2, <1>3, <1>4, <1>5 DEF Holds
<1>8. Holds(t, m + 1, b)
  <2>1. ASSUME NEW k \in Nat, m + 1 <= k, k < m + 1 + n PROVE t[k] = b[k + 1 - (m + 1)]
    <3>1. k + 1 - (m + 1) = k - m /\ m < k /\ k <= m + n
      BY <2>1
    <3>2. QED
      BY <1>6, <3>1
  <2>2. QED
    BY <1>2, <1>3, <1>4, <2>1 DEF Holds
<1>9. QED
  BY <1>1, <1>2, <1>3, <1>7, <1>8

\* A part of a part.
LEMMA HoldsInside ==
    ASSUME NEW t \in Text, NEW s \in Text, NEW r \in Text, NEW p, NEW q, NEW o,
           Holds(t, p, s), Holds(s, q, r), o = p + q - 1
    PROVE  Holds(t, o, r)
<1>1. Len(t) \in Nat /\ Len(s) \in Nat /\ Len(r) \in Nat
  BY LenProperties, TextIs
<1>2. p \in Nat \ {0} /\ q \in Nat \ {0} /\ o \in Nat \ {0} /\ o + Len(r) <= Len(t) + 1
  BY <1>1 DEF Holds
<1>3. ASSUME NEW k \in Nat, o <= k, k < o + Len(r) PROVE t[k] = r[k + 1 - o]
  <2>1. PICK j \in Nat : j = k + 1 - p
    BY <1>2, <1>3
  <2>2. q <= j /\ j < q + Len(r) /\ j + 1 - q = k + 1 - o
    BY <1>1, <1>2, <1>3, <2>1
  <2>3. p <= k /\ k < p + Len(s)
    BY <1>1, <1>2, <1>3 DEF Holds
  <2>4. t[k] = s[j]
    BY <2>1, <2>3 DEF Holds
  <2>5. s[j] = r[j + 1 - q]
    BY <2>2 DEF Holds
  <2>6. QED
    BY <2>2, <2>4, <2>5
<1>4. QED
  BY <1>2, <1>3 DEF Holds

LEMMA HoldsBefore ==
    ASSUME NEW t \in Text, NEW s \in Text, NEW r \in Text, NEW p,
           Holds(t, 1, s), Holds(s, p, r)
    PROVE  Holds(t, p, r)
<1>1. p = 1 + p - 1
  BY DEF Holds
<1>2. QED
  BY <1>1, HoldsInside

\* A part is what SubSeq cuts out.
LEMMA HeldSubSeq ==
    ASSUME NEW t \in Text, NEW s \in Text, NEW p, Holds(t, p, s),
           NEW end, end = p + Len(s)
    PROVE  SubSeq(t, p, end - 1) = s
<1>1. Len(t) \in Nat /\ Len(s) \in Nat /\ p \in Nat \ {0} /\ end \in Nat
  BY LenProperties, TextIs DEF Holds
<1>2. PICK n \in Int : n = end - 1
  BY <1>1
<1> DEFINE a == SubSeq(t, p, n)
<1>3. \A i \in p .. n : t[i] \in Token
  <2>1. \A i \in p .. n : i \in 1 .. Len(t)
    BY <1>1, <1>2 DEF Holds
  <2>2. QED
    BY <2>1, ElementOfSeq, TextIs
<1>4. /\ a \in Seq(Token) /\ Len(a) = IF p <= n THEN n - p + 1 ELSE 0
      /\ \A i \in 1 .. n - p + 1 : a[i] = t[p + i - 1]
  BY <1>1, <1>2, <1>3, SubSeqProperties
<1> HIDE DEF a
<1>5. Len(a) = Len(s)
  BY <1>1, <1>2, <1>4
<1>6. ASSUME NEW i \in 1 .. Len(s) PROVE a[i] = s[i]
  <2>1. PICK k \in Nat : k = p + i - 1
    BY <1>1
  <2>2. p <= k /\ k < p + Len(s) /\ k + 1 - p = i /\ i \in 1 .. n - p + 1
    BY <1>1, <1>2, <2>1
  <2>3. t[k] = s[i]
    BY <2>2 DEF Holds
  <2>4. QED
    BY <1>4, <2>1, <2>2, <2>3
<1>7. a = s
  BY <1>4, <1>5, <1>6, SeqEqual, TextIs
<1>8. QED
  BY <1>2, <1>7 DEF a

\* One token.
LEMMA TwoTokens ==
    ASSUME NEW t, NEW p, NEW x, NEW y, Holds(t, p, <<x, y>>)
    PROVE  t[p] = x /\ t[p + 1] = y
<1>1. p \in Nat /\ p + 1 \in Nat /\ p + 1 - p = 1 /\ (p + 1) + 1 - p = 2
  BY DEF Holds
<1>2. t[p] = <<x, y>>[p + 1 - p] /\ t[p + 1] = <<x, y>>[(p + 1) + 1 - p]
  BY <1>1 DEF Holds
<1>3. QED
  BY <1>1, <1>2

\* Scans from the beginning of a part to its end, over one space, and over none.
LEMMA UntilPart ==
    ASSUME NEW t \in Text, NEW s \in Text, NEW p, NEW stops, Holds(t, p, s), Without(s, stops),
           NEW end, end = p + Len(s), end = Len(t) + 1 \/ t[end] \in stops
    PROVE  Until(t, p, stops) = end
<1>1. /\ Len(t) \in Nat /\ Len(s) \in Nat /\ p \in Nat /\ end \in Nat /\ DOMAIN s = 1 .. Len(s)
      /\ p <= end /\ end <= Len(t) + 1
  BY LenProperties, TextIs DEF Holds
<1>2. ASSUME NEW k \in Nat, p <= k, k < end PROVE t[k] \notin stops
  <2>1. k + 1 - p \in 1 .. Len(s)
    BY <1>1, <1>2
  <2>2. t[k] = s[k + 1 - p]
    BY <1>2 DEF Holds
  <2>3. QED
    BY <1>1, <2>1, <2>2 DEF Without
<1>3. QED
  BY <1>1, <1>2, UntilAt

LEMMA WhileNothing ==
    ASSUME NEW t \in Text, NEW p \in Nat, NEW set, p <= Len(t) + 1,
           p = Len(t) + 1 \/ t[p] \notin set
    PROVE  While(t, p, set) = p
<1>1. Len(t) \in Nat
  BY LenProperties, TextIs
<1>2. \A k \in Nat : p <= k /\ k < p => t[k] \in set
  OBVIOUS
<1>3. QED
  BY <1>1, <1>2, WhileAt

LEMMA WhileOne ==
    ASSUME NEW t \in Text, NEW p \in Nat, NEW set, p <= Len(t), t[p] \in set,
           NEW next, next = p + 1, next = Len(t) + 1 \/ t[next] \notin set
    PROVE  While(t, p, set) = next
<1>1. Len(t) \in Nat /\ next \in Nat /\ p <= next /\ next <= Len(t) + 1
  BY LenProperties, TextIs
<1>2. \A k \in Nat : p <= k /\ k < next => t[k] \in set
  <2>1. \A k \in Nat : p <= k /\ k < next => k = p
    OBVIOUS
  <2>2. QED
    BY <2>1
<1>3. QED
  BY <1>1, <1>2, WhileAt

-----------------------------------------------------------------------------
(* The text of a cookie: where its value, its path and its two flags end *)

ValueEnds(cookie) == Len(cookie.name) + 2 + Len(cookie.value)
PathEnds(cookie) ==
    IF cookie.path = <<>> THEN ValueEnds(cookie) ELSE ValueEnds(cookie) + 4 + Len(cookie.path)
HttpOnlyEnds(cookie) == IF cookie.httpOnly THEN PathEnds(cookie) + 3 ELSE PathEnds(cookie)
SecureEnds(cookie) == IF cookie.secure THEN HttpOnlyEnds(cookie) + 3 ELSE HttpOnlyEnds(cookie)

EqualSign == <<"=">>
PathFlag == <<";", "sp", "Path", "=">>
HttpOnlyFlag == <<";", "sp", "HttpOnly">>
SecureFlag == <<";", "sp", "Secure">>
Colon == <<":", "sp">>
NewLine == <<"cr", "lf">>

LEMMA TupleSeq ==
    ASSUME NEW S, NEW x \in S, NEW y \in S, NEW z \in S, NEW u \in S
    PROVE  /\ <<x>> \in Seq(S) /\ <<x, y>> \in Seq(S)
           /\ <<x, y, z>> \in Seq(S) /\ <<x, y, z, u>> \in Seq(S)
OBVIOUS

LEMMA Tokens ==
    /\ EqualSign \in Text /\ Len(EqualSign) = 1
    /\ PathFlag \in Text /\ Len(PathFlag) = 4
    /\ HttpOnlyFlag \in Text /\ Len(HttpOnlyFlag) = 3
    /\ SecureFlag \in Text /\ Len(SecureFlag) = 3
    /\ Colon \in Text /\ Len(Colon) = 2
    /\ NewLine \in Text /\ Len(NewLine) = 2
<1>1. /\ "=" \in Token /\ ";" \in Token /\ ":" \in Token /\ "sp" \in Token
      /\ "cr" \in Token /\ "lf" \in Token
  BY DEF Token, Space
<1>2. "Path" \in Token /\ "HttpOnly" \in Token /\ "Secure" \in Token
  BY DEF Token, Words
<1>3. EqualSign \in Text
  BY <1>1, TupleSeq, Zenon, TextIs DEF EqualSign
<1>4. PathFlag \in Text
  BY <1>1, <1>2, TupleSeq, Zenon, TextIs DEF PathFlag
<1>5. HttpOnlyFlag \in Text
  BY <1>1, <1>2, TupleSeq, Zenon, TextIs DEF HttpOnlyFlag
<1>6. SecureFlag \in Text
  BY <1>1, <1>2, TupleSeq, Zenon, TextIs DEF SecureFlag
<1>7. Colon \in Text
  BY <1>1, TupleSeq, Zenon, TextIs DEF Colon
<1>8. NewLine \in Text
  BY <1>1, TupleSeq, Zenon, TextIs DEF NewLine
<1>9. /\ Len(EqualSign) = 1 /\ Len(PathFlag) = 4 /\ Len(HttpOnlyFlag) = 3
      /\ Len(SecureFlag) = 3 /\ Len(Colon) = 2 /\ Len(NewLine) = 2
  BY DEF EqualSign, PathFlag, HttpOnlyFlag, SecureFlag, Colon, NewLine
<1>10. QED
  BY <1>3, <1>4, <1>5, <1>6, <1>7, <1>8, <1>9

LEMMA NoTokens == <<>> \in Text /\ Len(<<>>) = 0
BY TextIs

\* A flag takes three tokens.
LEMMA FlagEnds ==
    ASSUME NEW cookie \in CookieType
    PROVE  /\ \/ cookie.httpOnly = TRUE /\ HttpOnlyEnds(cookie) = PathEnds(cookie) + 3
              \/ cookie.httpOnly = FALSE /\ HttpOnlyEnds(cookie) = PathEnds(cookie)
           /\ \/ cookie.secure = TRUE /\ SecureEnds(cookie) = HttpOnlyEnds(cookie) + 3
              \/ cookie.secure = FALSE /\ SecureEnds(cookie) = HttpOnlyEnds(cookie)
<1>1. /\ cookie.httpOnly = TRUE \/ cookie.httpOnly = FALSE
      /\ cookie.secure = TRUE \/ cookie.secure = FALSE
  BY DEF CookieType
<1>2. /\ cookie.httpOnly = TRUE => HttpOnlyEnds(cookie) = PathEnds(cookie) + 3
      /\ cookie.httpOnly = FALSE => HttpOnlyEnds(cookie) = PathEnds(cookie)
  BY DEF HttpOnlyEnds
<1>3. /\ cookie.secure = TRUE => SecureEnds(cookie) = HttpOnlyEnds(cookie) + 3
      /\ cookie.secure = FALSE => SecureEnds(cookie) = HttpOnlyEnds(cookie)
  BY DEF SecureEnds
<1>4. QED
  BY <1>1, <1>2, <1>3

\* Where the parts of a cookie's text are, and that it is as long as they are together.
LEMMA CookieParts ==
    ASSUME NEW cookie \in CookieType, NEW t, t = CookieText(cookie)
    PROVE  /\ t \in Text /\ Len(t) = SecureEnds(cookie) - 1
           /\ ValueEnds(cookie) \in Nat /\ PathEnds(cookie) \in Nat
           /\ HttpOnlyEnds(cookie) \in Nat /\ SecureEnds(cookie) \in Nat
           /\ Holds(t, 1, cookie.name) /\ Holds(t, Len(cookie.name) + 1, EqualSign)
           /\ Holds(t, Len(cookie.name) + 2, cookie.value)
           /\ cookie.path # <<>> =>
                 /\ Holds(t, ValueEnds(cookie), PathFlag)
                 /\ Holds(t, ValueEnds(cookie) + 4, cookie.path)
           /\ HttpOnlyEnds(cookie) # PathEnds(cookie) =>
                 Holds(t, PathEnds(cookie), HttpOnlyFlag)
           /\ SecureEnds(cookie) # HttpOnlyEnds(cookie) =>
                 Holds(t, HttpOnlyEnds(cookie), SecureFlag)
<1>1. /\ cookie.name \in Text /\ cookie.value \in Text /\ cookie.path \in Text
      /\ cookie.httpOnly \in BOOLEAN /\ cookie.secure \in BOOLEAN
  BY DEF CookieType
<1>2. PICK a : a = cookie.name \o EqualSign
  OBVIOUS
<1>3. PICK b : b = a \o cookie.value
  OBVIOUS
<1>4. PICK w : w = PathFlag
  OBVIOUS
<1>5. PICK path : path = w \o cookie.path
  OBVIOUS
<1>6. PICK pathPart : pathPart = IF cookie.path = <<>> THEN <<>> ELSE path
  OBVIOUS
<1>7. PICK httpOnly : httpOnly = IF cookie.httpOnly THEN HttpOnlyFlag ELSE <<>>
  OBVIOUS
<1>8. PICK secure : secure = IF cookie.secure THEN SecureFlag ELSE <<>>
  OBVIOUS
<1>9. PICK c, d : c = b \o pathPart /\ d = c \o httpOnly
  OBVIOUS
<1>10. t = d \o secure
  BY <1>2, <1>3, <1>4, <1>5, <1>6, <1>7, <1>8, <1>9 DEF CookieText, EqualSign, PathFlag, HttpOnlyFlag, SecureFlag
<1>11. PICK k : k = Len(cookie.name)
  OBVIOUS
<1>12. PICK l : l = Len(cookie.value)
  OBVIOUS
<1>13. PICK m : m = Len(cookie.path)
  OBVIOUS
<1>14. k \in Nat /\ l \in Nat /\ m \in Nat
  BY <1>1, <1>11, <1>12, <1>13, LenProperties, TextIs
<1>15. PICK v : v = ValueEnds(cookie)
  OBVIOUS
<1>16. v = k + 2 + l /\ v \in Nat
  <2>1. v = k + 2 + l
    BY <1>11, <1>12, <1>15 DEF ValueEnds
  <2>2. QED
    BY <1>14, <2>1
<1>17. /\ a \in Text /\ Len(a) = k + 1 /\ Holds(a, 1, cookie.name) /\ Holds(a, k + 1, EqualSign)
  <2>1. EqualSign \in Text /\ Len(EqualSign) = 1 /\ k + 1 = Len(cookie.name) + 1
    BY <1>11, Tokens
  <2>2. /\ a \in Text /\ Len(a) = Len(cookie.name) + Len(EqualSign)
        /\ Holds(a, 1, cookie.name) /\ Holds(a, k + 1, EqualSign)
    BY <1>1, <1>2, <2>1, ConcatHolds
  <2>3. Len(a) = k + 1
    BY <1>11, <2>1, <2>2
  <2>4. QED
    BY <2>2, <2>3
<1>18. b \in Text /\ Len(b) = v - 1 /\ Holds(b, 1, a) /\ Holds(b, k + 2, cookie.value)
  <2>1. k + 2 = Len(a) + 1
    BY <1>17, <1>14
  <2>2. /\ b \in Text /\ Len(b) = Len(a) + Len(cookie.value)
        /\ Holds(b, 1, a) /\ Holds(b, k + 2, cookie.value)
    BY <1>1, <1>3, <1>17, <2>1, ConcatHolds
  <2>3. Len(b) = (k + 1) + l
    BY <1>17, <1>12, <2>2
  <2>4. Len(b) = v - 1
    BY <1>14, <1>16, <2>3
  <2>5. QED
    BY <2>2, <2>4
<1>19. /\ path \in Text /\ Len(path) = 4 + m
       /\ Holds(path, 1, w) /\ Holds(path, 5, cookie.path)
  <2>1. w \in Text /\ Len(w) = 4
    BY <1>4, Tokens
  <2>2. 5 = Len(w) + 1
    BY <2>1
  <2>3. path \in Text /\ Len(path) = Len(w) + Len(cookie.path) /\ Holds(path, 1, w) /\ Holds(path, 5, cookie.path)
    BY <1>1, <1>5, <2>1, <2>2, ConcatHolds
  <2>4. Len(path) = 4 + m
    BY <1>13, <2>1, <2>3
  <2>5. QED
    BY <2>3, <2>4
<1>20. PICK p : p = PathEnds(cookie)
  OBVIOUS
<1>21. /\ p \in Nat
       /\ cookie.path = <<>> => p = v
       /\ cookie.path # <<>> => p = v + 4 + m
  <2>1. /\ cookie.path = <<>> => p = v
        /\ cookie.path # <<>> => p = v + 4 + m
    BY <1>13, <1>15, <1>20 DEF PathEnds
  <2>2. p = v \/ p = v + 4 + m
    BY <2>1
  <2>3. p \in Nat
    BY <1>14, <1>16, <2>2
  <2>4. QED
    BY <2>1, <2>3
<1>22. PICK h : h \in Nat /\ h = HttpOnlyEnds(cookie) /\ (h = p \/ h = p + 3)
  <2>1. HttpOnlyEnds(cookie) = p \/ HttpOnlyEnds(cookie) = p + 3
    BY <1>20, FlagEnds
  <2>2. QED
    BY <1>21, <2>1
<1>23. PICK e : e \in Nat /\ e = SecureEnds(cookie) /\ (e = h \/ e = h + 3)
  <2>1. SecureEnds(cookie) = h \/ SecureEnds(cookie) = h + 3
    BY <1>22, FlagEnds
  <2>2. QED
    BY <1>22, <2>1
<1>24. /\ c \in Text /\ Len(c) = p - 1 /\ Holds(c, 1, b)
       /\ cookie.path # <<>> => Holds(c, v, path)
  <2>1. v = Len(b) + 1
    BY <1>18, <1>16
  <2>2. pathPart \in Text /\ Len(pathPart) = p - v
    <3>1. CASE cookie.path = <<>>
      <4>1. pathPart = <<>> /\ p = v
        BY <1>6, <1>21, <3>1
      <4>2. pathPart \in Text /\ Len(pathPart) = 0
        BY <4>1, NoTokens
      <4>3. QED
        BY <1>16, <4>1, <4>2
    <3>2. CASE cookie.path # <<>>
      <4>1. pathPart = path /\ p = v + 4 + m
        BY <1>6, <1>21, <3>2
      <4>2. Len(path) = 4 + m /\ path \in Text
        BY <1>19
      <4>3. QED
        BY <1>14, <1>16, <4>1, <4>2
    <3>3. QED
      BY <3>1, <3>2
  <2>3. c \in Text /\ Len(c) = Len(b) + Len(pathPart) /\ Holds(c, 1, b) /\ Holds(c, v, pathPart)
    BY <1>9, <1>18, <2>1, <2>2, ConcatHolds
  <2>4. cookie.path # <<>> => Holds(c, v, path)
    BY <1>6, <2>3
  <2>5. Len(c) = p - 1
    BY <1>16, <1>21, <2>1, <2>2, <2>3
  <2>6. QED
    BY <2>3, <2>4, <2>5
<1>25. /\ d \in Text /\ Len(d) = h - 1 /\ Holds(d, 1, c)
       /\ h # p => Holds(d, p, HttpOnlyFlag)
  <2>1. \/ httpOnly = <<>> /\ h = p
        \/ httpOnly = HttpOnlyFlag /\ h = p + 3
    <3>1. \/ cookie.httpOnly = TRUE /\ h = p + 3
          \/ cookie.httpOnly = FALSE /\ h = p
      BY <1>20, <1>22, FlagEnds
    <3>2. /\ cookie.httpOnly = TRUE => httpOnly = HttpOnlyFlag
          /\ cookie.httpOnly = FALSE => httpOnly = <<>>
      BY <1>7
    <3>3. QED
      BY <3>1, <3>2
  <2>2. httpOnly \in Text /\ Len(httpOnly) = h - p
    <3>1. CASE httpOnly = <<>> /\ h = p
      <4>1. httpOnly \in Text /\ Len(httpOnly) = 0
        BY <3>1, NoTokens
      <4>2. QED
        BY <1>21, <3>1, <4>1
    <3>2. CASE httpOnly = HttpOnlyFlag /\ h = p + 3
      <4>1. httpOnly \in Text /\ Len(httpOnly) = 3
        BY <3>2, Tokens
      <4>2. QED
        BY <1>21, <3>2, <4>1
    <3>3. QED
      BY <2>1, <3>1, <3>2
  <2>3. p = Len(c) + 1
    BY <1>21, <1>24
  <2>4. d \in Text /\ Len(d) = Len(c) + Len(httpOnly) /\ Holds(d, 1, c) /\ Holds(d, p, httpOnly)
    BY <1>9, <1>24, <2>2, <2>3, ConcatHolds
  <2>5. Len(d) = h - 1
    BY <1>21, <1>22, <1>24, <2>2, <2>4
  <2>6. h # p => Holds(d, p, HttpOnlyFlag)
    BY <2>1, <2>4
  <2>7. QED
    BY <2>4, <2>5, <2>6
<1>26. /\ t \in Text /\ Len(t) = e - 1 /\ Holds(t, 1, d)
       /\ e # h => Holds(t, h, SecureFlag)
  <2>1. \/ secure = <<>> /\ e = h
        \/ secure = SecureFlag /\ e = h + 3
    <3>1. \/ cookie.secure = TRUE /\ e = h + 3
          \/ cookie.secure = FALSE /\ e = h
      BY <1>22, <1>23, FlagEnds
    <3>2. /\ cookie.secure = TRUE => secure = SecureFlag
          /\ cookie.secure = FALSE => secure = <<>>
      BY <1>8
    <3>3. QED
      BY <3>1, <3>2
  <2>2. secure \in Text /\ Len(secure) = e - h
    <3>1. CASE secure = <<>> /\ e = h
      <4>1. secure \in Text /\ Len(secure) = 0
        BY <3>1, NoTokens
      <4>2. QED
        BY <1>22, <3>1, <4>1
    <3>2. CASE secure = SecureFlag /\ e = h + 3
      <4>1. secure \in Text /\ Len(secure) = 3
        BY <3>2, Tokens
      <4>2. QED
        BY <1>22, <3>2, <4>1
    <3>3. QED
      BY <2>1, <3>1, <3>2
  <2>3. h = Len(d) + 1
    BY <1>22, <1>25
  <2>4. t \in Text /\ Len(t) = Len(d) + Len(secure) /\ Holds(t, 1, d) /\ Holds(t, h, secure)
    BY <1>10, <1>25, <2>2, <2>3, ConcatHolds
  <2>5. Len(t) = e - 1
    BY <1>22, <1>23, <1>25, <2>2, <2>4
  <2>6. e # h => Holds(t, h, SecureFlag)
    BY <2>1, <2>4
  <2>7. QED
    BY <2>4, <2>5, <2>6
<1>27. Holds(t, 1, c)
  BY <1>24, <1>25, <1>26, HoldsBefore
<1>28. Holds(t, 1, b)
  BY <1>18, <1>24, <1>26, <1>27, HoldsBefore
<1>29. Holds(t, 1, a)
  BY <1>17, <1>18, <1>26, <1>28, HoldsBefore
<1>30. Holds(t, 1, cookie.name) /\ Holds(t, k + 1, EqualSign) /\ Holds(t, k + 2, cookie.value)
  <2>1. EqualSign \in Text
    BY Tokens
  <2>2. Holds(t, 1, cookie.name) /\ Holds(t, k + 1, EqualSign)
    BY <1>1, <1>17, <1>26, <1>29, <2>1, HoldsBefore
  <2>3. Holds(t, k + 2, cookie.value)
    BY <1>1, <1>18, <1>26, <1>28, HoldsBefore
  <2>4. QED
    BY <2>2, <2>3
<1>31. ASSUME cookie.path # <<>>
       PROVE  Holds(t, v, PathFlag) /\ Holds(t, v + 4, cookie.path)
  <2>1. Holds(t, v, path)
    BY <1>19, <1>24, <1>26, <1>27, <1>31, HoldsBefore
  <2>2. PICK o : o = v + 4
    OBVIOUS
  <2>3. v = v + 1 - 1 /\ o = v + 5 - 1
    BY <1>16, <2>2
  <2>4. w \in Text
    BY <1>4, Tokens
  <2>5. Holds(t, v, w)
    BY <1>19, <1>26, <2>1, <2>3, <2>4, HoldsInside
  <2>6. Holds(t, o, cookie.path)
    <3>1. cookie.path \in Text /\ path \in Text /\ t \in Text
      BY <1>1, <1>19, <1>26
    <3>2. Holds(path, 5, cookie.path)
      BY <1>19
    <3>3. QED
      BY <2>1, <2>3, <3>1, <3>2, HoldsInside
  <2>7. QED
    BY <1>4, <2>2, <2>5, <2>6
<1>32. ASSUME h # p PROVE Holds(t, p, HttpOnlyFlag)
  BY <1>25, <1>26, <1>32, Tokens, HoldsBefore
<1>33. /\ t \in Text /\ Len(t) = SecureEnds(cookie) - 1
       /\ ValueEnds(cookie) \in Nat /\ PathEnds(cookie) \in Nat
       /\ HttpOnlyEnds(cookie) \in Nat /\ SecureEnds(cookie) \in Nat
  BY <1>15, <1>16, <1>20, <1>21, <1>22, <1>23, <1>26
<1>34. /\ Holds(t, 1, cookie.name) /\ Holds(t, Len(cookie.name) + 1, EqualSign)
       /\ Holds(t, Len(cookie.name) + 2, cookie.value)
  BY <1>11, <1>30
<1>35. cookie.path # <<>> =>
          Holds(t, ValueEnds(cookie), PathFlag) /\ Holds(t, ValueEnds(cookie) + 4, cookie.path)
  BY <1>15, <1>31
<1>36. /\ HttpOnlyEnds(cookie) # PathEnds(cookie) => Holds(t, PathEnds(cookie), HttpOnlyFlag)
       /\ SecureEnds(cookie) # HttpOnlyEnds(cookie) => Holds(t, HttpOnlyEnds(cookie), SecureFlag)
  BY <1>20, <1>22, <1>23, <1>26, <1>32
<1>37. QED
  BY <1>33, <1>34, <1>35, <1>36

-----------------------------------------------------------------------------
(* The text of a message: where its lines begin *)

\* Inductions on naturals below go by the least counterexample.
LEMMA LeastElement ==
    ASSUME NEW K, K \subseteq Nat, K # {}
    PROVE  \E k \in K : \A l \in K : k <= l
<1> DEFINE Below == {p \in Nat \X Nat : p[1] < p[2]}
<1>1. Below = OpToRel(<, Nat)
  BY Zenon DEF OpToRel
<1>2. IsWellFoundedOn(Below, Nat)
  BY <1>1, NatLessThanWellFounded
<1>3. PICK k \in K : \A l \in K : <<l, k>> \notin Below
  BY <1>2, WFMin
<1>4. \A l \in K : l < k => <<l, k>> \in Below
  OBVIOUS
<1>5. \A l \in K : ~(l < k)
  <2> HIDE DEF Below
  <2> QED BY <1>3, <1>4
<1>6. QED
  BY <1>5

\* Induction, for the set G of the numbers that have the property.
LEMMA NatSetInduction ==
    ASSUME NEW G, 0 \in G, \A n \in Nat : n \in G => n + 1 \in G
    PROVE  Nat \subseteq G
<1> DEFINE K == Nat \ G
<1> SUFFICES ASSUME K # {} PROVE FALSE
  OBVIOUS
<1>1. PICK k \in K : \A l \in K : k <= l
  <2>1. K \subseteq Nat
    OBVIOUS
  <2> HIDE DEF K
  <2>2. QED
    BY <2>1, LeastElement
<1>2. k \in Nat /\ k # 0
  OBVIOUS
<1>3. PICK j \in Nat : j + 1 = k
  <2>1. k - 1 \in Nat /\ k - 1 + 1 = k
    BY <1>2
  <2>2. QED
    BY <2>1
<1>4. j \in G
  BY <1>1, <1>3
<1>5. QED
  BY <1>3, <1>4

\* The function that FlattenSeq computes, and that there is one.
Flattens(f, parts) ==
    f = [i \in 1 .. Len(parts) |-> IF i = 1 THEN parts[i] ELSE f[i - 1] \o parts[i]]

\* FlattenSeq's recursion has a solution.
LEMMA FlattenExists ==
    ASSUME NEW S, NEW parts \in Seq(S)
    PROVE  \E f : Flattens(f, parts)
<1> DEFINE Step(f, i) == IF i = 1 THEN parts[i] ELSE f[i - 1] \o parts[i]
           Solved(n) == \E f : f = [i \in 1 .. n |-> Step(f, i)]
           G == {n \in Nat : Solved(n)}
<1>1. 0 \in G
  <2>1. PICK f : f = [i \in 1 .. 0 |-> <<>>]
    OBVIOUS
  <2>2. f = [i \in 1 .. 0 |-> Step(f, i)]
    BY <2>1
  <2>3. QED
    BY <2>2
<1>2. ASSUME NEW n \in Nat, n \in G PROVE n + 1 \in G
  <2>1. PICK f : f = [i \in 1 .. n |-> Step(f, i)]
    BY <1>2
  <2>2. PICK g : g = [i \in 1 .. n + 1 |-> Step(f, i)]
    OBVIOUS
  <2>3. ASSUME NEW i \in 1 .. n PROVE g[i] = f[i]
    <3> HIDE DEF Step
    <3>1. i \in 1 .. n + 1
      OBVIOUS
    <3>2. g[i] = Step(f, i) /\ f[i] = Step(f, i)
      BY <2>1, <2>2, <3>1
    <3>3. QED
      BY <3>2
  <2>4. ASSUME NEW i \in 1 .. n + 1 PROVE Step(g, i) = Step(f, i)
    <3>1. i # 1 => i - 1 \in 1 .. n
      OBVIOUS
    <3>2. i # 1 => g[i - 1] = f[i - 1]
      BY <2>3, <3>1
    <3>3. QED
      BY <3>2
  <2>5. g = [i \in 1 .. n + 1 |-> Step(g, i)]
    BY <2>2, <2>4
  <2>6. Solved(n + 1)
    BY <2>5
  <2> HIDE DEF Solved
  <2>7. QED
    BY <2>6
<1> HIDE DEF G
<1>3. Nat \subseteq G
  BY <1>1, <1>2, NatSetInduction
<1>4. Len(parts) \in Nat
  BY LenProperties
<1>5. PICK f : f = [i \in 1 .. Len(parts) |-> Step(f, i)]
  BY <1>3, <1>4 DEF G
<1>6. Flattens(f, parts)
  BY <1>5 DEF Flattens
<1>7. QED
  BY <1>6

\* start[i] is where the i-th part begins, and the last where all of them end.
Starts(start, t, parts) ==
    /\ start \in [1 .. Len(parts) + 1 -> Nat \ {0}] /\ start[1] = 1
    /\ \A i \in 1 .. Len(parts) :
          start[i + 1] = start[i] + Len(parts[i]) /\ Holds(t, start[i], parts[i])
    /\ Len(t) = start[Len(parts) + 1] - 1

\* In the concatenation of texts each stands where the ones before it end.
LEMMA FlattenParts ==
    ASSUME NEW parts \in Seq(Text), NEW t, t = FlattenSeq(parts)
    PROVE  t \in Text /\ \E start : Starts(start, t, parts)
<1>1. PICK n : n = Len(parts)
  OBVIOUS
<1>2. n \in Nat /\ \A i \in 1 .. n : parts[i] \in Text
  BY <1>1, LenProperties, ElementOfSeq
<1>3. CASE n = 0
  <2>1. t = <<>> /\ parts = <<>>
    BY <1>1, <1>3, EmptySeq DEF FlattenSeq
  <2>2. t \in Text /\ Len(t) = 0
    BY <2>1, NoTokens
  <2>3. PICK start : start = [i \in 1 .. 1 |-> 1]
    OBVIOUS
  <2>4. Starts(start, t, parts)
    BY <1>1, <1>3, <2>2, <2>3 DEF Starts
  <2>5. QED
    BY <2>2, <2>4
<1>4. CASE n # 0
  <2>1. PICK f : Flattens(f, parts) /\ t = f[n]
    <3>1. FlattenSeq(parts) = (CHOOSE f : Flattens(f, parts))[n]
      BY <1>1, <1>4 DEF FlattenSeq, Flattens
    <3>2. QED
      BY <3>1, FlattenExists
  <2>2. f[1] = parts[1] /\ \A i \in Nat : 1 <= i /\ i + 1 <= n => f[i + 1] = f[i] \o parts[i + 1]
    <3>1. f = [i \in 1 .. n |-> IF i = 1 THEN parts[i] ELSE f[i - 1] \o parts[i]]
      BY <1>1, <2>1 DEF Flattens
    <3>2. 1 \in 1 .. n
      BY <1>2, <1>4
    <3>3. ASSUME NEW i \in Nat, 1 <= i, i + 1 <= n PROVE f[i + 1] = f[i] \o parts[i + 1]
      <4>1. i + 1 \in 1 .. n /\ i + 1 # 1 /\ (i + 1) - 1 = i
        BY <1>2, <3>3
      <4>2. f[i + 1] = f[(i + 1) - 1] \o parts[i + 1]
        BY <3>1, <4>1
      <4>3. QED
        BY <4>1, <4>2
    <3>4. QED
      BY <3>1, <3>2, <3>3
  <2>3. PICK start : start = [i \in 1 .. n + 1 |-> IF i = 1 THEN 1 ELSE Len(f[i - 1]) + 1]
    OBVIOUS
  <2>4. start[1] = 1 /\ \A i \in 1 .. n : start[i + 1] = Len(f[i]) + 1
    <3>1. ASSUME NEW i \in 1 .. n PROVE start[i + 1] = Len(f[i]) + 1
      <4>1. i + 1 \in 1 .. n + 1 /\ i + 1 # 1 /\ (i + 1) - 1 = i
        BY <1>2
      <4>2. start[i + 1] = Len(f[(i + 1) - 1]) + 1
        BY <2>3, <4>1
      <4>3. QED
        BY <4>1, <4>2
    <3>2. 1 \in 1 .. n + 1
      BY <1>2
    <3>3. QED
      BY <2>3, <3>1, <3>2
  <2> DEFINE P(k) == /\ f[k] \in Text
                     /\ \A i \in 1 .. k : /\ start[i] \in Nat \ {0}
                                          /\ Holds(f[k], start[i], parts[i])
                                          /\ start[i + 1] = start[i] + Len(parts[i])
             G == {k \in Nat : 1 <= k /\ k <= n => P(k)}
  <2>5. 0 \in G
    OBVIOUS
  <2>6. ASSUME NEW k \in Nat, k \in G PROVE k + 1 \in G
    <3>1. SUFFICES ASSUME k + 1 <= n PROVE P(k + 1)
      OBVIOUS
    <3>2. CASE k = 0
      <4>1. f[1] = parts[1] /\ f[1] \in Text
        BY <1>2, <1>4, <2>2
      <4>2. Holds(f[1], 1, parts[1])
        BY <4>1, LenProperties, TextIs DEF Holds
      <4>3. start[1] = 1 /\ start[1] \in Nat \ {0} /\ Holds(f[1], start[1], parts[1])
        BY <2>4, <4>2
      <4>4. start[1 + 1] = start[1] + Len(parts[1])
        <5>1. 1 \in 1 .. n
          BY <1>2, <1>4
        <5>2. start[1 + 1] = Len(f[1]) + 1
          BY <2>4, <5>1
        <5>3. Len(parts[1]) \in Nat
          BY <1>2, <5>1, LenProperties, TextIs
        <5>4. QED
          BY <4>1, <4>3, <5>2, <5>3
      <4>5. P(1)
        BY <4>1, <4>3, <4>4
      <4>6. QED
        BY <3>2, <4>5
    <3>3. CASE k # 0
      <4>1. k \in 1 .. n /\ k + 1 \in 1 .. n
        BY <1>2, <3>1, <3>3
      <4>2. P(k)
        BY <2>6, <4>1
      <4>3. PICK a : a = f[k]
        OBVIOUS
      <4>4. PICK b : b = parts[k + 1]
        OBVIOUS
      <4>5. PICK c : c = f[k + 1]
        OBVIOUS
      <4>6. a \in Text /\ b \in Text
        BY <1>2, <4>1, <4>2, <4>3, <4>4
      <4>7. c = a \o b
        <5>1. 1 <= k /\ k + 1 <= n
          BY <4>1
        <5>2. f[k + 1] = f[k] \o parts[k + 1]
          BY <2>2, <5>1
        <5>3. QED
          BY <4>3, <4>4, <4>5, <5>2
      <4>8. PICK end : end = Len(a) + 1
        OBVIOUS
      <4>9. /\ c \in Text /\ Holds(c, 1, a) /\ Holds(c, end, b) /\ Len(a) \in Nat
            /\ Len(c) = Len(a) + Len(b) /\ Len(b) \in Nat
        BY <4>6, <4>7, <4>8, ConcatHolds
      <4>10. start[k + 1] = end
        BY <2>4, <4>1, <4>3, <4>8
      <4>11. ASSUME NEW i \in 1 .. k
             PROVE  /\ start[i] \in Nat \ {0} /\ Holds(c, start[i], parts[i])
                    /\ start[i + 1] = start[i] + Len(parts[i])
        <5>1. /\ start[i] \in Nat \ {0} /\ Holds(a, start[i], parts[i])
              /\ start[i + 1] = start[i] + Len(parts[i])
          BY <4>2, <4>3
        <5>2. parts[i] \in Text
          BY <1>2, <4>1
        <5>3. QED
          BY <4>6, <4>9, <5>1, <5>2, HoldsBefore
      <4>12. start[k + 1] \in Nat \ {0} /\ Holds(c, start[k + 1], parts[k + 1])
        BY <4>4, <4>8, <4>9, <4>10
      <4>13. start[k + 1 + 1] = start[k + 1] + Len(parts[k + 1])
        <5>1. start[k + 1 + 1] = Len(c) + 1
          BY <2>4, <4>1, <4>5
        <5>2. Len(c) + 1 = end + Len(b)
          BY <4>8, <4>9
        <5>3. QED
          BY <4>4, <4>10, <5>1, <5>2
      <4>14. \A i \in 1 .. k + 1 : i \in 1 .. k \/ i = k + 1
        OBVIOUS
      <4>15. \A i \in 1 .. k + 1 : /\ start[i] \in Nat \ {0} /\ Holds(c, start[i], parts[i])
                                   /\ start[i + 1] = start[i] + Len(parts[i])
        BY <4>11, <4>12, <4>13, <4>14
      <4>16. QED
        BY <4>5, <4>9, <4>15
    <3>4. QED
      BY <3>2, <3>3
  <2> HIDE DEF G
  <2>7. n \in G
    BY <1>2, <2>5, <2>6, NatSetInduction
  <2>8. P(n)
    BY <1>2, <1>4, <2>7 DEF G
  <2> HIDE DEF P
  <2>9. /\ t \in Text
        /\ \A i \in 1 .. n : /\ start[i] \in Nat \ {0} /\ Holds(t, start[i], parts[i])
                             /\ start[i + 1] = start[i] + Len(parts[i])
    BY <2>1, <2>8 DEF P
  <2>10. start[n + 1] = Len(t) + 1 /\ Len(t) \in Nat
    <3>1. n \in 1 .. n
      BY <1>2, <1>4
    <3>2. start[n + 1] = Len(f[n]) + 1
      BY <2>4, <3>1
    <3>3. Len(t) \in Nat
      BY <2>9, LenProperties, TextIs
    <3>4. QED
      BY <2>1, <3>2, <3>3
  <2>11. start \in [1 .. n + 1 -> Nat \ {0}]
    <3>1. \A i \in 1 .. n + 1 : i \in 1 .. n \/ i = n + 1
      BY <1>2
    <3>2. \A i \in 1 .. n + 1 : start[i] \in Nat \ {0}
      BY <2>9, <2>10, <3>1
    <3>3. DOMAIN start = 1 .. n + 1 /\ start = [i \in DOMAIN start |-> start[i]]
      BY <2>3
    <3>4. QED
      BY <3>2, <3>3
  <2>12. Starts(start, t, parts)
    BY <1>1, <2>4, <2>9, <2>10, <2>11 DEF Starts
  <2>13. QED
    BY <2>9, <2>12
<1>5. QED
  BY <1>3, <1>4

-----------------------------------------------------------------------------
(* Lines *)

\* What neither of two texts holds, their concatenation does not.
LEMMA WithoutConcat ==
    ASSUME NEW a \in Text, NEW b \in Text, NEW stops, Without(a, stops), Without(b, stops),
           NEW t, t = a \o b
    PROVE  t \in Text /\ Without(t, stops)
<1>1. Len(a) \in Nat /\ Len(b) \in Nat /\ DOMAIN a = 1 .. Len(a) /\ DOMAIN b = 1 .. Len(b)
  BY LenProperties, TextIs
<1>2. /\ t \in Text /\ Len(t) = Len(a) + Len(b)
      /\ \A k \in 1 .. Len(a) + Len(b) : t[k] = IF k <= Len(a) THEN a[k] ELSE b[k - Len(a)]
  BY ConcatProperties, TextIs
<1>3. DOMAIN t = 1 .. Len(t)
  BY <1>2, LenProperties, TextIs
<1>4. ASSUME NEW k \in 1 .. Len(t) PROVE t[k] \notin stops
  <2>1. CASE k <= Len(a)
    <3>1. t[k] = a[k] /\ k \in DOMAIN a
      BY <1>1, <1>2, <2>1
    <3>2. QED
      BY <3>1 DEF Without
  <2>2. CASE ~(k <= Len(a))
    <3>1. t[k] = b[k - Len(a)] /\ k - Len(a) \in DOMAIN b
      BY <1>1, <1>2, <2>2
    <3>2. QED
      BY <3>1 DEF Without
  <2>3. QED
    BY <2>1, <2>2
<1>5. QED
  BY <1>2, <1>3, <1>4 DEF Without

\* What stands in the tokens of the library's own.
LEMMA TokensWithout ==
    /\ Without(EqualSign, {"cr"}) /\ Without(PathFlag, {"cr"}) /\ Without(HttpOnlyFlag, {"cr"})
    /\ Without(SecureFlag, {"cr"}) /\ Without(<<>>, {"cr"})
    /\ Without(<<"Set-Cookie">>, {":"})
<1>1. Without(EqualSign, {"cr"})
  BY DEF Without, EqualSign
<1>2. Without(PathFlag, {"cr"})
  <2>1. DOMAIN PathFlag = 1 .. 4
    BY Tokens, LenProperties, TextIs
  <2>2. PathFlag[1] = ";" /\ PathFlag[2] = "sp" /\ PathFlag[3] = "Path" /\ PathFlag[4] = "="
    BY DEF PathFlag
  <2>3. \A i \in 1 .. 4 : i = 1 \/ i = 2 \/ i = 3 \/ i = 4
    OBVIOUS
  <2>4. QED
    BY <2>1, <2>2, <2>3 DEF Without
<1>3. Without(HttpOnlyFlag, {"cr"})
  <2>1. DOMAIN HttpOnlyFlag = 1 .. 3
    BY Tokens, LenProperties, TextIs
  <2>2. HttpOnlyFlag[1] = ";" /\ HttpOnlyFlag[2] = "sp" /\ HttpOnlyFlag[3] = "HttpOnly"
    BY DEF HttpOnlyFlag
  <2>3. \A i \in 1 .. 3 : i = 1 \/ i = 2 \/ i = 3
    OBVIOUS
  <2>4. QED
    BY <2>1, <2>2, <2>3 DEF Without
<1>4. Without(SecureFlag, {"cr"})
  <2>1. DOMAIN SecureFlag = 1 .. 3
    BY Tokens, LenProperties, TextIs
  <2>2. SecureFlag[1] = ";" /\ SecureFlag[2] = "sp" /\ SecureFlag[3] = "Secure"
    BY DEF SecureFlag
  <2>3. \A i \in 1 .. 3 : i = 1 \/ i = 2 \/ i = 3
    OBVIOUS
  <2>4. QED
    BY <2>1, <2>2, <2>3 DEF Without
<1>5. Without(<<>>, {"cr"})
  BY DEF Without
<1>6. Without(<<"Set-Cookie">>, {":"})
  BY DEF Without
<1>7. QED
  BY <1>1, <1>2, <1>3, <1>4, <1>5, <1>6

\* The text of a cookie is the value of a header.
LEMMA CookieIsValue ==
    ASSUME NEW cookie \in CookieType, IsCookie(cookie), NEW t, t = CookieText(cookie)
    PROVE  t \in Text /\ t # <<>> /\ Without(t, {"cr"}) /\ BeginsWithout(t, Space)
<1>1. /\ cookie.name \in Text /\ cookie.value \in Text /\ cookie.path \in Text
  BY DEF CookieType
<1>2. PICK name : name = cookie.name
  OBVIOUS
<1>3. /\ name \in Text /\ name # <<>> /\ Without(name, {"=", "cr"}) /\ BeginsWithout(name, Space)
      /\ Without(cookie.value, {";", "=", "cr"}) /\ Without(cookie.path, {";", "=", "cr"})
  BY <1>1, <1>2 DEF IsCookie
<1>4. /\ Without(name, {"cr"}) /\ Without(cookie.value, {"cr"}) /\ Without(cookie.path, {"cr"})
  BY <1>3 DEF Without
<1>5. PICK a : a = name \o EqualSign
  OBVIOUS
<1>6. PICK b : b = a \o cookie.value
  OBVIOUS
<1>7. PICK path : path = PathFlag \o cookie.path
  OBVIOUS
<1>8. PICK pathPart : pathPart = IF cookie.path = <<>> THEN <<>> ELSE path
  OBVIOUS
<1>9. PICK httpOnly : httpOnly = IF cookie.httpOnly THEN HttpOnlyFlag ELSE <<>>
  OBVIOUS
<1>10. PICK secure : secure = IF cookie.secure THEN SecureFlag ELSE <<>>
  OBVIOUS
<1>11. PICK c, d : c = b \o pathPart /\ d = c \o httpOnly
  OBVIOUS
<1>12. t = d \o secure
  BY <1>2, <1>5, <1>6, <1>7, <1>8, <1>9, <1>10, <1>11
     DEF CookieText, EqualSign, PathFlag, HttpOnlyFlag, SecureFlag
<1>13. a \in Text /\ Without(a, {"cr"})
  BY <1>3, <1>4, <1>5, Tokens, TokensWithout, WithoutConcat
<1>14. b \in Text /\ Without(b, {"cr"})
  BY <1>1, <1>4, <1>6, <1>13, WithoutConcat
<1>15. path \in Text /\ Without(path, {"cr"})
  BY <1>1, <1>4, <1>7, Tokens, TokensWithout, WithoutConcat
<1>16. pathPart \in Text /\ Without(pathPart, {"cr"})
  BY <1>8, <1>15, NoTokens, TokensWithout
<1>17. c \in Text /\ Without(c, {"cr"})
  BY <1>11, <1>14, <1>16, WithoutConcat
<1>18. httpOnly \in Text /\ Without(httpOnly, {"cr"})
  BY <1>9, Tokens, NoTokens, TokensWithout
<1>19. d \in Text /\ Without(d, {"cr"})
  BY <1>11, <1>17, <1>18, WithoutConcat
<1>20. secure \in Text /\ Without(secure, {"cr"})
  BY <1>10, Tokens, NoTokens, TokensWithout
<1>21. t \in Text /\ Without(t, {"cr"})
  BY <1>12, <1>19, <1>20, WithoutConcat
<1>22. Holds(t, 1, name)
  BY <1>2, CookieParts
<1>23. Len(name) \in Nat \ {0} /\ Len(t) \in Nat /\ DOMAIN name = 1 .. Len(name)
  BY <1>3, <1>21, LenProperties, EmptySeq, TextIs
<1>24. t # <<>> /\ t[1] = name[1] /\ 1 \in DOMAIN name
  <2>1. t[1] = name[1 + 1 - 1] /\ Len(t) # 0
    BY <1>22, <1>23 DEF Holds
  <2>2. QED
    BY <1>23, <2>1, NoTokens
<1>25. BeginsWithout(t, Space)
  BY <1>3, <1>24 DEF BeginsWithout
<1>26. QED
  BY <1>21, <1>24, <1>25

\* A line's name ends at the first ":", its value at the first "cr".
LEMMA LineIsLine ==
    ASSUME NEW line \in LineType, IsLine(line)
    PROVE  /\ line.name \in Text /\ line.name # <<>>
           /\ Without(line.name, {":"}) /\ BeginsWithout(line.name, Space)
           /\ line.value \in Text /\ line.value # <<>>
           /\ Without(line.value, {"cr"}) /\ BeginsWithout(line.value, Space)
<1>1. line.name \in Text /\ line.value \in Text /\ line.cookie \in CookieType
  BY DEF LineType
<1>2. CASE line = CookieLine(line.cookie) /\ IsCookie(line.cookie)
  <2>1. line.name = <<"Set-Cookie">> /\ line.value = CookieText(line.cookie)
    BY <1>2 DEF CookieLine
  <2>2. /\ line.value # <<>> /\ Without(line.value, {"cr"}) /\ BeginsWithout(line.value, Space)
    BY <1>1, <1>2, <2>1, CookieIsValue
  <2>3. /\ <<"Set-Cookie">> # <<>> /\ BeginsWithout(<<"Set-Cookie">>, Space)
    BY DEF BeginsWithout, Space
  <2>4. QED
    BY <1>1, <2>1, <2>2, <2>3, TokensWithout
<1>3. CASE ~(line = CookieLine(line.cookie) /\ IsCookie(line.cookie))
  BY <1>1, <1>3 DEF IsLine
<1>4. QED
  BY <1>2, <1>3

LineOf(name, value) == name \o Colon \o value \o NewLine

\* The parts of a line, for the lengths k and l of its name and its value.
LEMMA LineParts ==
    ASSUME NEW name \in Text, NEW value \in Text,
           NEW t, t = LineOf(name, value),
           NEW k, NEW l, k = Len(name), l = Len(value)
    PROVE  /\ t \in Text /\ Len(t) = k + l + 4 /\ k \in Nat /\ l \in Nat
           /\ Holds(t, 1, name) /\ Holds(t, k + 1, Colon)
           /\ Holds(t, k + 3, value) /\ Holds(t, k + l + 3, NewLine)
<1>1. k \in Nat /\ l \in Nat
  BY LenProperties, TextIs
<1>2. PICK a : a = name \o Colon
  OBVIOUS
<1>3. PICK b : b = a \o value
  OBVIOUS
<1>4. t = b \o NewLine
  BY <1>2, <1>3 DEF LineOf
<1>5. a \in Text /\ Len(a) = k + 2 /\ Holds(a, 1, name) /\ Holds(a, k + 1, Colon)
  <2>1. Colon \in Text /\ Len(Colon) = 2 /\ k + 1 = Len(name) + 1
    BY Tokens
  <2>2. a \in Text /\ Len(a) = Len(name) + Len(Colon) /\ Holds(a, 1, name) /\ Holds(a, k + 1, Colon)
    BY <1>2, <2>1, ConcatHolds
  <2>3. QED
    BY <2>1, <2>2
<1>6. b \in Text /\ Len(b) = k + l + 2 /\ Holds(b, 1, a) /\ Holds(b, k + 3, value)
  <2>1. k + 3 = Len(a) + 1
    BY <1>1, <1>5
  <2>2. b \in Text /\ Len(b) = Len(a) + Len(value) /\ Holds(b, 1, a) /\ Holds(b, k + 3, value)
    BY <1>3, <1>5, <2>1, ConcatHolds
  <2>3. Len(b) = (k + 2) + l
    BY <1>5, <2>2
  <2>4. Len(b) = k + l + 2
    BY <1>1, <2>3
  <2>5. QED
    BY <2>2, <2>4
<1>7. t \in Text /\ Len(t) = k + l + 4 /\ Holds(t, 1, b) /\ Holds(t, k + l + 3, NewLine)
  <2>1. NewLine \in Text /\ Len(NewLine) = 2
    BY Tokens
  <2>2. k + l + 3 = Len(b) + 1
    BY <1>1, <1>6
  <2>3. /\ t \in Text /\ Len(t) = Len(b) + Len(NewLine) /\ Holds(t, 1, b)
        /\ Holds(t, k + l + 3, NewLine)
    BY <1>4, <1>6, <2>1, <2>2, ConcatHolds
  <2>4. Len(t) = k + l + 2 + 2
    BY <1>6, <2>1, <2>3
  <2>5. Len(t) = k + l + 4
    BY <1>1, <2>4
  <2>6. QED
    BY <2>3, <2>5
<1>8. Holds(t, 1, a)
  BY <1>5, <1>6, <1>7, HoldsBefore
<1>9. Holds(t, 1, name) /\ Holds(t, k + 1, Colon)
  <2>1. Colon \in Text
    BY Tokens
  <2>2. QED
    BY <1>5, <1>7, <1>8, <2>1, HoldsBefore
<1>10. Holds(t, k + 3, value)
  BY <1>6, <1>7, HoldsBefore
<1>11. QED
  BY <1>1, <1>7, <1>9, <1>10

\* What a part begins with.
LEMMA HoldsFirst ==
    ASSUME NEW t \in Text, NEW s \in Text, NEW p, Holds(t, p, s), s # <<>>, NEW stops,
           BeginsWithout(s, stops)
    PROVE  p \in Nat /\ p <= Len(t) /\ t[p] = s[1] /\ t[p] \notin stops
<1>1. Len(s) \in Nat \ {0} /\ Len(t) \in Nat
  BY LenProperties, EmptySeq, TextIs
<1>2. p \in Nat /\ p <= Len(t) /\ p < p + Len(s) /\ p + 1 - p = 1
  BY <1>1 DEF Holds
<1>3. t[p] = s[p + 1 - p]
  BY <1>2 DEF Holds
<1>4. QED
  BY <1>2, <1>3 DEF BeginsWithout

\* The positions of a turn of the loop over a line that begins at s.
LEMMA LinePositions ==
    ASSUME NEW t \in Text, NEW name \in Text, NEW value \in Text,
           NEW u, u = LineOf(name, value), NEW s, Holds(t, s, u),
           NEW next, next = s + Len(u)
    PROVE  \E p1, p2, p3, p4 :
               /\ s \in Nat \ {0} /\ p1 \in Nat /\ p2 \in Nat /\ p3 \in Nat /\ p4 \in Nat
               /\ p1 = s + Len(name) /\ p2 = p1 + 1 + 1 /\ p3 = p2 + Len(value)
               /\ p4 = p3 + 1 /\ next = p4 + 1 /\ next <= Len(t) + 1
               /\ s <= p1 /\ p2 <= p3
               /\ Holds(t, s, name) /\ t[p1] = ":" /\ t[p1 + 1] = "sp"
               /\ Holds(t, p2, value) /\ t[p3] = "cr" /\ t[p4] = "lf"
<1>1. PICK k : k = Len(name)
  OBVIOUS
<1>2. PICK l : l = Len(value)
  OBVIOUS
<1>3. /\ u \in Text /\ Len(u) = k + l + 4 /\ k \in Nat /\ l \in Nat
      /\ Holds(u, 1, name) /\ Holds(u, k + 1, Colon)
      /\ Holds(u, k + 3, value) /\ Holds(u, k + l + 3, NewLine)
  BY <1>1, <1>2, LineParts
<1>4. s \in Nat \ {0} /\ s + Len(u) <= Len(t) + 1
  BY DEF Holds
<1>5. PICK p1 : p1 = s + k
  OBVIOUS
<1>6. PICK p2 : p2 = s + k + 2
  OBVIOUS
<1>7. PICK p3 : p3 = s + k + l + 2
  OBVIOUS
<1>8. PICK p4 : p4 = s + k + l + 3
  OBVIOUS
<1>9. k \in Nat /\ l \in Nat /\ s \in Nat \ {0}
  BY <1>3, <1>4
<1>10. next = s + (k + l + 4)
  BY <1>3
<1>11. /\ p1 \in Nat /\ p2 \in Nat /\ p3 \in Nat /\ p4 \in Nat
       /\ p2 = p1 + 1 + 1 /\ p3 = p2 + l /\ p4 = p3 + 1 /\ next = p4 + 1 /\ s <= p1 /\ p2 <= p3
  BY <1>5, <1>6, <1>7, <1>8, <1>9, <1>10
<1>12. Holds(t, s, name)
  <2>1. s = s + 1 - 1
    BY <1>9
  <2>2. QED
    BY <1>3, <2>1, HoldsInside
<1>13. t[p1] = ":" /\ t[p1 + 1] = "sp"
  <2>1. p1 = s + (k + 1) - 1
    BY <1>5, <1>9
  <2>2. Colon \in Text
    BY Tokens
  <2>3. Holds(t, p1, Colon)
    BY <1>3, <2>1, <2>2, HoldsInside
  <2>4. Holds(t, p1, <<":", "sp">>)
    BY <2>3 DEF Colon
  <2>5. QED
    BY <2>4, TwoTokens
<1>14. Holds(t, p2, value)
  <2>1. p2 = s + (k + 3) - 1
    BY <1>6, <1>9
  <2>2. QED
    BY <1>3, <2>1, HoldsInside
<1>15. t[p3] = "cr" /\ t[p4] = "lf"
  <2>1. p3 = s + (k + l + 3) - 1
    BY <1>7, <1>9
  <2>2. NewLine \in Text
    BY Tokens
  <2>3. Holds(t, p3, NewLine)
    BY <1>3, <2>1, <2>2, HoldsInside
  <2>4. Holds(t, p3, <<"cr", "lf">>)
    BY <2>3 DEF NewLine
  <2>5. t[p3] = "cr" /\ t[p3 + 1] = "lf"
    BY <2>4, TwoTokens
  <2>6. QED
    BY <1>11, <2>5
<1>16. next <= Len(t) + 1
  BY <1>4
<1>17. p1 = s + Len(name) /\ p3 = p2 + Len(value)
  BY <1>1, <1>2, <1>5, <1>11
<1>18. QED
  BY <1>9, <1>11, <1>12, <1>13, <1>14, <1>15, <1>16, <1>17

\* What a turn of the loop reads there.
LEMMA ReadLine ==
    ASSUME NEW t \in Text, NEW name \in Text, NEW value \in Text,
           name # <<>>, Without(name, {":"}), BeginsWithout(name, Space),
           value # <<>>, Without(value, {"cr"}), BeginsWithout(value, Space),
           NEW u, u = LineOf(name, value), NEW s, Holds(t, s, u),
           NEW next, next = s + Len(u), next <= Len(t), t[next] \notin Space \ {"cr"}
    PROVE  /\ s \in Nat \ {0} /\ s <= Len(t) /\ t[s] \notin Space
           /\ \E nameEnd, start, end :
                 /\ Until(t, s, {":"}) = nameEnd
                 /\ While(t, After(t, nameEnd), Space) = start
                 /\ Until(t, start, {"cr"}) = end
                 /\ SubSeq(t, s, nameEnd - 1) = name
                 /\ SubSeq(t, start, end - 1) = value
                 /\ CrLf(t, end) = next
<1>1. PICK p1, p2, p3, p4 :
               /\ s \in Nat \ {0} /\ p1 \in Nat /\ p2 \in Nat /\ p3 \in Nat /\ p4 \in Nat
               /\ p1 = s + Len(name) /\ p2 = p1 + 1 + 1 /\ p3 = p2 + Len(value)
               /\ p4 = p3 + 1 /\ next = p4 + 1 /\ next <= Len(t) + 1
               /\ s <= p1 /\ p2 <= p3
               /\ Holds(t, s, name) /\ t[p1] = ":" /\ t[p1 + 1] = "sp"
               /\ Holds(t, p2, value) /\ t[p3] = "cr" /\ t[p4] = "lf"
  BY LinePositions
<1>2. Len(t) \in Nat
  BY LenProperties, TextIs
<1>3. /\ s <= Len(t) /\ p1 <= Len(t) /\ p1 + 1 <= Len(t) /\ p2 <= Len(t) /\ p3 <= Len(t)
      /\ p4 <= Len(t) /\ p1 + 1 \in Nat /\ p3 + 1 \in Nat
  BY <1>1, <1>2
<1>4. t[s] \notin Space
  BY <1>1, HoldsFirst
<1>5. t[p2] \notin Space
  BY <1>1, HoldsFirst
<1>6. Until(t, s, {":"}) = p1 /\ SubSeq(t, s, p1 - 1) = name
  <2>1. Holds(t, s, name) /\ p1 = s + Len(name) /\ t[p1] \in {":"}
    BY <1>1
  <2>2. Until(t, s, {":"}) = p1
    BY <2>1, UntilPart
  <2>3. SubSeq(t, s, p1 - 1) = name
    BY <2>1, HeldSubSeq
  <2>4. QED
    BY <2>2, <2>3
<1>7. While(t, After(t, p1), Space) = p2
  <2>1. After(t, p1) = p1 + 1
    BY <1>3 DEF After
  <2>2. t[p1 + 1] \in Space /\ p2 = p1 + 1 + 1
    BY <1>1 DEF Space
  <2>3. While(t, p1 + 1, Space) = p2
    BY <1>3, <1>5, <2>2, WhileOne
  <2>4. QED
    BY <2>1, <2>3
<1>8. Until(t, p2, {"cr"}) = p3 /\ SubSeq(t, p2, p3 - 1) = value
  <2>1. Holds(t, p2, value) /\ p3 = p2 + Len(value) /\ t[p3] \in {"cr"}
    BY <1>1
  <2>2. Until(t, p2, {"cr"}) = p3
    BY <2>1, UntilPart
  <2>3. SubSeq(t, p2, p3 - 1) = value
    BY <2>1, HeldSubSeq
  <2>4. QED
    BY <2>2, <2>3
<1>9. CrLf(t, p3) = next
  <2>1. Until(t, p3, {"cr"}) = p3
    <3>1. \A k \in Nat : p3 <= k /\ k < p3 => t[k] \notin {"cr"}
      BY <1>1
    <3>2. p3 <= p3 /\ p3 <= Len(t) + 1 /\ t[p3] \in {"cr"}
      BY <1>1, <1>2, <1>3
    <3>3. QED
      BY <1>1, <1>2, <3>1, <3>2, UntilAt
  <2>2. After(t, p3) = p4
    BY <1>1, <1>3 DEF After
  <2>3. t[p4] \in Space \ {"cr"}
    BY <1>1 DEF Space
  <2>4. While(t, p4, Space \ {"cr"}) = next
    BY <1>1, <1>3, <2>3, WhileOne
  <2>5. QED
    BY <2>1, <2>2, <2>4 DEF CrLf
<1>10. QED
  BY <1>1, <1>3, <1>4, <1>6, <1>7, <1>8, <1>9

\* A token of a part is a token of the text the part stands in.
LEMMA TokenHeld ==
    ASSUME NEW t \in Text, NEW p \in Nat \ {0}, p <= Len(t), NEW x, x = t[p]
    PROVE  /\ <<x>> \in Text /\ Holds(t, p, <<x>>) /\ p + 1 = p + Len(<<x>>)
<1>1. Len(t) \in Nat
  BY LenProperties, TextIs
<1>2. x \in Token
  <2>1. p \in 1 .. Len(t)
    BY <1>1
  <2>2. QED
    BY <2>1, ElementOfSeq, TextIs
<1>3. PICK s : s = <<x>>
  OBVIOUS
<1>4. s \in Text /\ Len(s) = 1 /\ s[1] = x
  BY <1>2, <1>3, TextIs
<1>5. Holds(t, p, s)
  <2>1. ASSUME NEW k \in Nat, p <= k, k < p + Len(s) PROVE t[k] = s[k + 1 - p]
    <3>1. k = p /\ k + 1 - p = 1
      BY <1>4, <2>1
    <3>2. QED
      BY <1>4, <3>1
  <2>2. p + Len(s) <= Len(t) + 1
    BY <1>1, <1>4
  <2>3. QED
    BY <2>1, <2>2 DEF Holds
<1>6. p + 1 = p + Len(s)
  BY <1>4
<1>7. QED
  BY <1>3, <1>4, <1>5, <1>6

LEMMA HeldToItsEnd ==
    ASSUME NEW t \in Text, NEW s \in Text, NEW p, Holds(t, p, s)
    PROVE  SubSeq(t, p, p + Len(s) - 1) = s
<1>1. PICK end : end = p + Len(s)
  OBVIOUS
<1>2. SubSeq(t, p, end - 1) = s
  BY <1>1, HeldSubSeq
<1>3. Len(s) \in Nat /\ p \in Nat
  BY LenProperties, TextIs DEF Holds
<1>4. end - 1 = p + Len(s) - 1
  BY <1>1, <1>3
<1>5. QED
  BY <1>2, <1>4

LEMMA OneToken ==
    ASSUME NEW t \in Text, NEW p, p \in Nat \ {0} /\ p <= Len(t)
    PROVE  SubSeq(t, p, p) = <<t[p]>>
<1>1. PICK x : x = t[p]
  OBVIOUS
<1>2. PICK s : s = <<x>>
  OBVIOUS
<1>3. s \in Text /\ Holds(t, p, s) /\ p + 1 = p + Len(s)
  BY <1>1, <1>2, TokenHeld
<1>4. SubSeq(t, p, p + Len(s) - 1) = s
  BY <1>3, HeldToItsEnd
<1>5. p + Len(s) - 1 = p
  <2>1. p + 1 - 1 = p
    OBVIOUS
  <2>2. QED
    BY <1>3, <2>1
<1>6. QED
  BY <1>1, <1>2, <1>4, <1>5

\* Version and code are read, and the line is left at the first header.
LEMMA StatusLineRead ==
    ASSUME NEW t \in Text, Holds(t, 1, StatusLineText), 8 <= Len(t),
           t[8] \notin Space \ {"cr"}
    PROVE  /\ Word(t, 1) = <<"HTTP/1.1">> /\ NextWord(t, 1) = 3 /\ NextWord(t, 3) = 5
           /\ Until(t, 5, {"cr"}) = 6 /\ CrLf(t, 6) = 8
<1>1. Len(t) \in Nat
  BY LenProperties, TextIs
<1>2. /\ t[1] = "HTTP/1.1" /\ t[2] = "sp" /\ t[3] = "200" /\ t[4] = "sp"
      /\ t[5] = "OK" /\ t[6] = "cr" /\ t[7] = "lf"
  <2>1. Len(StatusLineText) = 7
    BY DEF StatusLineText
  <2>2. \A k \in Nat : 1 <= k /\ k < 8 => t[k] = StatusLineText[k]
    <3>1. ASSUME NEW k \in Nat, 1 <= k, k < 8 PROVE t[k] = StatusLineText[k]
      <4>1. k < 1 + Len(StatusLineText) /\ k + 1 - 1 = k
        BY <2>1, <3>1
      <4>2. t[k] = StatusLineText[k + 1 - 1]
        BY <3>1, <4>1 DEF Holds
      <4>3. QED
        BY <4>1, <4>2
    <3>2. QED
      BY <3>1
  <2>3. /\ StatusLineText[1] = "HTTP/1.1" /\ StatusLineText[2] = "sp" /\ StatusLineText[3] = "200"
        /\ StatusLineText[4] = "sp" /\ StatusLineText[5] = "OK" /\ StatusLineText[6] = "cr"
        /\ StatusLineText[7] = "lf"
    BY DEF StatusLineText
  <2>4. QED
    BY <2>2, <2>3
<1>3. /\ t[1] \notin Space /\ t[2] \in Space /\ t[3] \notin Space /\ t[4] \in Space
      /\ t[5] \notin Space /\ t[5] \notin {"cr"} /\ t[6] \in {"cr"} /\ t[7] \in Space \ {"cr"}
  BY <1>2 DEF Space
<1>4. \A k \in Nat : /\ 1 <= k /\ k < 2 => k = 1
                     /\ 3 <= k /\ k < 4 => k = 3
                     /\ 5 <= k /\ k < 6 => k = 5
                     /\ ~(6 <= k /\ k < 6)
  OBVIOUS
<1>5. Until(t, 1, Space) = 2
  BY <1>1, <1>3, <1>4, UntilAt
<1>6. Until(t, 3, Space) = 4
  BY <1>1, <1>3, <1>4, UntilAt
<1>7. Until(t, 5, {"cr"}) = 6
  BY <1>1, <1>3, <1>4, UntilAt
<1>8. Until(t, 6, {"cr"}) = 6
  BY <1>1, <1>3, <1>4, UntilAt
<1>9. While(t, 2, Space) = 3
  <2>1. 2 <= Len(t) /\ 3 = 2 + 1
    OBVIOUS
  <2>2. QED
    BY <1>3, <2>1, WhileOne
<1>10. While(t, 4, Space) = 5
  <2>1. 4 <= Len(t) /\ 5 = 4 + 1
    OBVIOUS
  <2>2. QED
    BY <1>3, <2>1, WhileOne
<1>11. While(t, 7, Space \ {"cr"}) = 8
  <2>1. 7 <= Len(t) /\ 8 = 7 + 1
    OBVIOUS
  <2>2. QED
    BY <1>3, <2>1, WhileOne
<1>12. After(t, 6) = 7
  BY <1>1 DEF After
<1>13. Word(t, 1) = <<"HTTP/1.1">>
  <2>1. SubSeq(t, 1, 1) = <<t[1]>>
    <3>1. 1 \in Nat \ {0} /\ 1 <= Len(t)
      BY <1>1
    <3>2. QED
      BY <3>1, OneToken
  <2>2. Word(t, 1) = SubSeq(t, 1, 1)
    <3>1. 2 - 1 = 1
      OBVIOUS
    <3>2. QED
      BY <1>5, <3>1 DEF Word
  <2>3. QED
    BY <1>2, <2>1, <2>2
<1>14. NextWord(t, 1) = 3 /\ NextWord(t, 3) = 5
  BY <1>5, <1>6, <1>9, <1>10 DEF NextWord
<1>15. CrLf(t, 6) = 8
  BY <1>8, <1>11, <1>12 DEF CrLf
<1>16. QED
  BY <1>7, <1>13, <1>14, <1>15

\* The text of a message with the lines and the body: start[i] is where line i
\* begins, and the last where the empty line does.
Begins(start, t, lines, body) ==
    /\ start \in [1 .. Len(lines) + 1 -> Nat \ {0}] /\ start[1] = 8
    /\ \A i \in 1 .. Len(lines) :
          start[i + 1] = start[i] + Len(LineText(lines[i])) /\ Holds(t, start[i], LineText(lines[i]))
    /\ Holds(t, start[Len(lines) + 1], NewLine)
    /\ Holds(t, start[Len(lines) + 1] + 2, body)
    /\ Len(t) = start[Len(lines) + 1] + 1 + Len(body)

LineTexts(lines) == [i \in DOMAIN lines |-> LineText(lines[i])]

LEMMA LineTextIs ==
    ASSUME NEW line \in LineType
    PROVE  /\ LineText(line) = LineOf(line.name, line.value) /\ LineText(line) \in Text
<1>1. LineText(line) = LineOf(line.name, line.value)
  BY DEF LineText, LineOf, Colon, NewLine
<1>2. PICK name : name = line.name
  OBVIOUS
<1>3. PICK value : value = line.value
  OBVIOUS
<1>4. name \in Text /\ value \in Text
  BY <1>2, <1>3 DEF LineType
<1>5. PICK u : u = LineOf(name, value)
  OBVIOUS
<1>6. u \in Text
  BY <1>4, <1>5, LineParts
<1>7. QED
  BY <1>1, <1>2, <1>3, <1>5, <1>6

LEMMA LineTextsAre ==
    ASSUME NEW lines \in Seq(LineType)
    PROVE  /\ Len(lines) \in Nat /\ DOMAIN lines = 1 .. Len(lines)
           /\ LineTexts(lines) \in Seq(Text) /\ Len(LineTexts(lines)) = Len(lines)
           /\ \A i \in 1 .. Len(lines) : LineTexts(lines)[i] = LineText(lines[i])
<1>1. PICK n : n = Len(lines)
  OBVIOUS
<1>2. n \in Nat /\ DOMAIN lines = 1 .. n /\ \A i \in 1 .. n : lines[i] \in LineType
  BY <1>1, LenProperties, ElementOfSeq
<1>3. LineTexts(lines) = [i \in 1 .. n |-> LineText(lines[i])]
  BY <1>2 DEF LineTexts
<1>4. \A i \in 1 .. n : LineText(lines[i]) \in Text
  BY <1>2, LineTextIs
<1>5. LineTexts(lines) \in [1 .. n -> Text]
  BY <1>3, <1>4
<1>6. LineTexts(lines) \in Seq(Text) /\ Len(LineTexts(lines)) = n
  BY <1>2, <1>5
<1>7. QED
  BY <1>1, <1>2, <1>3, <1>6

LEMMA StatusLineIsText == StatusLineText \in Text /\ Len(StatusLineText) = 7
<1>1. /\ "HTTP/1.1" \in Token /\ "sp" \in Token /\ "200" \in Token /\ "OK" \in Token
      /\ "cr" \in Token /\ "lf" \in Token
  BY DEF Token, Words, Space
<1>2. QED
  BY <1>1, TextIs DEF StatusLineText

\* Where the lines and the body of a message are in its text.
LEMMA MessageParts ==
    ASSUME NEW lines \in Seq(LineType), NEW body \in Text,
           NEW t, t = StatusLineText \o FlattenSeq(LineTexts(lines)) \o NewLine \o body
    PROVE  /\ t \in Text /\ Holds(t, 1, StatusLineText)
           /\ \E start : Begins(start, t, lines, body)
<1>1. PICK parts : parts = LineTexts(lines)
  OBVIOUS
<1>2. PICK n : n = Len(lines)
  OBVIOUS
<1>3. /\ n \in Nat /\ parts \in Seq(Text) /\ Len(parts) = n
      /\ \A i \in 1 .. n : parts[i] = LineText(lines[i]) /\ parts[i] \in Text
  <2>1. /\ n \in Nat /\ parts \in Seq(Text) /\ Len(parts) = n
        /\ \A i \in 1 .. n : parts[i] = LineText(lines[i])
    BY <1>1, <1>2, LineTextsAre
  <2>2. \A i \in 1 .. n : parts[i] \in Text
    BY <2>1, ElementOfSeq
  <2>3. QED
    BY <2>1, <2>2
<1>4. PICK f : f = FlattenSeq(parts)
  OBVIOUS
<1>5. f \in Text /\ \E at : Starts(at, f, parts)
  BY <1>3, <1>4, FlattenParts
<1>6. PICK at : Starts(at, f, parts)
  BY <1>5
<1>7. PICK e : e = at[n + 1]
  OBVIOUS
<1>8. /\ at \in [1 .. n + 1 -> Nat \ {0}] /\ at[1] = 1
      /\ \A i \in 1 .. n : at[i + 1] = at[i] + Len(parts[i]) /\ Holds(f, at[i], parts[i])
      /\ Len(f) = e - 1
  BY <1>3, <1>6, <1>7 DEF Starts
<1>9. e \in Nat \ {0}
  <2>1. n + 1 \in 1 .. n + 1
    BY <1>3
  <2>2. QED
    BY <1>7, <1>8, <2>1
<1>10. PICK s : s = StatusLineText
  OBVIOUS
<1>11. PICK a : a = s \o f
  OBVIOUS
<1>12. PICK b : b = a \o NewLine
  OBVIOUS
<1>13. PICK w : w = NewLine
  OBVIOUS
<1>14. t = b \o body /\ b = a \o w
  BY <1>1, <1>4, <1>10, <1>11, <1>12, <1>13
<1>15. s \in Text /\ Len(s) = 7 /\ w \in Text /\ Len(w) = 2
  BY <1>10, <1>13, StatusLineIsText, Tokens
<1>16. a \in Text /\ Len(a) = e + 6 /\ Holds(a, 1, s) /\ Holds(a, 8, f)
  <2>1. 8 = Len(s) + 1
    BY <1>15
  <2>2. a \in Text /\ Len(a) = Len(s) + Len(f) /\ Holds(a, 1, s) /\ Holds(a, 8, f)
    BY <1>5, <1>11, <1>15, <2>1, ConcatHolds
  <2>3. Len(a) = 7 + (e - 1)
    BY <1>8, <1>15, <2>2
  <2>4. Len(a) = e + 6
    BY <1>9, <2>3
  <2>5. QED
    BY <2>2, <2>4
<1>17. PICK z : z = e + 7
  OBVIOUS
<1>18. PICK y : y = e + 9
  OBVIOUS
<1>19. z \in Nat /\ y \in Nat /\ y = z + 2
  BY <1>9, <1>17, <1>18
<1>20. b \in Text /\ Len(b) = z + 1 /\ Holds(b, 1, a) /\ Holds(b, z, w)
  <2>1. z = Len(a) + 1
    BY <1>9, <1>16, <1>17
  <2>2. b \in Text /\ Len(b) = Len(a) + Len(w) /\ Holds(b, 1, a) /\ Holds(b, z, w)
    BY <1>14, <1>15, <1>16, <2>1, ConcatHolds
  <2>3. Len(b) = e + 6 + 2
    BY <1>15, <1>16, <2>2
  <2>4. Len(b) = z + 1
    BY <1>9, <1>17, <2>3
  <2>5. QED
    BY <2>2, <2>4
<1>21. t \in Text /\ Len(t) = z + 1 + Len(body) /\ Holds(t, 1, b) /\ Holds(t, y, body)
  <2>1. y = Len(b) + 1
    BY <1>19, <1>20
  <2>2. t \in Text /\ Len(t) = Len(b) + Len(body) /\ Holds(t, 1, b) /\ Holds(t, y, body)
    BY <1>14, <1>20, <2>1, ConcatHolds
  <2>3. QED
    BY <1>20, <2>2
<1>22. Holds(t, 1, a) /\ Holds(t, z, w)
  BY <1>15, <1>16, <1>20, <1>21, HoldsBefore
<1>23. Holds(t, 1, s) /\ Holds(t, 8, f)
  BY <1>5, <1>15, <1>16, <1>21, <1>22, HoldsBefore
<1>24. PICK start : start = [i \in 1 .. n + 1 |-> at[i] + 7]
  OBVIOUS
<1>25. start \in [1 .. n + 1 -> Nat \ {0}]
  <2>1. \A i \in 1 .. n + 1 : at[i] + 7 \in Nat \ {0}
    BY <1>8
  <2>2. QED
    BY <1>24, <2>1
<1>26. start[1] = 8 /\ start[n + 1] = z
  <2>1. 1 \in 1 .. n + 1 /\ n + 1 \in 1 .. n + 1
    BY <1>3
  <2>2. start[1] = at[1] + 7 /\ start[n + 1] = e + 7
    BY <1>7, <1>24, <2>1
  <2>3. QED
    BY <1>8, <1>17, <2>2
<1>27. ASSUME NEW i \in 1 .. n
       PROVE  /\ start[i + 1] = start[i] + Len(LineText(lines[i]))
              /\ Holds(t, start[i], LineText(lines[i]))
  <2>1. PICK u : u = parts[i]
    OBVIOUS
  <2>2. u = LineText(lines[i]) /\ u \in Text
    BY <1>3, <2>1
  <2>3. PICK p : p = at[i]
    OBVIOUS
  <2>4. PICK o : o = p + 7
    OBVIOUS
  <2>5. i \in 1 .. n + 1 /\ i + 1 \in 1 .. n + 1
    BY <1>3
  <2>6. start[i] = o /\ start[i + 1] = at[i + 1] + 7
    BY <1>24, <2>3, <2>4, <2>5
  <2>7. at[i + 1] = p + Len(u) /\ Holds(f, p, u)
    BY <1>8, <2>1, <2>3
  <2>8. p \in Nat /\ Len(u) \in Nat
    BY <2>2, <2>7, LenProperties, TextIs DEF Holds
  <2>9. o = 8 + p - 1
    BY <2>4, <2>8
  <2>10. Holds(t, o, u)
    BY <1>5, <1>21, <1>23, <2>2, <2>7, <2>9, HoldsInside
  <2>11. start[i + 1] = o + Len(u)
    BY <2>4, <2>6, <2>7, <2>8
  <2>12. QED
    BY <2>2, <2>6, <2>10, <2>11
<1>28. start[n + 1] + 2 = y /\ start[n + 1] + 1 = z + 1
  BY <1>19, <1>26
<1>29. /\ Holds(t, start[n + 1], NewLine) /\ Holds(t, start[n + 1] + 2, body)
       /\ Len(t) = start[n + 1] + 1 + Len(body)
  BY <1>13, <1>21, <1>22, <1>26, <1>28
<1>30. Begins(start, t, lines, body)
  BY <1>2, <1>25, <1>26, <1>27, <1>29 DEF Begins
<1>31. QED
  BY <1>10, <1>21, <1>23, <1>30

-----------------------------------------------------------------------------
(* The turns of the loop over a message's lines *)

\* No line begins with white space, so none ends the headers.
LEMMA LineBegins ==
    ASSUME NEW t \in Text, NEW line \in LineType, IsLine(line), NEW s, Holds(t, s, LineText(line))
    PROVE  s \in Nat \ {0} /\ s <= Len(t) /\ t[s] \notin Space
<1>1. PICK name : name = line.name
  OBVIOUS
<1>2. PICK value : value = line.value
  OBVIOUS
<1>3. name \in Text /\ value \in Text /\ name # <<>> /\ BeginsWithout(name, Space)
  BY <1>1, <1>2, LineIsLine
<1>4. PICK u : u = LineOf(name, value)
  OBVIOUS
<1>5. Holds(t, s, u)
  BY <1>1, <1>2, <1>4, LineTextIs
<1>6. PICK k : k = Len(name)
  OBVIOUS
<1>7. PICK l : l = Len(value)
  OBVIOUS
<1>8. u \in Text /\ Holds(u, 1, name)
  BY <1>3, <1>4, <1>6, <1>7, LineParts
<1>9. s \in Nat \ {0} /\ s = s + 1 - 1
  BY <1>5 DEF Holds
<1>10. Holds(t, s, name)
  BY <1>3, <1>5, <1>8, <1>9, HoldsInside
<1>11. s <= Len(t) /\ t[s] \notin Space
  BY <1>3, <1>10, HoldsFirst
<1>12. QED
  BY <1>9, <1>11

\* A turn that begins at s reads the line and ends at next.
TurnReads(t, s, line, next) ==
    \E nameEnd, start, end :
        /\ Until(t, s, {":"}) = nameEnd
        /\ While(t, After(t, nameEnd), Space) = start
        /\ Until(t, start, {"cr"}) = end
        /\ SubSeq(t, s, nameEnd - 1) = line.name
        /\ SubSeq(t, start, end - 1) = line.value
        /\ CrLf(t, end) = next

\* A turn of the loop over headers reads the line it is at, and stops at the next.
LEMMA LineTurn ==
    ASSUME NEW t \in Text, NEW line \in LineType, IsLine(line), NEW s, Holds(t, s, LineText(line)),
           NEW next, next = s + Len(LineText(line)), next <= Len(t), t[next] \notin Space \ {"cr"}
    PROVE  TurnReads(t, s, line, next)
<1>1. PICK name : name = line.name
  OBVIOUS
<1>2. PICK value : value = line.value
  OBVIOUS
<1>3. /\ name \in Text /\ name # <<>> /\ Without(name, {":"}) /\ BeginsWithout(name, Space)
      /\ value \in Text /\ value # <<>> /\ Without(value, {"cr"}) /\ BeginsWithout(value, Space)
  BY <1>1, <1>2, LineIsLine
<1>4. PICK u : u = LineOf(name, value)
  OBVIOUS
<1>5. Holds(t, s, u) /\ next = s + Len(u)
  BY <1>1, <1>2, <1>4, LineTextIs
<1>6. \E nameEnd, start, end :
          /\ Until(t, s, {":"}) = nameEnd
          /\ While(t, After(t, nameEnd), Space) = start
          /\ Until(t, start, {"cr"}) = end
          /\ SubSeq(t, s, nameEnd - 1) = name
          /\ SubSeq(t, start, end - 1) = value
          /\ CrLf(t, end) = next
  BY <1>3, <1>4, <1>5, ReadLine
<1>7. QED
  BY <1>1, <1>2, <1>6 DEF TurnReads

\* From the empty line at i, what is left is the body.
BodyAt(t, i, body) == SubSeq(t, CrLf(t, i), Len(t)) = body

\* What each turn of the loop reads of a message, and that the body is what is left.
LEMMA MessageTurns ==
    ASSUME NEW lines \in Seq(LineType), \A i \in DOMAIN lines : IsLine(lines[i]),
           NEW body \in Text, BeginsWithout(body, Space \ {"cr"}),
           NEW t \in Text, NEW start, Begins(start, t, lines, body)
    PROVE  /\ \A i \in 1 .. Len(lines) :
                 /\ start[i] <= Len(t) /\ t[start[i]] # "cr"
                 /\ TurnReads(t, start[i], lines[i], start[i + 1])
           /\ t[start[Len(lines) + 1]] = "cr"
           /\ BodyAt(t, start[Len(lines) + 1], body)
           /\ 8 <= Len(t) /\ t[8] \notin Space \ {"cr"}
<1>1. PICK n : n = Len(lines)
  OBVIOUS
<1>2. n \in Nat /\ DOMAIN lines = 1 .. n /\ \A i \in 1 .. n : lines[i] \in LineType /\ IsLine(lines[i])
  BY <1>1, LenProperties, ElementOfSeq
<1>3. PICK z : z = start[n + 1]
  OBVIOUS
<1>4. PICK y : y = z + 2
  OBVIOUS
<1>5. PICK b : b = Len(body)
  OBVIOUS
<1>6. b \in Nat /\ Len(t) \in Nat
  BY <1>5, LenProperties, TextIs
<1>7. Holds(t, z, NewLine) /\ Holds(t, y, body) /\ Len(t) = z + 1 + b
  BY <1>1, <1>3, <1>4, <1>5 DEF Begins
<1>8. z \in Nat \ {0} /\ y \in Nat \ {0}
  BY <1>7 DEF Holds
<1>9. PICK x : x = z + 1
  OBVIOUS
<1>10. t[z] = "cr" /\ t[x] = "lf"
  <2>1. Holds(t, z, <<"cr", "lf">>)
    BY <1>7 DEF NewLine
  <2>2. t[z] = "cr" /\ t[z + 1] = "lf"
    BY <2>1, TwoTokens
  <2>3. QED
    BY <1>9, <2>2
<1>11. /\ x \in Nat /\ y = x + 1 /\ z <= Len(t) /\ x <= Len(t) /\ z <= Len(t) + 1
       /\ Len(t) = x + b
  BY <1>4, <1>6, <1>7, <1>8, <1>9
<1>12. y = Len(t) + 1 \/ t[y] \notin Space \ {"cr"}
  <2>1. CASE body = <<>>
    <3>1. b = 0
      BY <1>5, <2>1, NoTokens
    <3>2. QED
      BY <1>11, <3>1
  <2>2. CASE body # <<>>
    BY <1>7, <2>2, HoldsFirst
  <2>3. QED
    BY <2>1, <2>2
<1>13. CrLf(t, z) = y
  <2>1. Until(t, z, {"cr"}) = z
    <3>1. \A k \in Nat : z <= k /\ k < z => t[k] \notin {"cr"}
      BY <1>8
    <3>2. z <= z /\ t[z] \in {"cr"}
      BY <1>8, <1>10
    <3>3. QED
      BY <1>6, <1>8, <1>11, <3>1, <3>2, UntilAt
  <2>2. After(t, z) = x
    BY <1>9, <1>11 DEF After
  <2>3. t[x] \in Space \ {"cr"}
    BY <1>10 DEF Space
  <2>4. While(t, x, Space \ {"cr"}) = y
    BY <1>11, <1>12, <2>3, WhileOne
  <2>5. QED
    BY <2>1, <2>2, <2>4 DEF CrLf
<1>14. BodyAt(t, z, body)
  <2>1. SubSeq(t, y, y + Len(body) - 1) = body
    BY <1>7, HeldToItsEnd
  <2>2. y + b - 1 = Len(t)
    BY <1>6, <1>8, <1>11
  <2>3. SubSeq(t, y, Len(t)) = body
    BY <1>5, <2>1, <2>2
  <2>4. QED
    BY <1>13, <2>3 DEF BodyAt
<1>15. \A i \in 1 .. n : start[i + 1] = start[i] + Len(LineText(lines[i])) /\ Holds(t, start[i], LineText(lines[i]))
  BY <1>1 DEF Begins
<1>16. \A i \in 1 .. n : start[i] <= Len(t) /\ t[start[i]] \notin Space
  BY <1>2, <1>15, LineBegins
<1>17. \A i \in 1 .. n + 1 : start[i] <= Len(t) /\ t[start[i]] \notin Space \ {"cr"}
  <2>1. \A i \in 1 .. n + 1 : i \in 1 .. n \/ i = n + 1
    BY <1>2
  <2>2. \A i \in 1 .. n : start[i] <= Len(t) /\ t[start[i]] \notin Space \ {"cr"}
    BY <1>16
  <2>3. start[n + 1] <= Len(t) /\ t[start[n + 1]] \notin Space \ {"cr"}
    BY <1>3, <1>10, <1>11
  <2>4. QED
    BY <2>1, <2>2, <2>3
<1>18. ASSUME NEW i \in 1 .. n
       PROVE  t[start[i]] # "cr" /\ TurnReads(t, start[i], lines[i], start[i + 1])
  <2>1. PICK next : next = start[i + 1]
    OBVIOUS
  <2>2. i + 1 \in 1 .. n + 1
    BY <1>2
  <2>3. next <= Len(t) /\ t[next] \notin Space \ {"cr"}
    BY <1>17, <2>1, <2>2
  <2>4. PICK s : s = start[i]
    OBVIOUS
  <2>5. PICK line : line = lines[i]
    OBVIOUS
  <2>6. line \in LineType /\ IsLine(line) /\ Holds(t, s, LineText(line)) /\ next = s + Len(LineText(line))
    BY <1>2, <1>15, <2>1, <2>4, <2>5
  <2>7. TurnReads(t, s, line, next)
    BY <2>3, <2>6, LineTurn
  <2>8. t[start[i]] # "cr"
    BY <1>16 DEF Space
  <2>9. QED
    BY <2>1, <2>4, <2>5, <2>7, <2>8
<1>19. 8 <= Len(t) /\ t[8] \notin Space \ {"cr"}
  <2>1. start[1] = 8
    BY DEF Begins
  <2>2. 1 \in 1 .. n + 1
    BY <1>2
  <2>3. QED
    BY <1>17, <2>1, <2>2
<1>20. QED
  BY <1>1, <1>3, <1>10, <1>14, <1>16, <1>18, <1>19

-----------------------------------------------------------------------------
(* The turns of the loop over a cookie's flags *)

\* Where a flag may begin: the end of the text, or the separator before a flag.
Boundary(t, e) ==
    /\ e \in Nat \ {0}
    /\ \/ e = Len(t) + 1
       \/ e + 2 <= Len(t) /\ t[e] = ";" /\ t[e + 1] = "sp" /\ t[e + 2] \notin Space

SkipTo(t, e) == IF e > Len(t) THEN e ELSE e + 2

\* A separator at the end of a part is passed over to the beginning of the next.
LEMMA BoundaryScan ==
    ASSUME NEW t \in Text, NEW e, Boundary(t, e)
    PROVE  /\ Separates(t, e) /\ Separator(t, e) = SkipTo(t, e)
           /\ e \in Nat /\ e <= Len(t) + 1 /\ (e = Len(t) + 1 \/ t[e] = ";")
<1>1. Len(t) \in Nat /\ e \in Nat \ {0}
  BY LenProperties, TextIs DEF Boundary
<1>2. CASE e = Len(t) + 1
  <2>1. e > Len(t) /\ ~(e <= Len(t)) /\ e <= Len(t) + 1
    BY <1>1, <1>2
  <2>2. Separates(t, e) /\ Separator(t, e) = e /\ SkipTo(t, e) = e
    BY <2>1 DEF Separates, Separator, SkipTo
  <2>3. QED
    BY <1>1, <1>2, <2>1, <2>2
<1>3. CASE e # Len(t) + 1
  <2>1. e + 2 <= Len(t) /\ t[e] = ";" /\ t[e + 1] = "sp" /\ t[e + 2] \notin Space
    BY <1>3 DEF Boundary
  <2>2. PICK i : i = e + 1
    OBVIOUS
  <2>3. PICK j : j = e + 2
    OBVIOUS
  <2>4. /\ i \in Nat /\ j \in Nat /\ j = i + 1 /\ i <= Len(t) /\ ~(e > Len(t)) /\ e <= Len(t) + 1
        /\ t[i] = "sp" /\ t[j] \notin Space
    <3>1. e + 2 <= Len(t)
      BY <2>1
    <3>2. /\ i \in Nat /\ j \in Nat /\ j = i + 1 /\ i <= Len(t) /\ ~(e > Len(t)) /\ e <= Len(t) + 1
      BY <1>1, <2>2, <2>3, <3>1
    <3>3. t[i] = "sp" /\ t[j] \notin Space
      BY <2>1, <2>2, <2>3
    <3>4. QED
      BY <3>2, <3>3
  <2>5. While(t, i, Space) = j
    <3>1. t[i] \in Space
      BY <2>4 DEF Space
    <3>2. QED
      BY <2>4, <3>1, WhileOne
  <2>6. Separator(t, e) = j /\ SkipTo(t, e) = j
    BY <2>2, <2>3, <2>4, <2>5 DEF Separator, SkipTo
  <2>7. Separates(t, e)
    BY <2>1 DEF Separates
  <2>8. QED
    BY <1>1, <2>1, <2>4, <2>6, <2>7
<1>4. QED
  BY <1>2, <1>3

LEMMA ThreeTokens ==
    ASSUME NEW t, NEW p, NEW x, NEW y, NEW z, Holds(t, p, <<x, y, z>>)
    PROVE  t[p] = x /\ t[p + 1] = y /\ t[p + 2] = z
<1>1. /\ p \in Nat /\ p + 1 \in Nat /\ p + 2 \in Nat
      /\ p + 1 - p = 1 /\ (p + 1) + 1 - p = 2 /\ (p + 2) + 1 - p = 3
  BY DEF Holds
<1>2. /\ t[p] = <<x, y, z>>[p + 1 - p] /\ t[p + 1] = <<x, y, z>>[(p + 1) + 1 - p]
      /\ t[p + 2] = <<x, y, z>>[(p + 2) + 1 - p]
  BY <1>1 DEF Holds
<1>3. QED
  BY <1>1, <1>2

Flag(x) == <<";", "sp", x>>

LEMMA FlagBoundary ==
    ASSUME NEW t \in Text, NEW e, NEW x, x \notin Space, Holds(t, e, Flag(x))
    PROVE  /\ Boundary(t, e) /\ e \in Nat \ {0} /\ e + 2 <= Len(t) /\ t[e + 2] = x
           /\ SkipTo(t, e) = e + 2
<1>1. Len(t) \in Nat
  BY LenProperties, TextIs
<1>2. t[e] = ";" /\ t[e + 1] = "sp" /\ t[e + 2] = x
  <2>1. PICK a : a = ";"
    OBVIOUS
  <2>2. PICK b : b = "sp"
    OBVIOUS
  <2>3. Holds(t, e, <<a, b, x>>)
    BY <2>1, <2>2 DEF Flag
  <2>4. t[e] = a /\ t[e + 1] = b /\ t[e + 2] = x
    BY <2>3, ThreeTokens
  <2>5. QED
    BY <2>1, <2>2, <2>4
<1>3. e \in Nat \ {0} /\ e + 2 <= Len(t)
  <2>1. PICK l : l = Len(Flag(x))
    OBVIOUS
  <2>2. l = 3
    BY <2>1 DEF Flag
  <2>3. e \in Nat \ {0} /\ e + l <= Len(t) + 1
    BY <2>1 DEF Holds
  <2>4. QED
    BY <1>1, <2>2, <2>3
<1>4. SkipTo(t, e) = e + 2
  <2>1. ~(e > Len(t))
    BY <1>1, <1>3
  <2>2. QED
    BY <2>1 DEF SkipTo
<1>5. QED
  BY <1>2, <1>3, <1>4 DEF Boundary

LEMMA FourTokens ==
    ASSUME NEW t, NEW p, NEW x, NEW y, NEW z, NEW u, Holds(t, p, <<x, y, z, u>>)
    PROVE  t[p] = x /\ t[p + 1] = y /\ t[p + 2] = z /\ t[p + 3] = u
<1>1. /\ p \in Nat /\ p + 1 \in Nat /\ p + 2 \in Nat /\ p + 3 \in Nat
      /\ p + 1 - p = 1 /\ (p + 1) + 1 - p = 2 /\ (p + 2) + 1 - p = 3 /\ (p + 3) + 1 - p = 4
  BY DEF Holds
<1>2. /\ t[p] = <<x, y, z, u>>[p + 1 - p] /\ t[p + 1] = <<x, y, z, u>>[(p + 1) + 1 - p]
      /\ t[p + 2] = <<x, y, z, u>>[(p + 2) + 1 - p]
      /\ t[p + 3] = <<x, y, z, u>>[(p + 3) + 1 - p]
  BY <1>1 DEF Holds
<1>3. QED
  BY <1>1, <1>2

LEMMA PathFlagTokens ==
    ASSUME NEW t, NEW e, Holds(t, e, PathFlag)
    PROVE  t[e] = ";" /\ t[e + 1] = "sp" /\ t[e + 2] = "Path" /\ t[e + 3] = "="
<1>1. PICK a : a = ";"
  OBVIOUS
<1>2. PICK b : b = "sp"
  OBVIOUS
<1>3. PICK c : c = "Path"
  OBVIOUS
<1>4. PICK d : d = "="
  OBVIOUS
<1>5. Holds(t, e, <<a, b, c, d>>)
  BY <1>1, <1>2, <1>3, <1>4 DEF PathFlag
<1>6. t[e] = a /\ t[e + 1] = b /\ t[e + 2] = c /\ t[e + 3] = d
  BY <1>5, FourTokens
<1>7. QED
  BY <1>1, <1>2, <1>3, <1>4, <1>6

\* Every part of a cookie's text ends at a separator or at the end of the text.
LEMMA CookieBoundaries ==
    ASSUME NEW cookie \in CookieType, NEW t, t = CookieText(cookie)
    PROVE  /\ t \in Text /\ Len(t) \in Nat
           /\ Boundary(t, ValueEnds(cookie)) /\ Boundary(t, PathEnds(cookie))
           /\ Boundary(t, HttpOnlyEnds(cookie)) /\ Boundary(t, SecureEnds(cookie))
           /\ SecureEnds(cookie) = Len(t) + 1
<1>1. PICK v : v = ValueEnds(cookie)
  OBVIOUS
<1>2. PICK p : p = PathEnds(cookie)
  OBVIOUS
<1>3. PICK h : h = HttpOnlyEnds(cookie)
  OBVIOUS
<1>4. PICK s : s = SecureEnds(cookie)
  OBVIOUS
<1>5. /\ t \in Text /\ Len(t) = s - 1 /\ v \in Nat /\ p \in Nat /\ h \in Nat /\ s \in Nat
      /\ cookie.path # <<>> => Holds(t, v, PathFlag)
      /\ h # p => Holds(t, p, HttpOnlyFlag)
      /\ s # h => Holds(t, h, SecureFlag)
  BY <1>1, <1>2, <1>3, <1>4, CookieParts
<1>6. Len(t) \in Nat
  BY <1>5, LenProperties, TextIs
<1>7. s = Len(t) + 1 /\ s \in Nat \ {0}
  BY <1>5, <1>6
<1>8. Boundary(t, s)
  BY <1>7 DEF Boundary
<1>9. /\ "HttpOnly" \notin Space /\ "Secure" \notin Space /\ "Path" \notin Space
  BY DEF Space
<1>10. Boundary(t, h)
  <2>1. CASE s = h
    BY <1>8, <2>1
  <2>2. CASE s # h
    <3>1. Holds(t, h, Flag("Secure"))
      BY <1>5, <2>2 DEF SecureFlag, Flag
    <3>2. QED
      BY <1>5, <1>9, <3>1, FlagBoundary
  <2>3. QED
    BY <2>1, <2>2
<1>11. Boundary(t, p)
  <2>1. CASE h = p
    BY <1>10, <2>1
  <2>2. CASE h # p
    <3>1. Holds(t, p, Flag("HttpOnly"))
      BY <1>5, <2>2 DEF HttpOnlyFlag, Flag
    <3>2. QED
      BY <1>5, <1>9, <3>1, FlagBoundary
  <2>3. QED
    BY <2>1, <2>2
<1>12. Boundary(t, v)
  <2>1. CASE cookie.path = <<>>
    <3>1. p = v
      BY <1>1, <1>2, <2>1 DEF PathEnds
    <3>2. QED
      BY <1>11, <3>1
  <2>2. CASE cookie.path # <<>>
    <3>1. Holds(t, v, PathFlag)
      BY <1>5, <2>2
    <3>2. t[v] = ";" /\ t[v + 1] = "sp" /\ t[v + 2] = "Path"
      BY <3>1, PathFlagTokens
    <3>3. v \in Nat \ {0} /\ v + 2 <= Len(t)
      <4>1. PICK l : l = Len(PathFlag)
        OBVIOUS
      <4>2. l = 4
        BY <4>1, Tokens
      <4>3. v \in Nat \ {0} /\ v + l <= Len(t) + 1
        BY <1>5, <2>2, <4>1 DEF Holds
      <4>4. QED
        BY <1>6, <4>2, <4>3
    <3>4. QED
      BY <1>9, <3>2, <3>3 DEF Boundary
  <2>3. QED
    BY <2>1, <2>2
<1>13. QED
  BY <1>1, <1>2, <1>3, <1>4, <1>5, <1>6, <1>7, <1>8, <1>10, <1>11, <1>12

\* What a turn reads: a flag, a path, the name and the value.
FlagAt(t, e, x, end) ==
    /\ Holds(t, e, Flag(x)) /\ x \notin Space /\ x \notin {";", "="}
    /\ end = e + 3 /\ Boundary(t, end)

\* A flag without a value is read up to its end.
LEMMA FlagRead ==
    ASSUME NEW t \in Text, NEW e, NEW x, NEW end, FlagAt(t, e, x, end)
    PROVE  /\ SkipTo(t, e) <= Len(t) /\ ValueEnd(t, SkipTo(t, e)) = end
           /\ SubSeq(t, SkipTo(t, e), end - 1) = <<x>>
<1>1. Len(t) \in Nat
  BY LenProperties, TextIs
<1>2. PICK i : i = e + 2
  OBVIOUS
<1>3. e \in Nat \ {0} /\ e + 2 <= Len(t) /\ t[e + 2] = x /\ SkipTo(t, e) = e + 2
  BY FlagBoundary DEF FlagAt
<1>4. /\ i \in Nat \ {0} /\ i <= Len(t) /\ end = i + 1 /\ end \in Nat /\ i <= end /\ end - 1 = i
      /\ end <= Len(t) + 1
  <2>1. end = e + 3
    BY DEF FlagAt
  <2>2. QED
    BY <1>1, <1>2, <1>3, <2>1
<1>5. t[i] = x /\ SkipTo(t, e) = i
  BY <1>2, <1>3
<1>6. Until(t, i, {";", "="}) = end
  <2>1. end = Len(t) + 1 \/ t[end] \in {";", "="}
    BY BoundaryScan DEF FlagAt
  <2>2. \A k \in Nat : i <= k /\ k < end => k = i
    BY <1>4
  <2>3. \A k \in Nat : i <= k /\ k < end => t[k] \notin {";", "="}
    BY <1>5, <2>2 DEF FlagAt
  <2>4. QED
    BY <1>1, <1>4, <2>1, <2>3, UntilAt
<1>7. SubSeq(t, i, end - 1) = <<x>>
  <2>1. SubSeq(t, i, i) = <<t[i]>>
    BY <1>4, OneToken
  <2>2. QED
    BY <1>4, <1>5, <2>1
<1>8. QED
  BY <1>4, <1>5, <1>6, <1>7 DEF ValueEnd

PathAt(t, e, path, p, pathEnd) ==
    /\ Holds(t, e, PathFlag) /\ p = e + 4 /\ Holds(t, p, path) /\ pathEnd = p + Len(path)
    /\ path # <<>> /\ Without(path, {";", "="}) /\ BeginsWithout(path, Space)
    /\ Boundary(t, pathEnd)

\* The path is the value that follows its flag.
LEMMA PathRead ==
    ASSUME NEW t \in Text, NEW path \in Text, NEW e, NEW p, NEW pathEnd,
           PathAt(t, e, path, p, pathEnd)
    PROVE  /\ SkipTo(t, e) <= Len(t)
           /\ \E end :
                 /\ ValueEnd(t, SkipTo(t, e)) = end
                 /\ SubSeq(t, SkipTo(t, e), end - 1) = <<"Path">>
                 /\ Separates(t, end) /\ Separator(t, end) = p
                 /\ ValueEnd(t, p) = pathEnd
                 /\ SubSeq(t, p, pathEnd - 1) = path
<1>1. Len(t) \in Nat
  BY LenProperties, TextIs
<1>2. PICK i : i = e + 2
  OBVIOUS
<1>3. PICK end : end = e + 3
  OBVIOUS
<1>4. e \in Nat \ {0} /\ e + 3 <= Len(t)
  <2>1. PICK l : l = Len(PathFlag)
    OBVIOUS
  <2>2. l = 4
    BY <2>1, Tokens
  <2>3. e \in Nat \ {0} /\ e + l <= Len(t) + 1
    BY <2>1 DEF Holds, PathAt
  <2>4. QED
    BY <1>1, <2>2, <2>3
<1>5. /\ i \in Nat \ {0} /\ i <= Len(t) /\ end = i + 1 /\ end \in Nat /\ i <= end /\ end - 1 = i
      /\ end <= Len(t) /\ p = end + 1 /\ ~(e > Len(t)) /\ ~(end > Len(t)) /\ p \in Nat
      /\ end <= Len(t) + 1 /\ p <= Len(t) + 1
  <2>1. p = e + 4
    BY DEF PathAt
  <2>2. QED
    BY <1>1, <1>2, <1>3, <1>4, <2>1
<1>6. t[i] = "Path" /\ t[end] = "="
  <2>1. t[e + 2] = "Path" /\ t[e + 3] = "="
    BY PathFlagTokens DEF PathAt
  <2>2. QED
    BY <1>2, <1>3, <2>1
<1>7. SkipTo(t, e) = i
  BY <1>2, <1>5 DEF SkipTo
<1>8. Until(t, i, {";", "="}) = end
  <2>1. t[end] \in {";", "="}
    BY <1>6
  <2>2. \A k \in Nat : i <= k /\ k < end => k = i
    BY <1>5
  <2>3. \A k \in Nat : i <= k /\ k < end => t[k] \notin {";", "="}
    BY <1>6, <2>2
  <2>4. QED
    BY <1>1, <1>5, <2>1, <2>3, UntilAt
<1>9. SubSeq(t, i, end - 1) = <<"Path">>
  <2>1. SubSeq(t, i, i) = <<t[i]>>
    BY <1>5, OneToken
  <2>2. QED
    BY <1>5, <1>6, <2>1
<1>10. Separates(t, end)
  BY <1>6 DEF Separates
<1>11. Separator(t, end) = p
  <2>1. t[p] \notin Space
    <3>1. Holds(t, p, path) /\ path # <<>> /\ BeginsWithout(path, Space)
      BY DEF PathAt
    <3>2. QED
      BY <3>1, HoldsFirst
  <2>2. While(t, p, Space) = p
    BY <1>5, <2>1, WhileNothing
  <2>3. QED
    BY <1>5, <2>2 DEF Separator
<1>12. ValueEnd(t, p) = pathEnd
  <2>1. pathEnd = Len(t) + 1 \/ t[pathEnd] \in {";", "="}
    BY BoundaryScan DEF PathAt
  <2>2. Until(t, p, {";", "="}) = pathEnd
    BY <2>1, UntilPart DEF PathAt
  <2>3. QED
    BY <2>2 DEF ValueEnd
<1>13. SubSeq(t, p, pathEnd - 1) = path
  <2>1. Holds(t, p, path) /\ pathEnd = p + Len(path)
    BY DEF PathAt
  <2>2. QED
    BY <2>1, HeldSubSeq
<1>14. QED
  BY <1>5, <1>7, <1>8, <1>9, <1>10, <1>11, <1>12, <1>13 DEF ValueEnd

NameAt(t, name, value, nameEnd, v, valueEnd) ==
    /\ name # <<>> /\ Without(name, {"="} \cup Space)
    /\ Without(value, {";", "="}) /\ BeginsWithout(value, Space)
    /\ Holds(t, 1, name) /\ nameEnd = 1 + Len(name) /\ Holds(t, nameEnd, EqualSign)
    /\ v = nameEnd + 1 /\ Holds(t, v, value) /\ valueEnd = v + Len(value)
    /\ Boundary(t, valueEnd)

\* The name ends at "=", the value at ";" or at the end of the text.
LEMMA NameRead ==
    ASSUME NEW t \in Text, NEW name \in Text, NEW value \in Text, NEW nameEnd, NEW v, NEW valueEnd,
           NameAt(t, name, value, nameEnd, v, valueEnd)
    PROVE  /\ NameEnd(t, 1) = nameEnd /\ SubSeq(t, 1, nameEnd - 1) = name
           /\ Separates(t, nameEnd) /\ Separator(t, nameEnd) = v
           /\ ValueEnd(t, v) = valueEnd /\ SubSeq(t, v, valueEnd - 1) = value
<1>1. Len(t) \in Nat /\ Len(name) \in Nat
  BY LenProperties, TextIs
<1>2. nameEnd \in Nat /\ v \in Nat /\ v = nameEnd + 1
  <2>1. nameEnd = 1 + Len(name) /\ v = nameEnd + 1
    BY DEF NameAt
  <2>2. QED
    BY <1>1, <2>1
<1>3. t[nameEnd] = "=" /\ nameEnd <= Len(t)
  <2>1. PICK l : l = Len(EqualSign)
    OBVIOUS
  <2>2. l = 1
    BY <2>1, Tokens
  <2>3. nameEnd + l <= Len(t) + 1
    BY <2>1 DEF Holds, NameAt
  <2>4. nameEnd <= Len(t)
    BY <1>1, <1>2, <2>2, <2>3
  <2>5. t[nameEnd] = EqualSign[nameEnd + 1 - nameEnd]
    <3>1. nameEnd <= nameEnd /\ nameEnd < nameEnd + l
      BY <1>2, <2>2
    <3>2. QED
      BY <1>2, <2>1, <3>1 DEF Holds, NameAt
  <2>6. nameEnd + 1 - nameEnd = 1
    BY <1>2
  <2>7. EqualSign[1] = "="
    BY DEF EqualSign
  <2>8. QED
    BY <2>4, <2>5, <2>6, <2>7
<1>4. NameEnd(t, 1) = nameEnd /\ SubSeq(t, 1, nameEnd - 1) = name
  <2>1. t[nameEnd] \in {"="} \cup Space
    BY <1>3
  <2>2. Until(t, 1, {"="} \cup Space) = nameEnd
    BY <2>1, UntilPart DEF NameAt
  <2>3. SubSeq(t, 1, nameEnd - 1) = name
    <3>1. Holds(t, 1, name) /\ nameEnd = 1 + Len(name)
      BY DEF NameAt
    <3>2. QED
      BY <3>1, HeldSubSeq
  <2>4. QED
    BY <2>2, <2>3 DEF NameEnd
<1>5. Separates(t, nameEnd)
  BY <1>3 DEF Separates
<1>6. valueEnd = Len(t) + 1 \/ t[valueEnd] \in {";", "="}
  BY BoundaryScan DEF NameAt
<1>7. v = Len(t) + 1 \/ t[v] \notin Space
  <2>1. CASE value = <<>>
    <3>1. Len(value) = 0
      BY <2>1, NoTokens
    <3>2. valueEnd = v
      <4>1. valueEnd = v + Len(value)
        BY DEF NameAt
      <4>2. QED
        BY <1>2, <3>1, <4>1
    <3>3. ";" \notin Space
      BY DEF Space
    <3>4. QED
      BY <3>2, <3>3, BoundaryScan DEF NameAt
  <2>2. CASE value # <<>>
    BY <2>2, HoldsFirst DEF NameAt
  <2>3. QED
    BY <2>1, <2>2
<1>8. Separator(t, nameEnd) = v
  <2>1. ~(nameEnd > Len(t)) /\ v <= Len(t) + 1
    BY <1>1, <1>2, <1>3
  <2>2. While(t, v, Space) = v
    BY <1>2, <1>7, <2>1, WhileNothing
  <2>3. QED
    BY <1>2, <2>1, <2>2 DEF Separator
<1>9. ValueEnd(t, v) = valueEnd
  <2>1. Until(t, v, {";", "="}) = valueEnd
    BY <1>6, UntilPart DEF NameAt
  <2>2. QED
    BY <2>1 DEF ValueEnd
<1>10. SubSeq(t, v, valueEnd - 1) = value
  <2>1. Holds(t, v, value) /\ valueEnd = v + Len(value)
    BY DEF NameAt
  <2>2. QED
    BY <2>1, HeldSubSeq
<1>11. QED
  BY <1>4, <1>5, <1>8, <1>9, <1>10

\* What the turns of the loop over a cookie's flags read of a server's cookie.
LEMMA CookieTurns ==
    ASSUME NEW cookie \in CookieType, IsCookie(cookie), NEW t, t = CookieText(cookie)
    PROVE  /\ Without(cookie.name, Space) =>
                 \E nameEnd, v : NameAt(t, cookie.name, cookie.value, nameEnd, v, ValueEnds(cookie))
           /\ cookie.path # <<>> =>
                 \E p : PathAt(t, ValueEnds(cookie), cookie.path, p, PathEnds(cookie))
           /\ cookie.httpOnly = TRUE => FlagAt(t, PathEnds(cookie), "HttpOnly", HttpOnlyEnds(cookie))
           /\ cookie.secure = TRUE => FlagAt(t, HttpOnlyEnds(cookie), "Secure", SecureEnds(cookie))
<1>1. PICK v : v = ValueEnds(cookie)
  OBVIOUS
<1>2. PICK p : p = PathEnds(cookie)
  OBVIOUS
<1>3. PICK h : h = HttpOnlyEnds(cookie)
  OBVIOUS
<1>4. PICK s : s = SecureEnds(cookie)
  OBVIOUS
<1>5. PICK k : k = Len(cookie.name)
  OBVIOUS
<1>6. PICK l : l = Len(cookie.value)
  OBVIOUS
<1>7. PICK m : m = Len(cookie.path)
  OBVIOUS
<1>8. k \in Nat /\ l \in Nat /\ m \in Nat
  <2>1. cookie.name \in Text /\ cookie.value \in Text /\ cookie.path \in Text
    BY DEF CookieType
  <2>2. QED
    BY <1>5, <1>6, <1>7, <2>1, LenProperties, TextIs
<1>9. /\ v \in Nat /\ p \in Nat /\ h \in Nat /\ s \in Nat
      /\ Holds(t, 1, cookie.name) /\ Holds(t, k + 1, EqualSign) /\ Holds(t, k + 2, cookie.value)
      /\ cookie.path # <<>> => Holds(t, v, PathFlag) /\ Holds(t, v + 4, cookie.path)
      /\ h # p => Holds(t, p, HttpOnlyFlag)
      /\ s # h => Holds(t, h, SecureFlag)
  BY <1>1, <1>2, <1>3, <1>4, <1>5, CookieParts
<1>10. Boundary(t, v) /\ Boundary(t, p) /\ Boundary(t, h) /\ Boundary(t, s)
  BY <1>1, <1>2, <1>3, <1>4, CookieBoundaries
<1>11. /\ cookie.name # <<>> /\ Without(cookie.name, {"="})
       /\ Without(cookie.value, {";", "="}) /\ BeginsWithout(cookie.value, Space)
       /\ Without(cookie.path, {";", "="}) /\ BeginsWithout(cookie.path, Space)
  <2>1. /\ cookie.name # <<>> /\ Without(cookie.name, {"=", "cr"})
        /\ Without(cookie.value, {";", "=", "cr"}) /\ BeginsWithout(cookie.value, Space)
        /\ Without(cookie.path, {";", "=", "cr"}) /\ BeginsWithout(cookie.path, Space)
    BY DEF IsCookie
  <2>2. QED
    BY <2>1 DEF Without
<1>12. ASSUME Without(cookie.name, Space)
       PROVE  \E nameEnd, value : NameAt(t, cookie.name, cookie.value, nameEnd, value, v)
  <2>1. Without(cookie.name, {"="} \cup Space)
    BY <1>11, <1>12 DEF Without
  <2>2. PICK nameEnd : nameEnd = k + 1
    OBVIOUS
  <2>3. PICK value : value = k + 2
    OBVIOUS
  <2>4. v = k + 2 + l
    BY <1>1, <1>5, <1>6 DEF ValueEnds
  <2>5. nameEnd = 1 + k /\ value = nameEnd + 1 /\ v = value + l
    BY <1>8, <2>2, <2>3, <2>4
  <2>6. Holds(t, nameEnd, EqualSign) /\ Holds(t, value, cookie.value)
    BY <1>9, <2>2, <2>3
  <2>7. NameAt(t, cookie.name, cookie.value, nameEnd, value, v)
    BY <1>5, <1>6, <1>9, <1>10, <1>11, <2>1, <2>5, <2>6 DEF NameAt
  <2>8. QED
    BY <2>7
<1>13. ASSUME cookie.path # <<>> PROVE \E o : PathAt(t, v, cookie.path, o, p)
  <2>1. PICK o : o = v + 4
    OBVIOUS
  <2>2. p = v + 4 + m
    BY <1>1, <1>2, <1>7, <1>13 DEF PathEnds
  <2>3. p = o + m
    BY <2>1, <2>2
  <2>4. PathAt(t, v, cookie.path, o, p)
    BY <1>7, <1>9, <1>10, <1>11, <1>13, <2>1, <2>3 DEF PathAt
  <2>5. QED
    BY <2>4
<1>14. /\ "HttpOnly" \notin Space /\ "HttpOnly" \notin {";", "="}
       /\ "Secure" \notin Space /\ "Secure" \notin {";", "="}
  BY DEF Space
<1>15. ASSUME cookie.httpOnly = TRUE PROVE FlagAt(t, p, "HttpOnly", h)
  <2>1. h = p + 3
    BY <1>2, <1>3, <1>15, FlagEnds
  <2>2. h # p
    BY <1>9, <2>1
  <2>3. Holds(t, p, Flag("HttpOnly"))
    BY <1>9, <2>2 DEF HttpOnlyFlag, Flag
  <2>4. QED
    BY <1>10, <1>14, <2>1, <2>3 DEF FlagAt
<1>16. ASSUME cookie.secure = TRUE PROVE FlagAt(t, h, "Secure", s)
  <2>1. s = h + 3
    BY <1>3, <1>4, <1>16, FlagEnds
  <2>2. s # h
    BY <1>9, <2>1
  <2>3. Holds(t, h, Flag("Secure"))
    BY <1>9, <2>2 DEF SecureFlag, Flag
  <2>4. QED
    BY <1>10, <1>14, <2>1, <2>3 DEF FlagAt
<1>17. QED
  BY <1>1, <1>2, <1>3, <1>4, <1>12, <1>13, <1>15, <1>16

-----------------------------------------------------------------------------
(* The inductive invariant *)

\* A cookie with its name and its value, and of the rest what is given.
CookieWith(cookie, path, httpOnly, secure) ==
    [name |-> cookie.name, value |-> cookie.value,
     path |-> path, httpOnly |-> httpOnly, secure |-> secure]

\* The flags of the cookie are read up to the end of its value, its path or a flag.
CookieRead(f, cookie) ==
    \E e, c :
        /\ f = [text |-> CookieText(cookie), at |-> SkipTo(CookieText(cookie), e), cookie |-> c]
        /\ \/ e = ValueEnds(cookie) /\ c = CookieWith(cookie, <<>>, FALSE, FALSE)
           \/ e = PathEnds(cookie) /\ c = CookieWith(cookie, cookie.path, FALSE, FALSE)
           \/ e = HttpOnlyEnds(cookie) /\ c = CookieWith(cookie, cookie.path, cookie.httpOnly, FALSE)
           \/ e = SecureEnds(cookie) /\ c = cookie

\* The calls of the turns for the first k lines.
CallsOf(lines, k) == [i \in 1 .. k |-> lines[i]]

\* k lines are read, and the parser is at the beginning of the next.
AtLine(lines, start, k) ==
    phase = "headers" /\ ch = start[k + 1] /\ calls = CallsOf(lines, k)

\* The parser is in the cookie of line k, from the end of whose value it leaves the line.
InCookie(lines, start, k) ==
    /\ lines[k] = CookieLine(lines[k].cookie) /\ IsCookie(lines[k].cookie)
    /\ CrLf(text, ch) = start[k + 1]
    /\ calls = Append(CallsOf(lines, k - 1), Line(lines[k].name, lines[k].value))
    /\ \/ phase = "name" /\ flags = [text |-> CookieText(lines[k].cookie), at |-> 1, cookie |-> NoCookie]
       \/ phase = "cookie" /\ CookieRead(flags, lines[k].cookie)

\* The process has ended at the cookie of line k.
AbortedAt(lines, k) ==
    phase = "aborted" /\ Len(calls) = k /\ ~Without(lines[k].cookie.name, Space)

ReadSoFar(lines, body, start) ==
    \/ phase = "start" /\ calls = <<>>
    \/ \E k \in 0 .. Len(lines) : AtLine(lines, start, k)
    \/ \E k \in 1 .. Len(lines) : InCookie(lines, start, k) \/ AbortedAt(lines, k)
    \/ phase = "done" /\ data = body /\ calls = CallsOf(lines, Len(lines))

Reading ==
    message # <<>> =>
        \E m \in Messages : \E start :
            /\ message = <<m>> /\ text = MessageText(m)
            /\ Begins(start, text, m.lines, m.body)
            /\ ReadSoFar(m.lines, m.body, start)

-----------------------------------------------------------------------------
(* Between the flags of a cookie *)

LEMMA WithAll ==
    ASSUME NEW cookie \in CookieType
    PROVE  CookieWith(cookie, cookie.path, cookie.httpOnly, cookie.secure) = cookie
BY DEF CookieWith, CookieType

\* What comes next: the path, a flag, or the end.
BeforePath(f, t, cookie) ==
    /\ cookie.path # <<>> /\ f.at = SkipTo(t, ValueEnds(cookie))
    /\ f.cookie = CookieWith(cookie, <<>>, FALSE, FALSE)
BeforeHttpOnly(f, t, cookie) ==
    /\ cookie.httpOnly = TRUE /\ f.at = SkipTo(t, PathEnds(cookie))
    /\ f.cookie = CookieWith(cookie, cookie.path, FALSE, FALSE)
BeforeSecure(f, t, cookie) ==
    /\ cookie.secure = TRUE /\ f.at = SkipTo(t, HttpOnlyEnds(cookie))
    /\ f.cookie = CookieWith(cookie, cookie.path, cookie.httpOnly, FALSE)
BeforeEnd(f, t, cookie) ==
    f.at = SkipTo(t, SecureEnds(cookie)) /\ f.cookie = cookie

\* Between two flags the next one to come is path, HttpOnly, Secure or none.
LEMMA NextFlag ==
    ASSUME NEW cookie \in CookieType, NEW t, t = CookieText(cookie),
           NEW f, CookieRead(f, cookie)
    PROVE  /\ f.text = t
           /\ \/ BeforePath(f, t, cookie) \/ BeforeHttpOnly(f, t, cookie)
              \/ BeforeSecure(f, t, cookie) \/ BeforeEnd(f, t, cookie)
<1>1. PICK e, c :
          /\ f = [text |-> t, at |-> SkipTo(t, e), cookie |-> c]
          /\ \/ e = ValueEnds(cookie) /\ c = CookieWith(cookie, <<>>, FALSE, FALSE)
             \/ e = PathEnds(cookie) /\ c = CookieWith(cookie, cookie.path, FALSE, FALSE)
             \/ e = HttpOnlyEnds(cookie) /\ c = CookieWith(cookie, cookie.path, cookie.httpOnly, FALSE)
             \/ e = SecureEnds(cookie) /\ c = cookie
  BY DEF CookieRead
<1>2. f.text = t /\ f.at = SkipTo(t, e) /\ f.cookie = c
  BY <1>1
<1>3. cookie.path = <<>> =>
          /\ ValueEnds(cookie) = PathEnds(cookie)
          /\ CookieWith(cookie, <<>>, FALSE, FALSE) = CookieWith(cookie, cookie.path, FALSE, FALSE)
  BY DEF PathEnds
<1>4. \/ cookie.httpOnly = TRUE
      \/ /\ PathEnds(cookie) = HttpOnlyEnds(cookie)
         /\ CookieWith(cookie, cookie.path, FALSE, FALSE)
              = CookieWith(cookie, cookie.path, cookie.httpOnly, FALSE)
  BY FlagEnds
<1>5. \/ cookie.secure = TRUE
      \/ /\ HttpOnlyEnds(cookie) = SecureEnds(cookie)
         /\ CookieWith(cookie, cookie.path, cookie.httpOnly, FALSE) = cookie
  BY FlagEnds, WithAll
<1>6. CASE e = ValueEnds(cookie) /\ c = CookieWith(cookie, <<>>, FALSE, FALSE)
  BY <1>2, <1>3, <1>4, <1>5, <1>6 DEF BeforePath, BeforeHttpOnly, BeforeSecure, BeforeEnd
<1>7. CASE e = PathEnds(cookie) /\ c = CookieWith(cookie, cookie.path, FALSE, FALSE)
  BY <1>2, <1>4, <1>5, <1>7 DEF BeforeHttpOnly, BeforeSecure, BeforeEnd
<1>8. CASE e = HttpOnlyEnds(cookie) /\ c = CookieWith(cookie, cookie.path, cookie.httpOnly, FALSE)
  BY <1>2, <1>5, <1>8 DEF BeforeSecure, BeforeEnd
<1>9. CASE e = SecureEnds(cookie) /\ c = cookie
  BY <1>2, <1>9 DEF BeforeEnd
<1>10. QED
  BY <1>1, <1>2, <1>6, <1>7, <1>8, <1>9

\* At the end of the text the cookie is whole.
LEMMA CookieAtEnd ==
    ASSUME NEW cookie \in CookieType, IsCookie(cookie), NEW t, t = CookieText(cookie),
           NEW f, CookieRead(f, cookie)
    PROVE  /\ f.text = t /\ Len(t) \in Nat /\ f.at \in Nat
           /\ f.at > Len(t) => f.cookie = cookie
           /\ f.at = SkipTo(t, SecureEnds(cookie)) => f.at > Len(t)
<1>1. t \in Text /\ Len(t) \in Nat /\ SecureEnds(cookie) = Len(t) + 1
  BY CookieBoundaries
<1>2. /\ f.text = t
      /\ \/ BeforePath(f, t, cookie) \/ BeforeHttpOnly(f, t, cookie)
         \/ BeforeSecure(f, t, cookie) \/ BeforeEnd(f, t, cookie)
  BY NextFlag
<1>3. \A e \in Nat : SkipTo(t, e) \in Nat
  BY DEF SkipTo
<1>4. ValueEnds(cookie) \in Nat /\ PathEnds(cookie) \in Nat /\ HttpOnlyEnds(cookie) \in Nat /\ SecureEnds(cookie) \in Nat
  BY CookieParts
<1>5. f.at \in Nat
  BY <1>2, <1>3, <1>4 DEF BeforePath, BeforeHttpOnly, BeforeSecure, BeforeEnd
<1>6. SkipTo(t, SecureEnds(cookie)) > Len(t)
  <2>1. PICK s : s = SecureEnds(cookie)
    OBVIOUS
  <2>2. s > Len(t)
    BY <1>1, <2>1
  <2>3. SkipTo(t, s) > Len(t)
    BY <2>2 DEF SkipTo
  <2>4. QED
    BY <2>1, <2>3
<1>7. ASSUME cookie.path # <<>> PROVE SkipTo(t, ValueEnds(cookie)) <= Len(t)
  <2>1. PICK p : PathAt(t, ValueEnds(cookie), cookie.path, p, PathEnds(cookie))
    BY <1>7, CookieTurns
  <2>2. cookie.path \in Text
    BY DEF CookieType
  <2>3. QED
    BY <1>1, <2>1, <2>2, PathRead
<1>8. ASSUME cookie.httpOnly = TRUE PROVE SkipTo(t, PathEnds(cookie)) <= Len(t)
  BY <1>1, <1>8, CookieTurns, FlagRead
<1>9. ASSUME cookie.secure = TRUE PROVE SkipTo(t, HttpOnlyEnds(cookie)) <= Len(t)
  BY <1>1, <1>9, CookieTurns, FlagRead
<1>10. f.at <= Len(t) \/ f.cookie = cookie
  <2>1. CASE BeforePath(f, t, cookie)
    BY <1>7, <2>1 DEF BeforePath
  <2>2. CASE BeforeHttpOnly(f, t, cookie)
    BY <1>8, <2>2 DEF BeforeHttpOnly
  <2>3. CASE BeforeSecure(f, t, cookie)
    BY <1>9, <2>3 DEF BeforeSecure
  <2>4. CASE BeforeEnd(f, t, cookie)
    BY <2>4 DEF BeforeEnd
  <2>5. QED
    BY <1>2, <2>1, <2>2, <2>3, <2>4
<1>11. QED
  BY <1>1, <1>2, <1>5, <1>6, <1>10

LEMMA FlaggedWith ==
    ASSUME NEW cookie, NEW path, NEW httpOnly \in BOOLEAN
    PROVE  /\ Flagged(CookieWith(cookie, path, FALSE, FALSE), <<"HttpOnly">>)
                = CookieWith(cookie, path, TRUE, FALSE)
           /\ Flagged(CookieWith(cookie, path, httpOnly, FALSE), <<"Secure">>)
                = CookieWith(cookie, path, httpOnly, TRUE)
<1>1. ASSUME NEW flag, NEW h \in BOOLEAN, NEW g \in BOOLEAN, NEW s \in BOOLEAN,
             g = (h \/ flag = <<"HttpOnly">>), s = (FALSE \/ flag = <<"Secure">>)
      PROVE  Flagged(CookieWith(cookie, path, h, FALSE), flag) = CookieWith(cookie, path, g, s)
  <2>1. PICK c : c = CookieWith(cookie, path, h, FALSE)
    OBVIOUS
  <2>2. c.httpOnly = h /\ c.secure = FALSE
    BY <2>1 DEF CookieWith
  <2>3. PICK x : x = (c.httpOnly \/ flag = <<"HttpOnly">>)
    OBVIOUS
  <2>4. PICK y : y = (c.secure \/ flag = <<"Secure">>)
    OBVIOUS
  <2>5. x = g /\ y = s
    BY <1>1, <2>2, <2>3, <2>4, Zenon
  <2>6. Flagged(c, flag) = [c EXCEPT !.httpOnly = x, !.secure = y]
    BY <2>3, <2>4, Zenon DEF Flagged
  <2>7. Flagged(c, flag) = [c EXCEPT !.httpOnly = g, !.secure = s]
    BY <2>5, <2>6, Zenon
  <2>8. QED
    BY <2>1, <2>7 DEF CookieWith
<1>2. <<"HttpOnly">> # <<"Secure">>
  OBVIOUS
<1>3. /\ TRUE = (FALSE \/ <<"HttpOnly">> = <<"HttpOnly">>)
      /\ FALSE = (FALSE \/ <<"HttpOnly">> = <<"Secure">>)
      /\ httpOnly = (httpOnly \/ <<"Secure">> = <<"HttpOnly">>)
      /\ TRUE = (FALSE \/ <<"Secure">> = <<"Secure">>)
  BY <1>2
<1>4. Flagged(CookieWith(cookie, path, FALSE, FALSE), <<"HttpOnly">>)
        = CookieWith(cookie, path, TRUE, FALSE)
  BY <1>1, <1>3, Zenon
<1>5. Flagged(CookieWith(cookie, path, httpOnly, FALSE), <<"Secure">>)
        = CookieWith(cookie, path, httpOnly, TRUE)
  BY <1>1, <1>3, Zenon
<1>6. QED
  BY <1>4, <1>5

LEMMA FlagsRecord ==
    ASSUME NEW cookie, NEW f, CookieRead(f, cookie)
    PROVE  \E t, at, c : f = [text |-> t, at |-> at, cookie |-> c]
BY DEF CookieRead

LEMMA FlagNames ==
    /\ <<"Path">> # <<"HttpOnly">> /\ <<"Path">> # <<"Secure">> /\ <<"HttpOnly">> # <<"Secure">>
OBVIOUS

\* BeginCookie reads the name and the value of a cookie.
LEMMA BeginCookieReads ==
    ASSUME NEW cookie \in CookieType, IsCookie(cookie), NEW t, t = CookieText(cookie),
           Without(cookie.name, Space),
           flags = [text |-> t, at |-> 1, cookie |-> NoCookie], BeginCookie
    PROVE  phase' = "cookie" /\ CookieRead(flags', cookie)
<1>1. PICK valueEnd : valueEnd = ValueEnds(cookie)
  OBVIOUS
<1>2. PICK nameEnd, v : NameAt(t, cookie.name, cookie.value, nameEnd, v, valueEnd)
  BY <1>1, CookieTurns
<1>3. t \in Text /\ cookie.name \in Text /\ cookie.value \in Text
  BY CookieBoundaries DEF CookieType
<1>4. /\ NameEnd(t, 1) = nameEnd /\ SubSeq(t, 1, nameEnd - 1) = cookie.name
      /\ Separates(t, nameEnd) /\ Separator(t, nameEnd) = v
      /\ ValueEnd(t, v) = valueEnd /\ SubSeq(t, v, valueEnd - 1) = cookie.value
  BY <1>2, <1>3, NameRead
<1>5. Separates(t, valueEnd) /\ Separator(t, valueEnd) = SkipTo(t, valueEnd)
  BY <1>2, <1>3, BoundaryScan DEF NameAt
<1>6. /\ flags' = [flags EXCEPT !.at = SkipTo(t, valueEnd), !.cookie.name = cookie.name,
                                !.cookie.value = cookie.value]
      /\ phase' = "cookie"
  <2>1. flags.text = t
    OBVIOUS
  <2>2. QED
    BY <1>4, <1>5, <2>1 DEF BeginCookie
<1>7. flags' = [text |-> t, at |-> SkipTo(t, valueEnd), cookie |-> CookieWith(cookie, <<>>, FALSE, FALSE)]
  BY <1>6 DEF CookieWith, NoCookie
<1>8. CookieRead(flags', cookie)
  BY <1>1, <1>7 DEF CookieRead
<1>9. QED
  BY <1>6, <1>8

\* A name with white space in it ends there, where the assertion fails.
LEMMA BeginCookieAborts ==
    ASSUME NEW cookie \in CookieType, IsCookie(cookie), NEW t, t = CookieText(cookie),
           ~Without(cookie.name, Space), flags.text = t, BeginCookie
    PROVE  phase' = "aborted"
<1>1. PICK name : name = cookie.name
  OBVIOUS
<1>2. /\ name \in Text /\ Without(name, {"=", "cr"}) /\ ~Without(name, Space)
      /\ t \in Text /\ Holds(t, 1, name)
  BY <1>1, CookieParts, CookieBoundaries DEF CookieType, IsCookie
<1>3. PICK n, l : n = Len(name) /\ l = Len(t)
  OBVIOUS
<1>4. n \in Nat /\ l \in Nat /\ DOMAIN name = 1 .. n
  BY <1>2, <1>3, LenProperties, TextIs
<1>5. n <= l /\ \A i \in 1 .. n : t[i] = name[i]
  <2>1. 1 + n <= l + 1
    BY <1>2, <1>3 DEF Holds
  <2>2. \A i \in Nat : 1 <= i /\ i < 1 + n => t[i] = name[i + 1 - 1]
    BY <1>2, <1>3 DEF Holds
  <2>3. \A i \in 1 .. n : i \in Nat /\ 1 <= i /\ i < 1 + n /\ i + 1 - 1 = i
    BY <1>4
  <2>4. QED
    BY <1>4, <2>1, <2>2, <2>3
<1>6. PICK stops : stops = {"="} \cup Space
  OBVIOUS
<1> DEFINE K == {p \in 1 .. n : t[p] \in stops}
<1>7. K # {}
  <2>1. PICK i \in DOMAIN name : name[i] \in Space
    BY <1>2 DEF Without
  <2>2. i \in 1 .. n /\ t[i] \in stops
    BY <1>4, <1>5, <1>6, <2>1
  <2>3. QED
    BY <2>2
<1>8. PICK k \in K : \A p \in K : k <= p
  <2>1. K \subseteq Nat
    OBVIOUS
  <2> HIDE DEF K
  <2>2. QED
    BY <1>7, <2>1, LeastElement
<1>9. k \in 1 .. n /\ k \in Nat /\ 1 <= k /\ k <= l + 1 /\ k <= l /\ t[k] \in stops
  BY <1>4, <1>5
<1>10. ASSUME NEW p \in Nat, 1 <= p, p < k PROVE t[p] \notin stops
  <2>1. p \in 1 .. n /\ ~(k <= p)
    BY <1>4, <1>9, <1>10
  <2>2. p \notin K
    <3> HIDE DEF K
    <3> QED BY <1>8, <2>1
  <2>3. QED
    BY <2>1, <2>2
<1> HIDE DEF K
<1>11. NameEnd(t, 1) = k
  BY <1>3, <1>4, <1>6, <1>9, <1>10, UntilAt DEF NameEnd
<1>12. ~Separates(t, k)
  <2>1. t[k] = name[k] /\ name[k] # "="
    BY <1>2, <1>4, <1>5, <1>9 DEF Without
  <2>2. t[k] \in Space
    BY <1>6, <1>9, <2>1
  <2>3. t[k] \notin {";", "="}
    BY <2>2 DEF Space
  <2>4. k <= Len(t)
    BY <1>3, <1>9
  <2>5. QED
    BY <2>3, <2>4 DEF Separates
<1>13. QED
  BY <1>11, <1>12 DEF BeginCookie, Abort

\* A turn that takes a flag.
LEMMA FlagTaken ==
    ASSUME NEW t, NEW flag, NEW end, NEW at, flag # <<"Path">>,
           flags.text = t, ValueEnd(t, flags.at) = end, SubSeq(t, flags.at, end - 1) = flag,
           Separates(t, end), Separator(t, end) = at, CookieFlag
    PROVE  flags' = [flags EXCEPT !.at = at, !.cookie = Flagged(@, flag)] /\ phase' = phase
BY DEF CookieFlag

\* CookieFlag reads the next flag of a cookie.
LEMMA CookieFlagReads ==
    ASSUME NEW cookie \in CookieType, IsCookie(cookie), NEW t, t = CookieText(cookie),
           CookieRead(flags, cookie), CookieFlag
    PROVE  phase' = phase /\ CookieRead(flags', cookie)
<1>1. /\ t \in Text /\ Len(t) \in Nat /\ cookie.path \in Text
      /\ Boundary(t, PathEnds(cookie)) /\ Boundary(t, HttpOnlyEnds(cookie))
      /\ Boundary(t, SecureEnds(cookie))
  BY CookieBoundaries DEF CookieType
<1>2. /\ flags.text = t
      /\ \/ BeforePath(flags, t, cookie) \/ BeforeHttpOnly(flags, t, cookie)
         \/ BeforeSecure(flags, t, cookie) \/ BeforeEnd(flags, t, cookie)
  BY NextFlag
<1>3. PICK at, c : flags = [text |-> t, at |-> at, cookie |-> c]
  BY <1>2, FlagsRecord
<1>4. CASE BeforePath(flags, t, cookie)
  <2>1. PICK v : v = ValueEnds(cookie)
    OBVIOUS
  <2>2. PICK pathEnd : pathEnd = PathEnds(cookie)
    OBVIOUS
  <2>3. PICK p : PathAt(t, v, cookie.path, p, pathEnd)
    BY <1>4, <2>1, <2>2, CookieTurns DEF BeforePath
  <2>4. flags.at = SkipTo(t, v) /\ c = CookieWith(cookie, <<>>, FALSE, FALSE)
    BY <1>3, <1>4, <2>1 DEF BeforePath
  <2>5. PICK end :
            /\ ValueEnd(t, flags.at) = end
            /\ SubSeq(t, flags.at, end - 1) = <<"Path">>
            /\ Separates(t, end) /\ Separator(t, end) = p
            /\ ValueEnd(t, p) = pathEnd
            /\ SubSeq(t, p, pathEnd - 1) = cookie.path
    BY <1>1, <2>3, <2>4, PathRead
  <2>6. Separates(t, pathEnd) /\ Separator(t, pathEnd) = SkipTo(t, pathEnd)
    BY <1>1, <2>2, BoundaryScan
  <2>7. /\ flags' = [flags EXCEPT !.at = SkipTo(t, pathEnd), !.cookie = [@ EXCEPT !.path = cookie.path]]
        /\ phase' = phase
    <3>1. PICK path : path = cookie.path
      OBVIOUS
    <3>2. /\ flags.text = t /\ ValueEnd(t, flags.at) = end
          /\ SubSeq(t, flags.at, end - 1) = <<"Path">>
          /\ Separates(t, end) /\ Separator(t, end) = p /\ ValueEnd(t, p) = pathEnd
          /\ SubSeq(t, p, pathEnd - 1) = path /\ Separates(t, pathEnd)
      BY <1>2, <2>5, <2>6, <3>1
    <3>3. PICK next : next = SkipTo(t, pathEnd)
      OBVIOUS
    <3>4. Separator(t, pathEnd) = next
      BY <2>6, <3>3
    <3>5. flags' = [flags EXCEPT !.at = next, !.cookie = [@ EXCEPT !.path = path]] /\ phase' = phase
      BY <3>2, <3>4 DEF CookieFlag
    <3>6. QED
      BY <3>1, <3>3, <3>5
  <2>8. flags' = [text |-> t, at |-> SkipTo(t, pathEnd), cookie |-> CookieWith(cookie, cookie.path, FALSE, FALSE)]
    BY <1>3, <2>4, <2>7 DEF CookieWith
  <2>9. CookieRead(flags', cookie)
    BY <2>2, <2>8 DEF CookieRead
  <2>10. QED
    BY <2>7, <2>9
<1>5. CASE BeforeHttpOnly(flags, t, cookie)
  <2>1. PICK p : p = PathEnds(cookie)
    OBVIOUS
  <2>2. PICK h : h = HttpOnlyEnds(cookie)
    OBVIOUS
  <2>3. FlagAt(t, p, "HttpOnly", h) /\ cookie.httpOnly = TRUE
    BY <1>5, <2>1, <2>2, CookieTurns DEF BeforeHttpOnly
  <2>4. flags.at = SkipTo(t, p) /\ c = CookieWith(cookie, cookie.path, FALSE, FALSE)
    BY <1>3, <1>5, <2>1 DEF BeforeHttpOnly
  <2>5. ValueEnd(t, flags.at) = h /\ SubSeq(t, flags.at, h - 1) = <<"HttpOnly">>
    BY <1>1, <2>3, <2>4, FlagRead
  <2>6. Separates(t, h) /\ Separator(t, h) = SkipTo(t, h)
    BY <1>1, <2>2, BoundaryScan
  <2>7. flags' = [flags EXCEPT !.at = SkipTo(t, h), !.cookie = Flagged(@, <<"HttpOnly">>)] /\ phase' = phase
    BY <1>2, <2>5, <2>6, FlagNames, FlagTaken
  <2>8. Flagged(c, <<"HttpOnly">>) = CookieWith(cookie, cookie.path, cookie.httpOnly, FALSE)
    BY <2>3, <2>4, FlaggedWith
  <2>9. flags' = [text |-> t, at |-> SkipTo(t, h), cookie |-> Flagged(c, <<"HttpOnly">>)]
    BY <1>3, <2>7
  <2>10. CookieRead(flags', cookie)
    BY <2>2, <2>8, <2>9 DEF CookieRead
  <2>11. QED
    BY <2>7, <2>10
<1>6. CASE BeforeSecure(flags, t, cookie)
  <2>1. PICK h : h = HttpOnlyEnds(cookie)
    OBVIOUS
  <2>2. PICK s : s = SecureEnds(cookie)
    OBVIOUS
  <2>3. FlagAt(t, h, "Secure", s) /\ cookie.secure = TRUE
    BY <1>6, <2>1, <2>2, CookieTurns DEF BeforeSecure
  <2>4. flags.at = SkipTo(t, h) /\ c = CookieWith(cookie, cookie.path, cookie.httpOnly, FALSE)
    BY <1>3, <1>6, <2>1 DEF BeforeSecure
  <2>5. ValueEnd(t, flags.at) = s /\ SubSeq(t, flags.at, s - 1) = <<"Secure">>
    BY <1>1, <2>3, <2>4, FlagRead
  <2>6. Separates(t, s) /\ Separator(t, s) = SkipTo(t, s)
    BY <1>1, <2>2, BoundaryScan
  <2>7. flags' = [flags EXCEPT !.at = SkipTo(t, s), !.cookie = Flagged(@, <<"Secure">>)] /\ phase' = phase
    BY <1>2, <2>5, <2>6, FlagNames, FlagTaken
  <2>8. Flagged(c, <<"Secure">>) = cookie
    <3>1. cookie.httpOnly \in BOOLEAN
      BY DEF CookieType
    <3>2. Flagged(c, <<"Secure">>) = CookieWith(cookie, cookie.path, cookie.httpOnly, TRUE)
      BY <2>4, <3>1, FlaggedWith
    <3>3. QED
      BY <2>3, <3>2, WithAll
  <2>9. flags' = [text |-> t, at |-> SkipTo(t, s), cookie |-> Flagged(c, <<"Secure">>)]
    BY <1>3, <2>7
  <2>10. CookieRead(flags', cookie)
    BY <2>2, <2>8, <2>9 DEF CookieRead
  <2>11. QED
    BY <2>7, <2>10
<1>7. CASE BeforeEnd(flags, t, cookie)
  <2>1. flags.at \in Nat /\ flags.at > Len(t)
    BY <1>7, CookieAtEnd DEF BeforeEnd
  <2>2. flags.at <= Len(t)
    BY <1>2 DEF CookieFlag
  <2>3. QED
    BY <1>1, <2>1, <2>2
<1>8. QED
  BY <1>2, <1>4, <1>5, <1>6, <1>7

-----------------------------------------------------------------------------
(* The calls of one line more *)

LEMMA NoCalls ==
    ASSUME NEW lines
    PROVE  CallsOf(lines, 0) = <<>>
<1>1. DOMAIN <<>> = 1 .. 0 /\ <<>> = [x \in DOMAIN <<>> |-> <<>>[x]] /\ 1 .. 0 = {}
  OBVIOUS
<1>2. QED
  BY <1>1 DEF CallsOf

LEMMA CallsAre ==
    ASSUME NEW lines \in Seq(LineType), NEW k \in Nat, k <= Len(lines)
    PROVE  CallsOf(lines, k) \in Seq(LineType) /\ Len(CallsOf(lines, k)) = k
<1>1. \A i \in 1 .. k : lines[i] \in LineType
  <2>1. \A i \in 1 .. k : i \in 1 .. Len(lines)
    BY LenProperties
  <2>2. QED
    BY <2>1, ElementOfSeq
<1>2. CallsOf(lines, k) \in [1 .. k -> LineType]
  BY <1>1 DEF CallsOf
<1>3. QED
  BY <1>2, SeqDef, LenProperties

\* h: the calls of the lines up to k and one for line, which comes j-th.
OneMore(lines, k, j, line, h) ==
    /\ lines \in Seq(LineType) /\ k \in Nat /\ j = k + 1 /\ j <= Len(lines)
    /\ line \in LineType /\ h = Append(CallsOf(lines, k), line)

\* h: those of the lines before j, and then line.
EndsWith(lines, j, line, h) ==
    Len(h) = j /\ h = [i \in 1 .. j |-> IF i = j THEN line ELSE lines[i]]

\* One more turn, for whatever it is given.
LEMMA CallsStep ==
    ASSUME NEW lines, NEW k, NEW j, NEW line, NEW h, OneMore(lines, k, j, line, h)
    PROVE  EndsWith(lines, j, line, h)
<1>1. PICK c : c = CallsOf(lines, k)
  OBVIOUS
<1>2. /\ lines \in Seq(LineType) /\ k \in Nat /\ j = k + 1 /\ j <= Len(lines)
      /\ line \in LineType /\ h = Append(c, line) /\ Len(lines) \in Nat
  BY <1>1, LenProperties DEF OneMore
<1>3. c \in Seq(LineType) /\ Len(c) = k /\ \A i \in 1 .. k : c[i] = lines[i]
  BY <1>1, <1>2, CallsAre DEF CallsOf
<1>4. /\ h \in Seq(LineType) /\ Len(h) = k + 1
      /\ \A i \in 1 .. k : h[i] = c[i]
      /\ h[k + 1] = line
  BY <1>2, <1>3, AppendProperties
<1>5. DOMAIN h = 1 .. j /\ h = [i \in DOMAIN h |-> h[i]]
  BY <1>2, <1>4, LenProperties
<1>6. \A i \in 1 .. j : h[i] = IF i = j THEN line ELSE lines[i]
  <2>1. \A i \in 1 .. j : i \in 1 .. k \/ i = k + 1
    BY <1>2
  <2>2. QED
    BY <1>2, <1>3, <1>4, <2>1
<1>7. QED
  BY <1>2, <1>4, <1>5, <1>6 DEF EndsWith

\* The turn of a line that is no cookie.
LEMMA PlainCalls ==
    ASSUME NEW lines \in Seq(LineType), NEW k \in Nat, NEW j, j = k + 1, j <= Len(lines)
    PROVE  Append(CallsOf(lines, k), lines[j]) = CallsOf(lines, j)
<1>1. PICK line : line = lines[j]
  OBVIOUS
<1>2. line \in LineType
  BY <1>1, LenProperties, ElementOfSeq
<1>3. PICK h : h = Append(CallsOf(lines, k), line)
  OBVIOUS
<1>4. OneMore(lines, k, j, line, h)
  BY <1>2, <1>3 DEF OneMore
<1>5. EndsWith(lines, j, line, h)
  BY <1>4, CallsStep, Zenon
<1>6. h = [i \in 1 .. j |-> lines[i]]
  BY <1>1, <1>5 DEF EndsWith
<1>7. QED
  BY <1>1, <1>3, <1>6 DEF CallsOf

\* h is calls once the line of a cookie at j is read, and g once the cookie is given.
CookieGiven(lines, k, j, cookie, h, g) ==
    /\ lines \in Seq(LineType) /\ k \in Nat /\ j = k + 1 /\ j <= Len(lines)
    /\ lines[j] = CookieLine(cookie)
    /\ h = Append(CallsOf(lines, k), Line(lines[j].name, lines[j].value))
    /\ g = [h EXCEPT ![Len(h)].cookie = cookie]

\* The turn of a cookie's line, once the cookie is given.
LEMMA CookieCalls ==
    ASSUME NEW lines, NEW k, NEW j, NEW cookie, NEW h, NEW g,
           CookieGiven(lines, k, j, cookie, h, g)
    PROVE  Len(h) = j /\ g = CallsOf(lines, j)
<1>1. PICK line : line = Line(lines[j].name, lines[j].value)
  OBVIOUS
<1>2. /\ lines \in Seq(LineType) /\ k \in Nat /\ j = k + 1 /\ j <= Len(lines)
      /\ lines[j] = CookieLine(cookie) /\ h = Append(CallsOf(lines, k), line)
      /\ g = [h EXCEPT ![Len(h)].cookie = cookie]
  BY <1>1 DEF CookieGiven
<1>3. line \in LineType
  <2>1. j \in 1 .. Len(lines)
    BY <1>2, LenProperties
  <2>2. lines[j] \in LineType
    BY <1>2, <2>1, ElementOfSeq
  <2>3. NoCookie \in CookieType
    BY NoTokens DEF NoCookie, CookieType
  <2>4. QED
    BY <1>1, <2>2, <2>3 DEF Line, LineType
<1>4. OneMore(lines, k, j, line, h)
  BY <1>2, <1>3 DEF OneMore
<1>5. EndsWith(lines, j, line, h)
  BY <1>4, CallsStep, Zenon
<1>6. Len(h) = j /\ h = [i \in 1 .. j |-> IF i = j THEN line ELSE lines[i]]
  BY <1>5 DEF EndsWith
<1>7. [line EXCEPT !.cookie = cookie] = lines[j]
  BY <1>1, <1>2 DEF Line, CookieLine
<1>8. j \in 1 .. j
  BY <1>2
<1>9. h[j] = line
  BY <1>6, <1>8
<1>10. g = [h EXCEPT ![j] = lines[j]]
  BY <1>2, <1>6, <1>7, <1>9
<1>11. g = [i \in 1 .. j |-> lines[i]]
  BY <1>6, <1>10
<1>12. QED
  BY <1>6, <1>11 DEF CallsOf

-----------------------------------------------------------------------------
(* Every action keeps the invariant *)

\* The text is that of a message with the lines and the body.
Sent(lines, body, start) ==
    /\ lines \in Seq(LineType) /\ \A i \in DOMAIN lines : IsLine(lines[i])
    /\ body \in Text /\ BeginsWithout(body, Space \ {"cr"})
    /\ text \in Text /\ Holds(text, 1, StatusLineText) /\ Begins(start, text, lines, body)

\* MessageTurns, for a text that is known to be a message's.
LEMMA SentTurns ==
    ASSUME NEW lines, NEW body, NEW start, Sent(lines, body, start)
    PROVE  /\ Len(lines) \in Nat /\ start[1] = 8
           /\ \A i \in 1 .. Len(lines) :
                 /\ start[i] <= Len(text) /\ text[start[i]] # "cr"
                 /\ TurnReads(text, start[i], lines[i], start[i + 1])
                 /\ lines[i] \in LineType /\ IsLine(lines[i])
           /\ text[start[Len(lines) + 1]] = "cr"
           /\ BodyAt(text, start[Len(lines) + 1], body)
<1>1. /\ lines \in Seq(LineType) /\ \A i \in DOMAIN lines : IsLine(lines[i])
      /\ body \in Text /\ BeginsWithout(body, Space \ {"cr"})
      /\ text \in Text /\ Begins(start, text, lines, body)
  BY DEF Sent
<1>2. /\ \A i \in 1 .. Len(lines) :
            /\ start[i] <= Len(text) /\ text[start[i]] # "cr"
            /\ TurnReads(text, start[i], lines[i], start[i + 1])
      /\ text[start[Len(lines) + 1]] = "cr"
      /\ BodyAt(text, start[Len(lines) + 1], body)
  <2>1. ASSUME NEW i \in 1 .. Len(lines)
        PROVE  /\ start[i] <= Len(text) /\ text[start[i]] # "cr"
               /\ TurnReads(text, start[i], lines[i], start[i + 1])
    BY <1>1, MessageTurns
  <2>2. text[start[Len(lines) + 1]] = "cr"
    BY <1>1, MessageTurns
  <2>3. BodyAt(text, start[Len(lines) + 1], body)
    BY <1>1, MessageTurns
  <2>4. QED
    BY <2>1, <2>2, <2>3
<1>3. Len(lines) \in Nat /\ DOMAIN lines = 1 .. Len(lines)
  BY <1>1, LenProperties
<1>4. \A i \in 1 .. Len(lines) : lines[i] \in LineType /\ IsLine(lines[i])
  BY <1>1, <1>3, ElementOfSeq
<1>5. start[1] = 8
  BY <1>1 DEF Begins
<1>6. QED
  BY <1>2, <1>3, <1>4, <1>5

\* StatusLine keeps what is read so far.
LEMMA StatusLineReads ==
    ASSUME NEW lines, NEW body, NEW start, Sent(lines, body, start),
           ReadSoFar(lines, body, start), StatusLine
    PROVE  ReadSoFar(lines, body, start)'
<1>1. calls = <<>>
  BY DEF StatusLine, ReadSoFar, AtLine, InCookie, AbortedAt
<1>2. /\ Word(text, 1) = <<"HTTP/1.1">> /\ NextWord(text, 1) = 3 /\ NextWord(text, 3) = 5
      /\ Until(text, 5, {"cr"}) = 6 /\ CrLf(text, 6) = 8
  <2>1. /\ lines \in Seq(LineType) /\ \A i \in DOMAIN lines : IsLine(lines[i])
        /\ body \in Text /\ BeginsWithout(body, Space \ {"cr"})
        /\ text \in Text /\ Begins(start, text, lines, body) /\ Holds(text, 1, StatusLineText)
    BY DEF Sent
  <2>2. 8 <= Len(text) /\ text[8] \notin Space \ {"cr"}
    BY <2>1, MessageTurns
  <2>3. QED
    BY <2>1, <2>2, StatusLineRead
<1>3. phase' = "headers" /\ ch' = 8 /\ calls' = <<>>
  BY <1>1, <1>2 DEF StatusLine
<1>4. Len(lines) \in Nat /\ start[1] = 8
  BY SentTurns
<1>5. 0 \in 0 .. Len(lines) /\ start[0 + 1] = 8
  BY <1>4
<1>6. CallsOf(lines, 0) = <<>>
  BY NoCalls
<1>7. AtLine(lines, start, 0)'
  BY <1>3, <1>5, <1>6 DEF AtLine
<1>8. QED
  BY <1>5, <1>7 DEF ReadSoFar

\* What a turn of the loop does, for what it reads.
LEMMA TurnStep ==
    ASSUME NEW line, NEW next, TurnReads(text, ch, line, next), HeaderLine
    PROVE  /\ calls' = Append(calls, Line(line.name, line.value)) /\ text' = text
           /\ line.name = <<"Set-Cookie">> =>
                 /\ flags' = [text |-> line.value, at |-> 1, cookie |-> NoCookie]
                 /\ phase' = "name" /\ CrLf(text, ch') = next
           /\ line.name # <<"Set-Cookie">> => phase' = phase /\ ch' = next
<1>1. PICK nameEnd, start, end :
          /\ Until(text, ch, {":"}) = nameEnd
          /\ While(text, After(text, nameEnd), Space) = start
          /\ Until(text, start, {"cr"}) = end
          /\ SubSeq(text, ch, nameEnd - 1) = line.name
          /\ SubSeq(text, start, end - 1) = line.value
          /\ CrLf(text, end) = next
  BY DEF TurnReads
<1>2. ValueStart(nameEnd) = start
  BY <1>1 DEF ValueStart
<1>3. [NoFlags EXCEPT !.text = line.value] = [text |-> line.value, at |-> 1, cookie |-> NoCookie]
  BY DEF NoFlags
<1>4. /\ calls' = Append(calls, Line(line.name, line.value)) /\ text' = text
      /\ line.name = <<"Set-Cookie">> =>
            flags' = [NoFlags EXCEPT !.text = line.value] /\ phase' = "name" /\ ch' = end
      /\ line.name # <<"Set-Cookie">> => phase' = phase /\ ch' = next
  BY <1>1, <1>2 DEF HeaderLine, headerIs
<1>5. QED
  BY <1>1, <1>3, <1>4

\* HeaderLine keeps what is read so far.
LEMMA HeaderLineReads ==
    ASSUME NEW lines, NEW body, NEW start, Sent(lines, body, start),
           ReadSoFar(lines, body, start), HeaderLine
    PROVE  ReadSoFar(lines, body, start)'
<1>1. PICK n : n = Len(lines)
  OBVIOUS
<1>2. /\ n \in Nat /\ lines \in Seq(LineType) /\ text[start[n + 1]] = "cr"
      /\ \A i \in 1 .. n : /\ TurnReads(text, start[i], lines[i], start[i + 1])
                           /\ lines[i] \in LineType /\ IsLine(lines[i])
  BY <1>1, SentTurns DEF Sent
<1>3. PICK k \in 0 .. n : AtLine(lines, start, k)
  BY <1>1 DEF HeaderLine, MoreHeaders, ReadSoFar, InCookie, AbortedAt
<1>4. PICK j : j = k + 1
  OBVIOUS
<1>5. ch = start[j] /\ calls = CallsOf(lines, k) /\ phase = "headers"
  BY <1>3, <1>4 DEF AtLine
<1>6. k \in Nat /\ j \in Nat \ {0} /\ j \in 1 .. n /\ j = k + 1 /\ j <= Len(lines) /\ k = j - 1
  <2>1. text[ch] # "cr"
    BY DEF HeaderLine, MoreHeaders
  <2>2. j # n + 1
    BY <1>2, <1>5, <2>1
  <2>3. QED
    BY <1>1, <1>2, <1>3, <1>4, <2>2
<1>7. PICK line : line = lines[j]
  OBVIOUS
<1>8. PICK next : next = start[j + 1]
  OBVIOUS
<1>9. TurnReads(text, ch, line, next) /\ line \in LineType /\ IsLine(line)
  BY <1>2, <1>5, <1>6, <1>7, <1>8
<1>10. /\ calls' = Append(calls, Line(line.name, line.value)) /\ text' = text
       /\ line.name = <<"Set-Cookie">> =>
             /\ flags' = [text |-> line.value, at |-> 1, cookie |-> NoCookie]
             /\ phase' = "name" /\ CrLf(text, ch') = next
       /\ line.name # <<"Set-Cookie">> => phase' = phase /\ ch' = next
  BY <1>9, TurnStep
<1>11. CASE line.name = <<"Set-Cookie">>
  <2>1. line = CookieLine(line.cookie) /\ IsCookie(line.cookie)
    BY <1>9, <1>11 DEF IsLine
  <2>2. line.value = CookieText(line.cookie)
    BY <2>1 DEF CookieLine
  <2>3. calls' = Append(CallsOf(lines, j - 1), Line(line.name, line.value))
    BY <1>5, <1>6, <1>10
  <2>4. InCookie(lines, start, j)'
    BY <1>7, <1>8, <1>10, <1>11, <2>1, <2>2, <2>3 DEF InCookie
  <2>5. QED
    BY <1>1, <1>6, <2>4 DEF ReadSoFar
<1>12. CASE line.name # <<"Set-Cookie">>
  <2>1. line = Line(line.name, line.value)
    BY <1>9, <1>12 DEF IsLine, CookieLine
  <2>2. calls' = CallsOf(lines, j)
    BY <1>2, <1>5, <1>6, <1>7, <1>10, <2>1, PlainCalls
  <2>3. AtLine(lines, start, j)'
    BY <1>5, <1>8, <1>10, <1>12, <2>2 DEF AtLine
  <2>4. j \in 0 .. Len(lines)
    BY <1>1, <1>6
  <2>5. QED
    BY <2>3, <2>4 DEF ReadSoFar
<1>13. QED
  BY <1>11, <1>12

\* The steps inside a cookie keep it.
LEMMA CookieReads ==
    ASSUME NEW lines, NEW body, NEW start, Sent(lines, body, start),
           ReadSoFar(lines, body, start), BeginCookie \/ CookieFlag \/ EndCookie
    PROVE  ReadSoFar(lines, body, start)'
<1>1. PICK k \in 1 .. Len(lines) : InCookie(lines, start, k)
  BY DEF BeginCookie, CookieFlag, EndCookie, ReadSoFar, AtLine, AbortedAt
<1>2. PICK cookie : cookie = lines[k].cookie
  OBVIOUS
<1>3. cookie \in CookieType /\ IsCookie(cookie)
  <2>1. lines[k] \in LineType
    BY SentTurns
  <2>2. QED
    BY <1>1, <1>2, <2>1 DEF LineType, InCookie
<1>4. PICK t : t = CookieText(cookie)
  OBVIOUS
<1>5. /\ lines[k] = CookieLine(cookie)
      /\ CrLf(text, ch) = start[k + 1]
      /\ calls = Append(CallsOf(lines, k - 1), Line(lines[k].name, lines[k].value))
      /\ \/ phase = "name" /\ flags = [text |-> t, at |-> 1, cookie |-> NoCookie]
         \/ phase = "cookie" /\ CookieRead(flags, cookie)
  BY <1>1, <1>2, <1>4 DEF InCookie
<1>6. PICK j : j = k - 1
  OBVIOUS
<1>7. /\ lines \in Seq(LineType) /\ j \in Nat /\ k = j + 1 /\ k <= Len(lines)
      /\ k \in 0 .. Len(lines)
  <2>1. lines \in Seq(LineType) /\ Len(lines) \in Nat
    BY SentTurns DEF Sent
  <2>2. QED
    BY <1>6, <2>1
<1>8. Len(calls) = k
  <2>1. PICK h : h = calls
    OBVIOUS
  <2>2. PICK g : g = [h EXCEPT ![Len(h)].cookie = cookie]
    OBVIOUS
  <2>3. CookieGiven(lines, j, k, cookie, h, g)
    BY <1>5, <1>6, <1>7, <2>1, <2>2 DEF CookieGiven
  <2>4. Len(h) = k
    BY <2>3, CookieCalls, Zenon
  <2>5. QED
    BY <2>1, <2>4
<1>9. ASSUME CookieRead(flags', cookie), phase' = "cookie",
             UNCHANGED <<text, ch, calls>>
      PROVE  ReadSoFar(lines, body, start)'
  <2>1. InCookie(lines, start, k)'
    BY <1>2, <1>3, <1>5, <1>9 DEF InCookie
  <2>2. QED
    BY <2>1 DEF ReadSoFar
<1>10. CASE BeginCookie
  <2>1. phase = "name" /\ UNCHANGED <<text, ch, calls>>
    BY <1>10 DEF BeginCookie
  <2>2. flags = [text |-> t, at |-> 1, cookie |-> NoCookie]
    BY <1>5, <2>1
  <2>3. CASE Without(cookie.name, Space)
    <3>1. phase' = "cookie" /\ CookieRead(flags', cookie)
      BY <1>3, <1>4, <1>10, <2>2, <2>3, BeginCookieReads
    <3>2. QED
      BY <1>9, <2>1, <3>1
  <2>4. CASE ~Without(cookie.name, Space)
    <3>1. flags.text = t
      BY <2>2
    <3>2. phase' = "aborted"
      BY <1>3, <1>4, <1>10, <2>4, <3>1, BeginCookieAborts
    <3>3. Len(calls') = k
      BY <1>8, <2>1
    <3>4. AbortedAt(lines, k)'
      BY <1>2, <2>4, <3>2, <3>3 DEF AbortedAt
    <3>5. QED
      BY <3>4 DEF ReadSoFar
  <2>5. QED
    BY <2>3, <2>4
<1>11. CASE CookieFlag
  <2>1. phase = "cookie" /\ UNCHANGED <<text, ch, calls>>
    BY <1>11 DEF CookieFlag
  <2>2. CookieRead(flags, cookie)
    BY <1>5, <2>1
  <2>3. phase' = phase /\ CookieRead(flags', cookie)
    BY <1>3, <1>4, <1>11, <2>2, CookieFlagReads
  <2>4. QED
    BY <1>9, <2>1, <2>3
<1>12. CASE EndCookie
  <2>1. /\ phase = "cookie" /\ flags.at > Len(flags.text)
        /\ calls' = [calls EXCEPT ![Len(calls)].cookie = flags.cookie]
        /\ ch' = CrLf(text, ch) /\ phase' = "headers" /\ text' = text
    BY <1>12 DEF EndCookie
  <2>2. CookieRead(flags, cookie)
    BY <1>5, <2>1
  <2>3. flags.cookie = cookie
    BY <1>3, <1>4, <2>1, <2>2, CookieAtEnd
  <2>4. calls' = CallsOf(lines, k)
    <3>1. lines[k] = CookieLine(cookie) /\ calls = Append(CallsOf(lines, j), Line(lines[k].name, lines[k].value))
      BY <1>5, <1>6
    <3>2. PICK h : h = calls
      OBVIOUS
    <3>3. h = Append(CallsOf(lines, j), Line(lines[k].name, lines[k].value))
      BY <3>1, <3>2
    <3>4. PICK g : g = [h EXCEPT ![Len(h)].cookie = cookie]
      OBVIOUS
    <3>5. CookieGiven(lines, j, k, cookie, h, g)
      BY <1>7, <3>1, <3>3, <3>4 DEF CookieGiven
    <3>6. g = CallsOf(lines, k)
      BY <3>5, CookieCalls, Zenon
    <3>7. QED
      BY <2>1, <2>3, <3>2, <3>4, <3>6
  <2>5. AtLine(lines, start, k)'
    BY <1>5, <2>1, <2>4 DEF AtLine
  <2>6. QED
    BY <1>7, <2>5 DEF ReadSoFar
<1>13. QED
  BY <1>10, <1>11, <1>12

\* Body keeps it.
LEMMA BodyReads ==
    ASSUME NEW lines, NEW body, NEW start, Sent(lines, body, start),
           ReadSoFar(lines, body, start), Body
    PROVE  ReadSoFar(lines, body, start)'
<1>1. PICK n : n = Len(lines)
  OBVIOUS
<1>2. /\ n \in Nat
      /\ \A i \in 1 .. n : start[i] <= Len(text) /\ text[start[i]] # "cr"
      /\ BodyAt(text, start[n + 1], body)
  BY <1>1, SentTurns
<1>3. PICK k \in 0 .. n : AtLine(lines, start, k)
  BY <1>1 DEF Body, ReadSoFar, InCookie, AbortedAt
<1>4. phase = "headers" /\ ch = start[k + 1] /\ calls = CallsOf(lines, k)
  BY <1>3 DEF AtLine
<1>5. k = n
  <2>1. ~(ch <= Len(text) /\ text[ch] # "cr")
    BY <1>4 DEF Body, MoreHeaders
  <2>2. k + 1 \in 1 .. n \/ k = n
    BY <1>2, <1>3
  <2>3. QED
    BY <1>2, <1>4, <2>1, <2>2
<1>6. phase' = "done" /\ data' = body /\ calls' = calls
  BY <1>2, <1>4, <1>5 DEF Body, BodyAt
<1>7. QED
  BY <1>1, <1>4, <1>5, <1>6 DEF ReadSoFar

\* A stutter keeps it.
LEMMA NothingReads ==
    ASSUME NEW lines, NEW body, NEW start, ReadSoFar(lines, body, start), UNCHANGED messageVars
    PROVE  ReadSoFar(lines, body, start)'
<1>1. /\ text' = text /\ phase' = phase /\ ch' = ch /\ flags' = flags
      /\ calls' = calls /\ data' = data
  BY DEF messageVars
<1>2. \A k : AtLine(lines, start, k) => AtLine(lines, start, k)'
  BY <1>1 DEF AtLine
<1>3. \A k : InCookie(lines, start, k) \/ AbortedAt(lines, k) =>
                InCookie(lines, start, k)' \/ AbortedAt(lines, k)'
  BY <1>1 DEF InCookie, AbortedAt
<1>4. QED
  BY <1>1, <1>2, <1>3 DEF ReadSoFar

-----------------------------------------------------------------------------
(* What is read *)

\* The text of a message is what the lemmas about a server's text ask for.
LEMMA MessageIsSent ==
    ASSUME NEW m \in Messages, NEW start, text = MessageText(m),
           Begins(start, text, m.lines, m.body)
    PROVE  Sent(m.lines, m.body, start)
<1>1. /\ m.lines \in Seq(LineType) /\ m.body \in Text
      /\ \A i \in DOMAIN m.lines : IsLine(m.lines[i])
      /\ BeginsWithout(m.body, Space \ {"cr"})
  BY MessageAssumption
<1>2. text = StatusLineText \o FlattenSeq(LineTexts(m.lines)) \o NewLine \o m.body
  BY DEF MessageText, LineTexts, NewLine
<1>3. text \in Text /\ Holds(text, 1, StatusLineText)
  BY <1>1, <1>2, MessageParts
<1>4. QED
  BY <1>1, <1>3 DEF Sent

LEMMA ReadingBegins == MessageInit => Reading
<1> SUFFICES ASSUME MessageInit, message # <<>> PROVE Reading
  BY DEF Reading
<1>1. PICK m \in Messages : message = <<m>> /\ text = MessageText(m)
  BY DEF MessageInit
<1>2. m.lines \in Seq(LineType) /\ m.body \in Text
  BY MessageAssumption
<1>3. text = StatusLineText \o FlattenSeq(LineTexts(m.lines)) \o NewLine \o m.body
  BY <1>1 DEF MessageText, LineTexts, NewLine
<1>4. PICK start : Begins(start, text, m.lines, m.body)
  BY <1>2, <1>3, MessageParts
<1>5. ReadSoFar(m.lines, m.body, start)
  BY DEF MessageInit, ReadSoFar
<1>6. QED
  BY <1>1, <1>4, <1>5 DEF Reading

LEMMA ReadingStays == Reading /\ [Parsing \/ Returned]_messageVars => Reading'
<1> SUFFICES ASSUME Reading, [Parsing \/ Returned]_messageVars, message' # <<>> PROVE Reading'
  BY DEF Reading
<1>1. message' = message /\ text' = text
  BY DEF Parsing, StatusLine, HeaderLine, BeginCookie, CookieFlag, EndCookie, Body, Returned,
         messageVars
<1>2. PICK m, start :
          /\ m \in Messages
          /\ message = <<m>> /\ text = MessageText(m)
          /\ Begins(start, text, m.lines, m.body)
          /\ ReadSoFar(m.lines, m.body, start)
  BY <1>1 DEF Reading
<1>3. PICK lines : lines = m.lines
  OBVIOUS
<1>4. PICK body : body = m.body
  OBVIOUS
<1>5. Sent(lines, body, start) /\ ReadSoFar(lines, body, start)
  BY <1>2, <1>3, <1>4, MessageIsSent
<1>6. ReadSoFar(lines, body, start)'
  <2>1. CASE StatusLine
    BY <1>5, <2>1, StatusLineReads
  <2>2. CASE HeaderLine
    BY <1>5, <2>2, HeaderLineReads
  <2>3. CASE BeginCookie \/ CookieFlag \/ EndCookie
    BY <1>5, <2>3, CookieReads
  <2>4. CASE Body
    BY <1>5, <2>4, BodyReads
  <2>5. CASE UNCHANGED messageVars
    BY <1>5, <2>5, NothingReads
  <2>6. QED
    BY <2>1, <2>2, <2>3, <2>4, <2>5 DEF Parsing, Returned
<1>7. Begins(start, text', m.lines, m.body)
  BY <1>1, <1>2
<1>8. QED
  BY <1>1, <1>2, <1>3, <1>4, <1>6, <1>7 DEF Reading

\* At the end the invariant is the property.
LEMMA ReadingIsRead == Reading => ParsedAsSent
<1> SUFFICES ASSUME Reading, message # <<>> PROVE ParsedAsSent
  BY DEF ParsedAsSent
<1> DEFINE sent == message[1].lines
<1>1. PICK m, start :
          /\ m \in Messages
          /\ message = <<m>> /\ ReadSoFar(m.lines, m.body, start)
  BY DEF Reading
<1>2. m = message[1] /\ sent \in Seq(LineType)
  BY <1>1, MessageAssumption
<1>3. ReadSoFar(sent, message[1].body, start)
  BY <1>1, <1>2
<1>4. DOMAIN sent = 1 .. Len(sent)
  BY <1>2, LenProperties
<1>5. phase # "failed"
  BY <1>3 DEF ReadSoFar, AtLine, InCookie, AbortedAt
<1>6. ASSUME phase = "aborted"
      PROVE  Len(calls) \in DOMAIN sent /\ ~Without(sent[Len(calls)].cookie.name, Space)
  <2>1. PICK k \in 1 .. Len(sent) : AbortedAt(sent, k)
    BY <1>3, <1>6 DEF ReadSoFar, AtLine, InCookie
  <2>2. QED
    BY <1>4, <2>1 DEF AbortedAt
<1>7. ASSUME phase = "done" PROVE calls = sent /\ data = message[1].body
  <2>1. calls = CallsOf(sent, Len(sent)) /\ data = message[1].body
    BY <1>3, <1>7 DEF ReadSoFar, AtLine, InCookie, AbortedAt
  <2>2. sent = [i \in 1 .. Len(sent) |-> sent[i]]
    BY <1>2, <1>4, LenProperties
  <2>3. QED
    BY <2>1, <2>2 DEF CallsOf
<1>8. QED
  BY <1>5, <1>6, <1>7, Zenon DEF ParsedAsSent

\* Every message that a server writes, of any number of headers and cookies and
\* with any text in them that MessageAssumption allows, is read as it was written:
\* parseResponse does not throw, and calls the setters of Response with every header,
\* with each cookie and all its flags, and with the body; only a cookie whose name
\* has white space in it, which nothing keeps a server from sending, runs it into
\* the assertion in parseSeparator (Response.cpp:22-50, Cookie.cpp:20-55).
THEOREM MessagesAreReadBack == MessageSpec => []ParsedAsSent
<1>1. MessageSpec => []Reading
  BY ReadingBegins, ReadingStays, PTL DEF MessageSpec
<1>2. QED
  BY <1>1, ReadingIsRead, PTL

=============================================================================

--------------------------- MODULE ExchangeProofs ---------------------------
(***************************************************************************)
(* Theorems about Sessions and Exchange, for any number of clients,        *)
(* requests and orders.                                                    *)
(*                                                                         *)
(* First the connections alone.  In each direction the socket holds pieces *)
(* of consecutive messages and ends with the last piece of the last one    *)
(* sent, and the invariant says which messages these are: that is what the *)
(* counters asked, served and shown have to agree with.  Then the          *)
(* exchange: its steps are steps of the connections and of the engine, so  *)
(* what is proved of these holds of the whole, once it is proved that      *)
(* clients only send requests the engine's Next allows for.                *)
(***************************************************************************)
EXTENDS Exchange, LedgerProofs

Peers == Clients \cup {NoClient}
Places == {"off", "idle", "waiting", "failed", "gone"}

\* The types of the server's and the clients' variables.
ServerTypes ==
    /\ up \in BOOLEAN
    /\ created \in Nat
    /\ live \subseteq 1 .. created
    /\ peer \in Seq(Peers) /\ Len(peer) = created
    /\ pending \subseteq live \X Operations
    /\ backlog \in Seq(Clients)

ClientTypes ==
    /\ at \in [Clients -> Places]
    /\ known \in [Clients -> BOOLEAN]
    /\ wants \in [Clients -> Replies]
    /\ asked \in [Clients -> 0 .. MaxRequests]
    /\ shown \in [Clients -> 0 .. MaxRequests]
    /\ served \in [Clients -> Nat]
    /\ toServer \in [Clients -> Seq(Pieces)]
    /\ toClient \in [Clients -> Seq(Pieces)]

\* The one operation a session waits for.
Waits(s, op) == {o \in Operations : <<s, o>> \in pending} = {op}

EachWaits ==
    \A s \in live : /\ \E op \in Operations : Waits(s, op)
                    /\ <<s, "accept">> \in pending <=> peer[s] = NoClient

\* A client connects once, so that it has one place among the connections; while
\* the server runs it has that place from the time it connects until it leaves.
OnePlace ==
    /\ \A i, j \in DOMAIN backlog : backlog[i] = backlog[j] => i = j
    /\ \A s, t \in live : peer[s] = peer[t] /\ peer[s] # NoClient => s = t
    /\ \A i \in DOMAIN backlog, s \in live : backlog[i] # peer[s]

HasPlace(c) == (\E i \in DOMAIN backlog : backlog[i] = c) \/ (\E s \in live : peer[s] = c)

Placed ==
    \A c \in Clients : /\ up /\ Present(c) => HasPlace(c)
                       /\ at[c] = "off" => ~HasPlace(c)

\* The piece q comes next after the piece p.
Successive(p, q) ==
    IF p.part < p.of THEN q.n = p.n /\ q.of = p.of /\ q.part = p.part + 1
                     ELSE q.n = p.n + 1 /\ q.part = 1

\* The bytes are the end of a stream of messages of which n is the last.
Stream(bytes, n) ==
    /\ \A i \in 1 .. Len(bytes) : bytes[i].n <= n
    /\ \A i \in 1 .. (Len(bytes) - 1) : Successive(bytes[i], bytes[i + 1])
    /\ Len(bytes) # 0 => bytes[Len(bytes)].n = n /\ bytes[Len(bytes)].part = bytes[Len(bytes)].of

\* Of the requests a client has sent, only orders may have been followed by another
\* one before their reply was read.
KindOf(n, want, sent) == IF n = sent THEN want ELSE "order"

\* The messages under way there and back, after sent requests of which the last wants
\* a reply of a kind and run have been run, when the client was shown reply seen.
Transit(there, back, want, sent, run, seen, where) ==
    /\ Stream(there, sent) /\ Stream(back, run)
    /\ IF Len(there) = 0 THEN run = sent ELSE there[1].n = run + 1 /\ there[1].part = 1
    /\ seen <= run /\ run <= sent
    /\ \A i \in 1 .. Len(there) : there[i].kind = KindOf(there[i].n, want, sent)
    /\ \A i \in 1 .. Len(back) : back[i].kind = KindOf(back[i].n, want, sent)
    /\ where \in {"off", "idle"} /\ want # "order" => seen = sent /\ Len(back) = 0

UnderWay(there, back, want, sent, run, seen, where) ==
    /\ there \in Seq(Pieces) /\ back \in Seq(Pieces)
    /\ sent \in Nat /\ run \in Nat /\ seen \in Nat
    /\ Transit(there, back, want, sent, run, seen, where)

InTransit(c) ==
    Transit(toServer[c], toClient[c], wants[c], asked[c], served[c], shown[c], at[c])

SessionsIInv ==
    /\ ServerTypes /\ ClientTypes
    /\ EachWaits
    /\ OnePlace /\ Placed
    /\ \A c \in Clients : InTransit(c)

-----------------------------------------------------------------------------
(* Messages in pieces *)

\* The bytes are all the pieces of message n.
MessageOf(bytes, n, kind, ok) ==
    /\ bytes \in Seq(Pieces) /\ Len(bytes) \in 1 .. 2
    /\ \A i \in 1 .. Len(bytes) : /\ bytes[i].n = n /\ bytes[i].part = i /\ bytes[i].of = Len(bytes)
                                  /\ bytes[i].kind = kind /\ bytes[i].ok = ok

\* A message is all of its pieces, which say the same of it.
LEMMA MessageTypes ==
    ASSUME NEW n \in 1 .. MaxRequests, NEW kind \in Replies, NEW ok \in BOOLEAN,
           NEW pieces \in 1 .. 2
    PROVE  MessageOf(Message(n, kind, ok, pieces), n, kind, ok)
<1>0. PICK m : m = Message(n, kind, ok, pieces)
  OBVIOUS
<1>1. \A i \in 1 .. pieces : [n |-> n, kind |-> kind, ok |-> ok, part |-> i, of |-> pieces] \in Pieces
  BY DEF Pieces
<1>2. m \in [1 .. pieces -> Pieces]
  BY <1>0, <1>1 DEF Message
<1>3. m \in Seq(Pieces) /\ Len(m) = pieces
  BY <1>2, LenProperties, SeqDef
<1>4. \A i \in 1 .. pieces :
        m[i] = [n |-> n, kind |-> kind, ok |-> ok, part |-> i, of |-> pieces]
  BY <1>0 DEF Message
<1>5. QED
  BY <1>0, <1>3, <1>4 DEF MessageOf

Joined(all, bytes, m) == all = bytes \o m
Taken(bytes, k, rest) == k \in 1 .. Len(bytes) /\ rest = Consumed(bytes, k)

\* A message is added to a stream.
LEMMA StreamExtended ==
    ASSUME NEW bytes \in Seq(Pieces), NEW n \in Nat, Stream(bytes, n),
           NEW m, NEW kind, NEW ok, MessageOf(m, n + 1, kind, ok),
           NEW all, Joined(all, bytes, m)
    PROVE  /\ all \in Seq(Pieces) /\ Stream(all, n + 1)
           /\ Len(all) # 0 /\ Len(all) = Len(bytes) + Len(m)
           /\ \A i \in 1 .. Len(bytes) : all[i] = bytes[i]
           /\ \A i \in 1 .. Len(all) : i \notin 1 .. Len(bytes) =>
                 all[i].n = n + 1 /\ all[i].kind = kind /\ all[i].ok = ok
           /\ Len(bytes) = 0 => all[1].part = 1
           /\ all[Len(all)].ok = ok
<1>1. Len(bytes) \in Nat /\ \A i \in 1 .. Len(bytes) : bytes[i] \in Pieces
  BY LenProperties, ElementOfSeq
<1>2. m \in Seq(Pieces) /\ Len(m) \in 1 .. 2
  BY DEF MessageOf
<1>3. /\ all \in Seq(Pieces) /\ Len(all) = Len(bytes) + Len(m)
      /\ \A i \in 1 .. Len(bytes) + Len(m) :
            all[i] = IF i <= Len(bytes) THEN bytes[i] ELSE m[i - Len(bytes)]
  BY <1>2, ConcatProperties DEF Joined
<1>4. PICK L, M : L = Len(bytes) /\ M = Len(m)
  OBVIOUS
<1>5. /\ L \in Nat /\ M \in 1 .. 2 /\ Len(all) = L + M
      /\ \A i \in 1 .. L : all[i] = bytes[i]
      /\ \A i \in 1 .. (L + M) : i \notin 1 .. L => all[i] = m[i - L] /\ i - L \in 1 .. M
  BY <1>1, <1>2, <1>3, <1>4
<1>6. \A j \in 1 .. M : /\ m[j].n = n + 1 /\ m[j].part = j /\ m[j].of = M
                        /\ m[j].kind = kind /\ m[j].ok = ok
  BY <1>4 DEF MessageOf
<1>7. \A i \in 1 .. (L + M) : i \notin 1 .. L =>
         /\ all[i].n = n + 1 /\ all[i].part = i - L /\ all[i].of = M
         /\ all[i].kind = kind /\ all[i].ok = ok
  BY <1>5, <1>6
<1>8. /\ \A i \in 1 .. L : bytes[i].n <= n
      /\ \A i \in 1 .. (L - 1) : Successive(bytes[i], bytes[i + 1])
      /\ L # 0 => bytes[L].n = n /\ bytes[L].part = bytes[L].of
  BY <1>4 DEF Stream
<1>9. \A i \in 1 .. L : bytes[i].n \in Nat /\ bytes[i].part \in Nat /\ bytes[i].of \in Nat
  BY <1>1, <1>4 DEF Pieces
<1>10. ASSUME NEW i \in 1 .. (L + M - 1) PROVE Successive(all[i], all[i + 1])
  <2>1. CASE i + 1 \in 1 .. L
    <3>1. i \in 1 .. (L - 1) /\ i \in 1 .. L
      BY <1>5, <2>1
    <3>2. QED
      BY <1>5, <1>8, <2>1, <3>1
  <2>2. CASE i = L
    <3>1. all[i] = bytes[L] /\ L \in 1 .. L /\ L # 0
      BY <1>5, <2>2
    <3>2. all[i + 1].n = n + 1 /\ all[i + 1].part = 1
      <4>1. i + 1 \in 1 .. (L + M) /\ i + 1 \notin 1 .. L /\ (i + 1) - L = 1
        BY <1>5, <2>2
      <4>2. QED
        BY <1>7, <4>1
    <3>3. QED
      BY <1>8, <1>9, <3>1, <3>2 DEF Successive
  <2>3. CASE i \notin 1 .. L
    <3>1. i = L + 1 /\ M = 2
      BY <1>5, <2>3
    <3>2. /\ all[i].n = n + 1 /\ all[i].part = 1 /\ all[i].of = 2
          /\ all[i + 1].n = n + 1 /\ all[i + 1].part = 2 /\ all[i + 1].of = 2
      BY <1>5, <1>7, <3>1
    <3>3. QED
      BY <3>2 DEF Successive
  <2>4. QED
    BY <1>5, <2>1, <2>2, <2>3
<1>11. all[L + M].n = n + 1 /\ all[L + M].part = all[L + M].of /\ all[L + M].ok = ok
  <2>1. L + M \in 1 .. (L + M) /\ L + M \notin 1 .. L /\ (L + M) - L = M
    BY <1>5
  <2>2. PICK e : e = L + M
    OBVIOUS
  <2>3. e \in 1 .. (L + M) /\ e \notin 1 .. L /\ e - L = M
    BY <2>1, <2>2
  <2>4. all[e].n = n + 1 /\ all[e].part = e - L /\ all[e].of = M /\ all[e].ok = ok
    BY <1>7, <2>3
  <2>5. QED
    BY <2>2, <2>3, <2>4
<1>12. ASSUME NEW i \in 1 .. (L + M) PROVE all[i].n <= n + 1
  <2>1. CASE i \in 1 .. L
    <3>1. all[i] = bytes[i] /\ bytes[i].n <= n /\ bytes[i].n \in Nat
      BY <1>5, <1>8, <1>9, <2>1
    <3>2. QED
      BY <3>1
  <2>2. CASE i \notin 1 .. L
    <3>1. PICK x : x = all[i].n
      OBVIOUS
    <3>2. x = n + 1
      BY <1>7, <2>2, <3>1
    <3>3. n + 1 <= n + 1
      OBVIOUS
    <3>4. QED
      BY <3>1, <3>2, <3>3, Zenon
  <2>3. QED
    BY <2>1, <2>2
<1>13. Stream(all, n + 1)
  <2>1. PICK e : e = L + M
    OBVIOUS
  <2>2. /\ \A i \in 1 .. e : all[i].n <= n + 1
        /\ \A i \in 1 .. (e - 1) : Successive(all[i], all[i + 1])
        /\ all[e].n = n + 1 /\ all[e].part = all[e].of
        /\ e = Len(all)
    BY <1>5, <1>10, <1>11, <1>12, <2>1
  <2>3. QED
    BY <2>2 DEF Stream
<1>14. L = 0 => all[1].part = 1
  BY <1>5, <1>7
<1>15. QED
  BY <1>3, <1>4, <1>5, <1>7, <1>11, <1>13, <1>14

\* The first pieces of a stream are read.
LEMMA StreamConsumed ==
    ASSUME NEW bytes \in Seq(Pieces), NEW n, Stream(bytes, n),
           NEW k \in 1 .. Len(bytes), NEW rest, rest = Consumed(bytes, k)
    PROVE  /\ rest \in Seq(Pieces) /\ Stream(rest, n)
           /\ Len(rest) = Len(bytes) - k
           /\ \A i \in 1 .. Len(rest) : rest[i] = bytes[k + i] /\ k + i \in 1 .. Len(bytes)
<1>1. Len(bytes) \in Nat /\ \A i \in 1 .. Len(bytes) : bytes[i] \in Pieces
  BY LenProperties, ElementOfSeq
<1>2. PICK L : L = Len(bytes)
  OBVIOUS
<1>3. L \in Nat /\ k \in 1 .. L /\ \A i \in (k + 1) .. L : bytes[i] \in Pieces
  BY <1>1, <1>2
<1>4. /\ rest \in Seq(Pieces)
      /\ Len(rest) = IF k + 1 <= L THEN L - (k + 1) + 1 ELSE 0
      /\ \A i \in 1 .. L - (k + 1) + 1 : rest[i] = bytes[(k + 1) + i - 1]
  BY <1>2, <1>3, SubSeqProperties DEF Consumed
<1>5. /\ rest \in Seq(Pieces) /\ Len(rest) = L - k
      /\ \A i \in 1 .. (L - k) : rest[i] = bytes[k + i] /\ k + i \in 1 .. L
  BY <1>3, <1>4
<1>6. /\ \A i \in 1 .. L : bytes[i].n <= n
      /\ \A i \in 1 .. (L - 1) : Successive(bytes[i], bytes[i + 1])
      /\ L # 0 => bytes[L].n = n /\ bytes[L].part = bytes[L].of
  BY <1>2 DEF Stream
<1>7. \A i \in 1 .. (L - k) : rest[i].n <= n
  BY <1>5, <1>6
<1>8. ASSUME NEW i \in 1 .. (L - k - 1) PROVE Successive(rest[i], rest[i + 1])
  <2>1. /\ i \in 1 .. (L - k) /\ i + 1 \in 1 .. (L - k)
        /\ k + i \in 1 .. (L - 1) /\ k + (i + 1) = (k + i) + 1
    BY <1>3
  <2>2. rest[i] = bytes[k + i] /\ rest[i + 1] = bytes[(k + i) + 1]
    BY <1>5, <2>1
  <2>3. QED
    BY <1>6, <2>1, <2>2
<1>9. ASSUME L - k # 0 PROVE rest[L - k].n = n /\ rest[L - k].part = rest[L - k].of
  <2>1. L - k \in 1 .. (L - k) /\ k + (L - k) = L /\ L # 0
    BY <1>3, <1>9
  <2>2. rest[L - k] = bytes[L]
    BY <1>5, <2>1
  <2>3. QED
    BY <1>6, <2>1, <2>2
<1>10. Stream(rest, n)
  BY <1>5, <1>7, <1>8, <1>9 DEF Stream
<1>11. QED
  BY <1>2, <1>5, <1>10

\* When the pieces read first are a message, it is the first of the stream, and what
\* follows is the next one.
LEMMA WholeComesFirst ==
    ASSUME NEW bytes \in Seq(Pieces), NEW n, Stream(bytes, n),
           NEW k \in 1 .. Len(bytes), IsWhole(SubSeq(bytes, 1, k))
    PROVE  /\ Head(SubSeq(bytes, 1, k)) = bytes[1]
           /\ bytes[k].n = bytes[1].n
           /\ IF k = Len(bytes) THEN bytes[1].n = n
              ELSE bytes[k + 1].n = bytes[1].n + 1 /\ bytes[k + 1].part = 1
<1>1. Len(bytes) \in Nat /\ \A i \in 1 .. Len(bytes) : bytes[i] \in Pieces
  BY LenProperties, ElementOfSeq
<1>2. PICK L : L = Len(bytes)
  OBVIOUS
<1>3. L \in Nat /\ k \in 1 .. L /\ 1 \in 1 .. L /\ \A i \in 1 .. k : bytes[i] \in Pieces
  BY <1>1, <1>2
<1>4. PICK b : b = SubSeq(bytes, 1, k)
  OBVIOUS
<1>5. b \in Seq(Pieces) /\ Len(b) = k /\ b[1] = bytes[1]
  BY <1>3, <1>4, SubSeqProperties
<1>6. b # <<>> /\ Head(b) = b[1]
  BY <1>3, <1>5, HeadTailProperties
<1>7. bytes[1].of = k /\ bytes[1].part = 1
  BY <1>4, <1>5, <1>6 DEF IsWhole
<1>8. /\ k \in 1 .. 2
      /\ \A i \in 1 .. L : bytes[i].n \in Nat /\ bytes[i].part \in Nat /\ bytes[i].of \in Nat
  BY <1>1, <1>2, <1>3, <1>7 DEF Pieces
<1>9. /\ \A i \in 1 .. (L - 1) : Successive(bytes[i], bytes[i + 1])
      /\ L # 0 => bytes[L].n = n /\ bytes[L].part = bytes[L].of
  BY <1>2 DEF Stream
<1>10. bytes[k].n = bytes[1].n /\ bytes[k].part = bytes[k].of
  <2>1. CASE k = 1
    BY <1>7, <2>1
  <2>2. CASE k = 2
    <3>1. 1 \in 1 .. (L - 1)
      BY <1>3, <2>2
    <3>2. Successive(bytes[1], bytes[2])
      BY <1>9, <3>1
    <3>3. QED
      BY <1>7, <2>2, <3>2 DEF Successive
  <2>3. QED
    BY <1>8, <2>1, <2>2
<1>11. ASSUME k # L PROVE bytes[k + 1].n = bytes[1].n + 1 /\ bytes[k + 1].part = 1
  <2>1. k \in 1 .. (L - 1) /\ k \in 1 .. L
    BY <1>3, <1>11
  <2>2. Successive(bytes[k], bytes[k + 1])
    BY <1>9, <2>1
  <2>3. QED
    BY <1>8, <1>10, <2>1, <2>2 DEF Successive
<1>12. k = L => bytes[1].n = n
  BY <1>3, <1>9, <1>10
<1>13. QED
  BY <1>2, <1>4, <1>5, <1>6, <1>10, <1>11, <1>12

\* The last of the first k pieces.
LEMMA LastRead ==
    ASSUME NEW bytes \in Seq(Pieces), NEW k \in 1 .. Len(bytes)
    PROVE  SubSeq(bytes, 1, k)[k] = bytes[k] /\ bytes[k] \in Pieces
<1>1. Len(bytes) \in Nat /\ \A i \in 1 .. Len(bytes) : bytes[i] \in Pieces
  BY LenProperties, ElementOfSeq
<1>2. k \in Nat /\ 1 <= k /\ \A i \in 1 .. k : bytes[i] \in Pieces
  BY <1>1
<1>3. \A i \in 1 .. k - 1 + 1 : SubSeq(bytes, 1, k)[i] = bytes[1 + i - 1]
  BY <1>2, SubSeqProperties
<1>4. QED
  BY <1>2, <1>3

-----------------------------------------------------------------------------
(* What is under way *)

\* A client that waits for nothing but an answer to an order may have bytes of earlier
\* answers to come; otherwise nothing is under way.
LEMMA NothingUnderWay ==
    ASSUME NEW there \in Seq(Pieces), NEW back, NEW want, NEW sent \in Nat, NEW run \in Nat,
           NEW seen \in Nat, NEW where \in {"off", "idle"},
           Transit(there, back, want, sent, run, seen, where), want # "order"
    PROVE  Len(there) = 0 /\ Len(back) = 0
<1>1. Len(there) \in Nat /\ \A i \in 1 .. Len(there) : there[i] \in Pieces
  BY LenProperties, ElementOfSeq
<1>2. PICK L : L = Len(there)
  OBVIOUS
<1>3. /\ seen = sent /\ Len(back) = 0 /\ seen <= run /\ run <= sent
      /\ IF L = 0 THEN run = sent ELSE there[1].n = run + 1 /\ there[1].part = 1
      /\ \A i \in 1 .. L : there[i].n <= sent
  BY <1>2 DEF Transit, Stream
<1>4. ASSUME L # 0 PROVE FALSE
  <2>1. 1 \in 1 .. L
    BY <1>1, <1>2, <1>4
  <2>2. there[1].n <= sent /\ there[1].n = run + 1
    BY <1>3, <1>4, <2>1
  <2>3. QED
    BY <1>3, <2>2
<1>5. QED
  BY <1>2, <1>3, <1>4

\* A client that does not wait sends a request.
LEMMA RequestSent ==
    ASSUME NEW there \in Seq(Pieces), NEW back \in Seq(Pieces), NEW want, NEW sent \in Nat,
           NEW run \in Nat, NEW seen \in Nat,
           Transit(there, back, want, sent, run, seen, "idle"),
           NEW m, NEW kind, NEW ok, MessageOf(m, sent + 1, kind, ok),
           NEW all, Joined(all, there, m)
    PROVE  all \in Seq(Pieces) /\ Transit(all, back, kind, sent + 1, run, seen, "waiting")
<1>0. Stream(there, sent)
  BY DEF Transit
<1>1. /\ all \in Seq(Pieces) /\ Stream(all, sent + 1)
      /\ Len(all) # 0 /\ Len(all) = Len(there) + Len(m)
      /\ \A i \in 1 .. Len(there) : all[i] = there[i]
      /\ \A i \in 1 .. Len(all) : i \notin 1 .. Len(there) =>
            all[i].n = sent + 1 /\ all[i].kind = kind /\ all[i].ok = ok
      /\ Len(there) = 0 => all[1].part = 1
  BY <1>0, StreamExtended
<1>2. /\ \A i \in 1 .. Len(there) : there[i] \in Pieces
      /\ \A i \in 1 .. Len(back) : back[i] \in Pieces
      /\ Len(there) \in Nat /\ Len(all) \in Nat
  BY <1>1, LenProperties, ElementOfSeq
<1>3. PICK L, M, B : L = Len(there) /\ M = Len(all) /\ B = Len(back)
  OBVIOUS
<1>4. /\ L \in Nat /\ M \in Nat /\ M # 0
      /\ \A i \in 1 .. L : all[i] = there[i]
      /\ \A i \in 1 .. M : i \notin 1 .. L => all[i].n = sent + 1 /\ all[i].kind = kind
      /\ L = 0 => all[1].part = 1
      /\ \A i \in 1 .. L : there[i].n \in Nat
      /\ \A i \in 1 .. B : back[i].n \in Nat
  BY <1>1, <1>2, <1>3 DEF Pieces
<1>5. /\ Stream(back, run) /\ seen <= run /\ run <= sent
      /\ IF L = 0 THEN run = sent ELSE there[1].n = run + 1 /\ there[1].part = 1
      /\ \A i \in 1 .. L : there[i].n <= sent
      /\ \A i \in 1 .. B : back[i].n <= run
  BY <1>3 DEF Transit, Stream
<1>6. /\ \A i \in 1 .. L : there[i].kind = "order"
      /\ \A i \in 1 .. B : back[i].kind = "order"
  <2>1. CASE want = "order"
    BY <1>3, <2>1 DEF Transit, KindOf
  <2>2. CASE want # "order"
    <3>1. L = 0 /\ B = 0
      BY <1>3, <2>2, NothingUnderWay
    <3>2. QED
      BY <3>1
  <2>3. QED
    BY <2>1, <2>2
<1>7. ASSUME NEW i \in 1 .. M PROVE all[i].kind = KindOf(all[i].n, kind, sent + 1)
  <2>1. CASE i \in 1 .. L
    <3>1. all[i].kind = "order" /\ all[i].n \in Nat /\ all[i].n <= sent
      BY <1>4, <1>5, <1>6, <2>1
    <3>2. all[i].n # sent + 1
      BY <3>1
    <3>3. QED
      BY <3>1, <3>2 DEF KindOf
  <2>2. CASE i \notin 1 .. L
    BY <1>4, <2>2 DEF KindOf
  <2>3. QED
    BY <2>1, <2>2
<1>8. ASSUME NEW i \in 1 .. B PROVE back[i].kind = KindOf(back[i].n, kind, sent + 1)
  <2>1. back[i].kind = "order" /\ back[i].n \in Nat /\ back[i].n <= run
    BY <1>4, <1>5, <1>6
  <2>2. back[i].n # sent + 1
    BY <1>5, <2>1
  <2>3. QED
    BY <2>1, <2>2 DEF KindOf
<1>9. all[1].n = run + 1 /\ all[1].part = 1
  <2>1. CASE L = 0
    <3>1. 1 \in 1 .. M /\ 1 \notin 1 .. L /\ run = sent
      BY <1>4, <1>5, <2>1
    <3>2. QED
      BY <1>4, <2>1, <3>1
  <2>2. CASE L # 0
    <3>1. 1 \in 1 .. L
      BY <1>4, <2>2
    <3>2. QED
      BY <1>4, <1>5, <2>2, <3>1
  <2>3. QED
    BY <2>1, <2>2
<1>10. run <= sent + 1
  BY <1>5
<1>11. Transit(all, back, kind, sent + 1, run, seen, "waiting")
  BY <1>1, <1>3, <1>4, <1>5, <1>7, <1>8, <1>9, <1>10 DEF Transit
<1>12. QED
  BY <1>1, <1>11

\* The server reads a request and sends the reply to it.
LEMMA RequestServed ==
    ASSUME NEW there, NEW back, NEW want, NEW sent, NEW run, NEW seen, NEW where,
           UnderWay(there, back, want, sent, run, seen, where),
           NEW k, NEW rest, Taken(there, k, rest), IsWhole(SubSeq(there, 1, k)),
           NEW m, NEW kind, NEW ok, MessageOf(m, run + 1, kind, ok), kind = there[1].kind,
           NEW all, Joined(all, back, m)
    PROVE  /\ rest \in Seq(Pieces) /\ all \in Seq(Pieces)
           /\ there[1].n = run + 1
           /\ Transit(rest, all, want, sent, run + 1, seen, where)
<1>0. /\ there \in Seq(Pieces) /\ back \in Seq(Pieces)
      /\ sent \in Nat /\ run \in Nat /\ seen \in Nat
      /\ Transit(there, back, want, sent, run, seen, where)
      /\ k \in 1 .. Len(there) /\ rest = Consumed(there, k)
  BY DEF UnderWay, Taken
<1> USE <1>0
<1>1. /\ Stream(there, sent) /\ Stream(back, run)
  BY DEF Transit
<1>2. /\ rest \in Seq(Pieces) /\ Stream(rest, sent)
      /\ Len(rest) = Len(there) - k
      /\ \A i \in 1 .. Len(rest) : rest[i] = there[k + i] /\ k + i \in 1 .. Len(there)
  BY <1>1, StreamConsumed
<1>3. /\ there[k].n = there[1].n
      /\ IF k = Len(there) THEN there[1].n = sent
         ELSE there[k + 1].n = there[1].n + 1 /\ there[k + 1].part = 1
  BY <1>1, WholeComesFirst
<1>4. /\ all \in Seq(Pieces) /\ Stream(all, run + 1)
      /\ \A i \in 1 .. Len(back) : all[i] = back[i]
      /\ \A i \in 1 .. Len(all) : i \notin 1 .. Len(back) =>
            all[i].n = run + 1 /\ all[i].kind = kind /\ all[i].ok = ok
  BY <1>1, StreamExtended
<1>5. /\ Len(there) \in Nat /\ \A i \in 1 .. Len(there) : there[i] \in Pieces
  BY LenProperties, ElementOfSeq
<1>6. PICK L, M, R, B : L = Len(there) /\ M = Len(all) /\ R = Len(rest) /\ B = Len(back)
  OBVIOUS
<1>7. /\ L \in Nat /\ k \in 1 .. L /\ 1 \in 1 .. L /\ R = L - k
      /\ \A i \in 1 .. R : rest[i] = there[k + i] /\ k + i \in 1 .. L
      /\ \A i \in 1 .. B : all[i] = back[i]
      /\ \A i \in 1 .. M : i \notin 1 .. B => all[i].n = run + 1 /\ all[i].kind = kind
      /\ IF k = L THEN there[1].n = sent
         ELSE there[k + 1].n = there[1].n + 1 /\ there[k + 1].part = 1
  BY <1>2, <1>3, <1>4, <1>5, <1>6
<1>8. /\ there[1].n = run + 1 /\ seen <= run /\ run <= sent
      /\ \A i \in 1 .. L : there[i].kind = KindOf(there[i].n, want, sent)
      /\ \A i \in 1 .. B : back[i].kind = KindOf(back[i].n, want, sent)
      /\ \A i \in 1 .. L : there[i].n <= sent
  BY <1>6, <1>7 DEF Transit, Stream
<1>9. run + 1 <= sent /\ seen <= run + 1
  <2>1. there[1].n <= sent
    BY <1>7, <1>8
  <2>2. QED
    BY <1>8, <2>1
<1>10. IF R = 0 THEN run + 1 = sent ELSE rest[1].n = (run + 1) + 1 /\ rest[1].part = 1
  <2>1. CASE R = 0
    BY <1>7, <1>8, <2>1
  <2>2. CASE R # 0
    <3>1. k # L /\ 1 \in 1 .. R
      BY <1>7, <2>2
    <3>2. rest[1] = there[k + 1]
      BY <1>7, <3>1
    <3>3. QED
      BY <1>7, <1>8, <2>2, <3>1, <3>2
  <2>3. QED
    BY <2>1, <2>2
<1>11. \A i \in 1 .. R : rest[i].kind = KindOf(rest[i].n, want, sent)
  BY <1>7, <1>8
<1>12. ASSUME NEW i \in 1 .. M PROVE all[i].kind = KindOf(all[i].n, want, sent)
  <2>1. CASE i \in 1 .. B
    BY <1>7, <1>8, <2>1
  <2>2. CASE i \notin 1 .. B
    <3>1. all[i].n = there[1].n /\ all[i].kind = there[1].kind
      BY <1>7, <1>8, <2>2
    <3>2. QED
      BY <1>7, <1>8, <3>1
  <2>3. QED
    BY <2>1, <2>2
<1>13. ~(where \in {"off", "idle"} /\ want # "order")
  <2>1. ASSUME where \in {"off", "idle"}, want # "order" PROVE FALSE
    <3>1. seen = sent
      BY <2>1 DEF Transit
    <3>2. QED
      BY <1>8, <1>9, <3>1
  <2>2. QED
    BY <2>1
<1>14. Transit(rest, all, want, sent, run + 1, seen, where)
  BY <1>2, <1>4, <1>6, <1>9, <1>10, <1>11, <1>12, <1>13 DEF Transit
<1>15. QED
  BY <1>2, <1>4, <1>8, <1>14

\* A client reads: what it takes for a reply is one that was sent, and the reply to
\* an account or a question is the last.
LEMMA ReplyRead ==
    ASSUME NEW there, NEW back, NEW want, NEW sent, NEW run, NEW seen,
           UnderWay(there, back, want, sent, run, seen, "waiting"),
           NEW k, NEW rest, Taken(back, k, rest)
    PROVE  /\ rest \in Seq(Pieces)
           /\ SubSeq(back, 1, k)[k] = back[k] /\ back[k] \in Pieces
           /\ Transit(there, rest, want, sent, run, seen, "failed")
           /\ want = "order" \/ Parses(SubSeq(back, 1, k)) =>
                 Transit(there, rest, want, sent, run, back[k].n, "idle")
           /\ want # "order" /\ Parses(SubSeq(back, 1, k)) => back[k].n = sent
<1>0. /\ there \in Seq(Pieces) /\ back \in Seq(Pieces)
      /\ sent \in Nat /\ run \in Nat /\ seen \in Nat
      /\ Transit(there, back, want, sent, run, seen, "waiting")
      /\ k \in 1 .. Len(back) /\ rest = Consumed(back, k)
  BY DEF UnderWay, Taken
<1> USE <1>0
<1>1. Stream(there, sent) /\ Stream(back, run)
  BY DEF Transit
<1>2. /\ rest \in Seq(Pieces) /\ Stream(rest, run)
      /\ Len(rest) = Len(back) - k
      /\ \A i \in 1 .. Len(rest) : rest[i] = back[k + i] /\ k + i \in 1 .. Len(back)
  BY <1>1, StreamConsumed
<1>3. SubSeq(back, 1, k)[k] = back[k] /\ back[k] \in Pieces
  BY LastRead
<1>4. Len(back) \in Nat /\ \A i \in 1 .. Len(back) : back[i] \in Pieces
  BY LenProperties, ElementOfSeq
<1>5. PICK B, R, L : B = Len(back) /\ R = Len(rest) /\ L = Len(there)
  OBVIOUS
<1>6. /\ B \in Nat /\ k \in 1 .. B /\ 1 \in 1 .. B /\ R = B - k
      /\ \A i \in 1 .. R : rest[i] = back[k + i] /\ k + i \in 1 .. B
      /\ \A i \in 1 .. B : back[i].n \in Nat
  BY <1>2, <1>4, <1>5 DEF Pieces
<1>7. /\ seen <= run /\ run <= sent
      /\ IF L = 0 THEN run = sent ELSE there[1].n = run + 1 /\ there[1].part = 1
      /\ \A i \in 1 .. L : there[i].kind = KindOf(there[i].n, want, sent)
      /\ \A i \in 1 .. B : back[i].kind = KindOf(back[i].n, want, sent)
      /\ \A i \in 1 .. B : back[i].n <= run
  BY <1>5 DEF Transit, Stream
<1>8. \A i \in 1 .. R : rest[i].kind = KindOf(rest[i].n, want, sent)
  BY <1>6, <1>7
<1>9. Transit(there, rest, want, sent, run, seen, "failed")
  BY <1>1, <1>2, <1>5, <1>7, <1>8 DEF Transit
<1>10. ASSUME want # "order", Parses(SubSeq(back, 1, k)) PROVE back[k].n = sent /\ R = 0
  <2>1. PICK b : b = SubSeq(back, 1, k)
    OBVIOUS
  <2>2. IsWhole(SubSeq(back, 1, k)) /\ Head(SubSeq(back, 1, k)).kind # "order"
    BY <1>10 DEF Parses
  <2>3. /\ Head(SubSeq(back, 1, k)) = back[1]
        /\ back[k].n = back[1].n
        /\ IF k = Len(back) THEN back[1].n = run
           ELSE back[k + 1].n = back[1].n + 1 /\ back[k + 1].part = 1
    BY <1>1, <2>2, WholeComesFirst
  <2>4. /\ back[1].kind # "order" /\ back[k].n = back[1].n
        /\ IF k = B THEN back[1].n = run ELSE back[k + 1].n = back[1].n + 1
    BY <1>5, <2>2, <2>3
  <2>5. back[1].n = sent
    BY <1>6, <1>7, <2>4 DEF KindOf
  <2>6. ASSUME k # B PROVE FALSE
    <3>1. k + 1 \in 1 .. B
      BY <1>6, <2>6
    <3>2. back[k + 1].n <= run /\ back[k + 1].n = sent + 1
      BY <1>7, <2>4, <2>5, <2>6, <3>1
    <3>3. QED
      BY <1>7, <3>2
  <2>7. QED
    BY <1>6, <2>4, <2>5, <2>6
<1>11. back[k].n <= run
  BY <1>6, <1>7
<1>12. ASSUME want = "order" \/ Parses(SubSeq(back, 1, k))
       PROVE  Transit(there, rest, want, sent, run, back[k].n, "idle")
  <2>1. want # "order" => back[k].n = sent /\ Len(rest) = 0
    BY <1>5, <1>10, <1>12
  <2>2. QED
    BY <1>1, <1>2, <1>5, <1>7, <1>8, <1>11, <2>1 DEF Transit
<1>13. QED
  BY <1>2, <1>3, <1>9, <1>10, <1>12

-----------------------------------------------------------------------------
(* The connections: the start and the clients' steps *)

LEMMA SessionsInitEstablishesIInv == SessionsInit => SessionsIInv
<1> SUFFICES ASSUME SessionsInit PROVE SessionsIInv
  OBVIOUS
<1> USE DEF SessionsInit
<1>1. /\ peer = <<NoClient>> /\ peer \in Seq(Peers) /\ Len(peer) = 1 /\ peer[1] = NoClient
      /\ backlog = <<>> /\ backlog \in Seq(Clients) /\ DOMAIN backlog = {}
  BY DEF Peers
<1>2. ServerTypes
  BY <1>1 DEF ServerTypes, Operations
<1>3. ClientTypes
  BY EmptySeq, SessionsAssumption DEF ClientTypes, Places, Replies
<1>4. EachWaits
  BY <1>1 DEF EachWaits, Waits, Operations
<1>5. OnePlace
  BY <1>1 DEF OnePlace
<1>6. Placed
  BY <1>1, SessionsAssumption DEF Placed, Present, HasPlace
<1>7. ASSUME NEW c \in Clients PROVE InTransit(c)
  <2>1. /\ Len(toServer[c]) = 0 /\ Len(toClient[c]) = 0
        /\ served[c] = 0 /\ asked[c] = 0 /\ shown[c] = 0
    BY EmptySeq
  <2>2. Stream(toServer[c], asked[c]) /\ Stream(toClient[c], served[c])
    BY <2>1 DEF Stream
  <2>3. QED
    BY <2>1, <2>2 DEF InTransit, Transit
<1>8. QED
  BY <1>2, <1>3, <1>4, <1>5, <1>6, <1>7 DEF SessionsIInv

\* A client of which nothing changes but where it is, and it does not go on.
LEMMA SameTransit ==
    ASSUME NEW d, InTransit(d),
           UNCHANGED <<wants[d], asked[d], shown[d], served[d], toServer[d], toClient[d]>>,
           at'[d] \in {"off", "idle"} => at[d] \in {"off", "idle"}
    PROVE  InTransit(d)'
BY DEF InTransit, Transit, Stream, Successive, KindOf

\* A step that moves neither the connections nor a client to or from them.
LEMMA SamePlaces ==
    ASSUME SessionsIInv, UNCHANGED serverVars,
           \A c \in Clients : /\ Present(c)' => Present(c)
                              /\ at'[c] = "off" => at[c] = "off"
    PROVE  ServerTypes' /\ EachWaits' /\ OnePlace' /\ Placed'
<1> USE DEF SessionsIInv, serverVars
<1>1. ServerTypes' /\ EachWaits' /\ OnePlace'
  BY DEF ServerTypes, EachWaits, Waits, OnePlace
<1>2. Placed'
  BY DEF Placed, HasPlace
<1>3. QED
  BY <1>1, <1>2

LEMMA ConnectPreservesIInv ==
    ASSUME SessionsIInv, NEW c \in Clients, Connect(c)
    PROVE  SessionsIInv'
<1> USE DEF SessionsIInv
<1>1. /\ UNCHANGED <<up, live, created, peer, pending, known, wants, asked, shown, toServer, toClient, served>>
      /\ at[c] = "off" /\ ~HasPlace(c)
  BY DEF Connect, wires, Placed
<1>2. /\ at' \in [Clients -> Places]
      /\ at'[c] = (IF up THEN "idle" ELSE "failed")
      /\ \A d \in Clients \ {c} : at'[d] = at[d]
  BY DEF Connect, ClientTypes, Places
<1>3. ClientTypes'
  BY <1>1, <1>2 DEF ClientTypes
<1>4. ASSUME NEW d \in Clients PROVE InTransit(d)'
  BY <1>1, <1>2, SameTransit
<1>5. CASE ~up
  <2>1. UNCHANGED serverVars
    BY <1>1, <1>5 DEF Connect, serverVars
  <2>2. ServerTypes' /\ EachWaits' /\ OnePlace'
    BY <2>1 DEF serverVars, ServerTypes, EachWaits, Waits, OnePlace
  <2>3. Placed'
    BY <1>1, <1>2, <1>5, <2>1 DEF Placed, HasPlace, serverVars
  <2>4. QED
    BY <1>3, <1>4, <2>2, <2>3
<1>6. CASE up
  <2>1. backlog' = Append(backlog, c)
    BY <1>6 DEF Connect
  <2>2. /\ backlog' \in Seq(Clients) /\ Len(backlog) \in Nat
        /\ DOMAIN backlog = 1 .. Len(backlog) /\ DOMAIN backlog' = 1 .. (Len(backlog) + 1)
        /\ \A i \in DOMAIN backlog : backlog'[i] = backlog[i]
        /\ backlog'[Len(backlog) + 1] = c
    BY <2>1, AppendProperties, LenProperties DEF ServerTypes
  <2>3. ServerTypes' /\ EachWaits'
    BY <1>1, <2>2 DEF ServerTypes, EachWaits, Waits
  <2>4. \A i \in DOMAIN backlog' : i \in DOMAIN backlog \/ i = Len(backlog) + 1
    BY <2>2
  <2>5. /\ \A i \in DOMAIN backlog : backlog[i] # c
        /\ \A s \in live : peer[s] # c
    BY <1>1 DEF HasPlace
  <2>6. OnePlace'
    BY <1>1, <2>2, <2>4, <2>5 DEF OnePlace
  <2>7. \A d \in Clients : HasPlace(d)' <=> HasPlace(d) \/ d = c
    BY <1>1, <2>2, <2>4 DEF HasPlace
  <2>8. Placed'
    BY <1>1, <1>2, <2>7 DEF Placed, Present
  <2>9. QED
    BY <1>3, <1>4, <2>3, <2>6, <2>8
<1>7. QED
  BY <1>5, <1>6

\* What SendMessage does: all pieces of one message are added to what is under way.
LEMMA SendMessageSends ==
    ASSUME SessionsIInv, NEW c \in Clients, SendMessage(c)
    PROVE  /\ at[c] = "idle" /\ at' = [at EXCEPT ![c] = "waiting"]
           /\ asked[c] \in Nat /\ asked[c] + 1 \in 1 .. MaxRequests
           /\ asked' = [asked EXCEPT ![c] = asked[c] + 1]
           /\ \E kind \in Kinds(c) :
                 /\ kind \in Replies /\ wants' = [wants EXCEPT ![c] = kind]
                 /\ \E m : /\ MessageOf(m, asked[c] + 1, kind, TRUE)
                           /\ toServer' = [toServer EXCEPT ![c] = toServer[c] \o m]
<1> USE DEF SessionsIInv
<1>1. asked[c] \in Nat /\ asked[c] + 1 \in 1 .. MaxRequests
  BY SessionsAssumption DEF SendMessage, ClientTypes
<1>2. asked' = [asked EXCEPT ![c] = asked[c] + 1] /\ asked'[c] = asked[c] + 1
  BY DEF SendMessage, ClientTypes
<1>3. PICK kind \in Kinds(c), pieces \in RequestPieces :
        /\ wants' = [wants EXCEPT ![c] = kind]
        /\ toServer' = [toServer EXCEPT ![c] = toServer[c] \o Message(asked'[c], kind, TRUE, pieces)]
  BY DEF SendMessage
<1>4. kind \in Replies /\ pieces \in 1 .. 2
  BY SessionsAssumption DEF Kinds, Replies
<1>5. PICK ok \in BOOLEAN : ok = TRUE
  OBVIOUS
<1>6. PICK m : m = Message(asked[c] + 1, kind, ok, pieces)
  OBVIOUS
<1>7. MessageOf(m, asked[c] + 1, kind, ok)
  BY <1>1, <1>4, <1>6, MessageTypes
<1>8. MessageOf(m, asked[c] + 1, kind, TRUE)
  BY <1>5, <1>7
<1>9. m = Message(asked'[c], kind, TRUE, pieces)
  BY <1>2, <1>5, <1>6
<1>10. toServer' = [toServer EXCEPT ![c] = toServer[c] \o m]
  BY <1>3, <1>9
<1>11. at[c] = "idle" /\ at' = [at EXCEPT ![c] = "waiting"]
  BY DEF SendMessage
<1>12. QED
  BY <1>1, <1>2, <1>3, <1>4, <1>8, <1>10, <1>11

LEMMA SendMessagePreservesIInv ==
    ASSUME SessionsIInv, NEW c \in Clients, SendMessage(c)
    PROVE  SessionsIInv'
<1> USE DEF SessionsIInv
<1>1. /\ at[c] = "idle" /\ at' = [at EXCEPT ![c] = "waiting"]
      /\ asked[c] \in Nat /\ asked[c] + 1 \in 1 .. MaxRequests
      /\ asked' = [asked EXCEPT ![c] = asked[c] + 1]
  BY SendMessageSends
<1>2. PICK kind : /\ kind \in Replies /\ wants' = [wants EXCEPT ![c] = kind]
                  /\ \E m : /\ MessageOf(m, asked[c] + 1, kind, TRUE)
                            /\ toServer' = [toServer EXCEPT ![c] = toServer[c] \o m]
  BY SendMessageSends
<1>3. PICK m : /\ MessageOf(m, asked[c] + 1, kind, TRUE)
               /\ toServer' = [toServer EXCEPT ![c] = toServer[c] \o m]
  BY <1>2
<1>4. PICK all : Joined(all, toServer[c], m)
  BY DEF Joined
<1>5. toServer' = [toServer EXCEPT ![c] = all]
  BY <1>3, <1>4 DEF Joined
<1>6. /\ toServer[c] \in Seq(Pieces) /\ toClient[c] \in Seq(Pieces)
      /\ served[c] \in Nat /\ shown[c] \in Nat
  BY SessionsAssumption DEF ClientTypes
<1>7. Transit(toServer[c], toClient[c], wants[c], asked[c], served[c], shown[c], "idle")
  BY <1>1 DEF InTransit
<1>8. MessageOf(m, asked[c] + 1, kind, TRUE)
  BY <1>3
<1>9. /\ all \in Seq(Pieces)
      /\ Transit(all, toClient[c], kind, asked[c] + 1, served[c], shown[c], "waiting")
  BY <1>1, <1>4, <1>6, <1>7, <1>8, RequestSent
<1> HIDE <1>3, <1>4
<1>10. /\ UNCHANGED <<known, shown, toClient, served>> /\ UNCHANGED serverVars
  BY DEF SendMessage
<1>11. ClientTypes'
  <2>1. at' \in [Clients -> Places]
    BY <1>1 DEF ClientTypes, Places
  <2>2. wants' \in [Clients -> Replies]
    BY <1>2 DEF ClientTypes
  <2>3. asked' \in [Clients -> 0 .. MaxRequests]
    BY <1>1, SessionsAssumption DEF ClientTypes
  <2>4. toServer' \in [Clients -> Seq(Pieces)]
    BY <1>5, <1>9 DEF ClientTypes
  <2>5. QED
    BY <1>10, <2>1, <2>2, <2>3, <2>4 DEF ClientTypes
<1>12. ServerTypes' /\ EachWaits' /\ OnePlace' /\ Placed'
  <2>1. \A d \in Clients : /\ Present(d)' => Present(d)
                           /\ at'[d] = "off" => at[d] = "off"
    BY <1>1 DEF Present, ClientTypes
  <2>2. QED
    BY <1>10, <2>1, SamePlaces
<1>13. InTransit(c)'
  <2>1. /\ asked'[c] = asked[c] + 1 /\ toServer'[c] = all /\ at'[c] = "waiting"
        /\ wants'[c] = kind
        /\ served'[c] = served[c] /\ shown'[c] = shown[c] /\ toClient'[c] = toClient[c]
    BY <1>1, <1>2, <1>5, <1>10 DEF ClientTypes
  <2>2. QED
    BY <1>9, <2>1 DEF InTransit
<1>14. ASSUME NEW d \in Clients \ {c} PROVE InTransit(d)'
  <2>1. UNCHANGED <<at[d], wants[d], asked[d], toServer[d], served[d], shown[d], toClient[d]>>
    BY <1>1, <1>2, <1>5, <1>10 DEF ClientTypes
  <2>2. QED
    BY <2>1, SameTransit
<1>15. QED
  BY <1>11, <1>12, <1>13, <1>14

LEMMA ReadMessagePreservesIInv ==
    ASSUME SessionsIInv, NEW c \in Clients, ReadMessage(c)
    PROVE  SessionsIInv'
<1> USE DEF SessionsIInv
<1>1. at[c] = "waiting" /\ UNCHANGED <<wants, asked, toServer, served>> /\ UNCHANGED serverVars
  BY DEF ReadMessage
<1>2. PICK k \in 1 .. Len(toClient[c]) :
        LET bytes == SubSeq(toClient[c], 1, k)
        IN  /\ toClient' = [toClient EXCEPT ![c] = Consumed(@, k)]
            /\ IF wants[c] = "order" \/ Parses(bytes)
               THEN /\ at' = [at EXCEPT ![c] = "idle"]
                    /\ shown' = [shown EXCEPT ![c] = bytes[k].n]
                    /\ known' = [known EXCEPT ![c] = @ \/ (wants[c] = "account" /\ bytes[k].ok)]
               ELSE at' = [at EXCEPT ![c] = "failed"] /\ UNCHANGED <<shown, known>>
  BY DEF ReadMessage
<1>3. PICK rest : rest = Consumed(toClient[c], k)
  OBVIOUS
<1>4. PICK bytes : bytes = SubSeq(toClient[c], 1, k)
  OBVIOUS
<1>5. /\ toServer[c] \in Seq(Pieces) /\ toClient[c] \in Seq(Pieces)
      /\ asked[c] \in Nat /\ served[c] \in Nat /\ shown[c] \in Nat
  BY SessionsAssumption DEF ClientTypes
<1>6. Transit(toServer[c], toClient[c], wants[c], asked[c], served[c], shown[c], "waiting")
  BY <1>1 DEF InTransit
<1>7. /\ rest \in Seq(Pieces)
      /\ bytes[k] = toClient[c][k] /\ toClient[c][k] \in Pieces
      /\ Transit(toServer[c], rest, wants[c], asked[c], served[c], shown[c], "failed")
      /\ wants[c] = "order" \/ Parses(bytes) =>
            Transit(toServer[c], rest, wants[c], asked[c], served[c], toClient[c][k].n, "idle")
  <2>1. /\ rest \in Seq(Pieces)
        /\ SubSeq(toClient[c], 1, k)[k] = toClient[c][k] /\ toClient[c][k] \in Pieces
        /\ Transit(toServer[c], rest, wants[c], asked[c], served[c], shown[c], "failed")
        /\ wants[c] = "order" \/ Parses(SubSeq(toClient[c], 1, k)) =>
              Transit(toServer[c], rest, wants[c], asked[c], served[c], toClient[c][k].n, "idle")
    <3>1. PICK there, back, want, sent, run, seen :
            /\ there = toServer[c] /\ back = toClient[c] /\ want = wants[c]
            /\ sent = asked[c] /\ run = served[c] /\ seen = shown[c]
      OBVIOUS
    <3>2. /\ UnderWay(there, back, want, sent, run, seen, "waiting")
          /\ Taken(back, k, rest)
      BY <1>3, <1>5, <1>6, <3>1 DEF UnderWay, Taken
    <3>3. /\ rest \in Seq(Pieces)
          /\ SubSeq(back, 1, k)[k] = back[k] /\ back[k] \in Pieces
          /\ Transit(there, rest, want, sent, run, seen, "failed")
          /\ want = "order" \/ Parses(SubSeq(back, 1, k)) =>
                Transit(there, rest, want, sent, run, back[k].n, "idle")
      BY <3>2, ReplyRead
    <3>4. QED
      BY <3>1, <3>3
  <2>2. QED
    BY <1>4, <2>1
<1>8. toClient' = [toClient EXCEPT ![c] = rest]
  BY <1>2, <1>3
<1>9. /\ toClient[c][k].n \in 0 .. MaxRequests /\ toClient[c][k].ok \in BOOLEAN
  BY <1>7 DEF Pieces
<1>10. \/ /\ wants[c] = "order" \/ Parses(bytes)
          /\ at' = [at EXCEPT ![c] = "idle"]
          /\ shown' = [shown EXCEPT ![c] = toClient[c][k].n]
          /\ known' = [known EXCEPT ![c] = @ \/ (wants[c] = "account" /\ toClient[c][k].ok)]
       \/ at' = [at EXCEPT ![c] = "failed"] /\ UNCHANGED <<shown, known>>
  BY <1>2, <1>4, <1>7
<1>11. ClientTypes'
  <2>1. /\ at' \in [Clients -> Places] /\ known' \in [Clients -> BOOLEAN]
        /\ shown' \in [Clients -> 0 .. MaxRequests]
    BY <1>9, <1>10 DEF ClientTypes, Places
  <2>2. toClient' \in [Clients -> Seq(Pieces)]
    BY <1>7, <1>8 DEF ClientTypes
  <2>3. QED
    BY <1>1, <2>1, <2>2 DEF ClientTypes
<1>12. ServerTypes' /\ EachWaits' /\ OnePlace' /\ Placed'
  <2>1. \A d \in Clients : /\ Present(d)' => Present(d)
                           /\ at'[d] = "off" => at[d] = "off"
    BY <1>1, <1>10 DEF Present, ClientTypes
  <2>2. QED
    BY <1>1, <2>1, SamePlaces
<1>13. InTransit(c)'
  <2>1. /\ UNCHANGED <<wants[c], asked[c], toServer[c], served[c]>> /\ toClient'[c] = rest
    BY <1>1, <1>8 DEF ClientTypes
  <2>2. \/ /\ wants[c] = "order" \/ Parses(bytes)
           /\ at'[c] = "idle" /\ shown'[c] = toClient[c][k].n
        \/ at'[c] = "failed" /\ shown'[c] = shown[c]
    BY <1>10 DEF ClientTypes
  <2>3. QED
    BY <1>7, <2>1, <2>2 DEF InTransit
<1>14. ASSUME NEW d \in Clients \ {c} PROVE InTransit(d)'
  <2>1. UNCHANGED <<at[d], wants[d], asked[d], toServer[d], served[d], shown[d], toClient[d]>>
    BY <1>1, <1>8, <1>10 DEF ClientTypes
  <2>2. QED
    BY <2>1, SameTransit
<1>15. QED
  BY <1>11, <1>12, <1>13, <1>14

\* A client ends, for the want of a server or because its user leaves.
LEMMA EndPreservesIInv ==
    ASSUME SessionsIInv, NEW c \in Clients, LoseServer(c) \/ Leave(c)
    PROVE  SessionsIInv'
<1> USE DEF SessionsIInv
<1>1. /\ UNCHANGED <<known, wants, asked, shown, served, toServer, toClient>> /\ UNCHANGED serverVars
      /\ Present(c)
  BY DEF LoseServer, Leave, wires
<1>2. PICK place \in {"failed", "gone"} : at' = [at EXCEPT ![c] = place]
  BY DEF LoseServer, Leave
<1>3. ClientTypes'
  BY <1>1, <1>2 DEF ClientTypes, Places
<1>4. ServerTypes' /\ EachWaits' /\ OnePlace' /\ Placed'
  <2>1. \A d \in Clients : /\ Present(d)' => Present(d)
                           /\ at'[d] = "off" => at[d] = "off"
    BY <1>1, <1>2 DEF Present, ClientTypes
  <2>2. QED
    BY <1>1, <2>1, SamePlaces
<1>5. ASSUME NEW d \in Clients PROVE InTransit(d)'
  <2>1. at'[d] \in {"off", "idle"} => at[d] \in {"off", "idle"}
    BY <1>2 DEF ClientTypes
  <2>2. InTransit(d) /\ UNCHANGED <<wants[d], asked[d], shown[d], served[d], toServer[d], toClient[d]>>
    BY <1>1
  <2>3. QED
    BY <2>1, <2>2, SameTransit
<1>6. QED
  BY <1>3, <1>4, <1>5

-----------------------------------------------------------------------------
(* The connections: the server's handlers *)

\* A step that moves no client and none of its bytes.
LEMMA SameClients ==
    ASSUME SessionsIInv, UNCHANGED <<clientVars, wires, served>>
    PROVE  ClientTypes' /\ \A c \in Clients : InTransit(c)'
<1>1. ClientTypes'
  BY DEF SessionsIInv, ClientTypes, clientVars, wires
<1>2. ASSUME NEW c \in Clients PROVE InTransit(c)'
  <2>1. InTransit(c) /\ UNCHANGED <<at, wants, asked, shown, served, toServer, toClient>>
    BY DEF SessionsIInv, clientVars, wires
  <2>2. QED
    BY <2>1, SameTransit
<1>3. QED
  BY <1>1, <1>2

\* The operation that completes is the only one of its session.
LEMMA OneOperation ==
    ASSUME SessionsIInv, NEW s, NEW op, <<s, op>> \in pending
    PROVE  /\ s \in live /\ s \in 1 .. created /\ op \in Operations
           /\ \A o : <<s, o>> \in pending => o = op
           /\ op # "accept" => peer[s] \in Clients
<1>1. s \in live /\ op \in Operations /\ s \in 1 .. created
  BY DEF SessionsIInv, ServerTypes
<1>2. \A o : <<s, o>> \in pending => o \in Operations
  BY DEF SessionsIInv, ServerTypes
<1>3. PICK x \in Operations : {o \in Operations : <<s, o>> \in pending} = {x}
  BY <1>1 DEF SessionsIInv, EachWaits, Waits
<1>4. \A o : <<s, o>> \in pending => o = op
  BY <1>1, <1>2, <1>3
<1>5. peer[s] \in Peers
  BY <1>1, ElementOfSeq DEF SessionsIInv, ServerTypes
<1>6. op # "accept" => peer[s] \in Clients
  BY <1>1, <1>4, <1>5 DEF SessionsIInv, EachWaits, Peers
<1>7. QED
  BY <1>1, <1>4, <1>6

\* A session goes on to its next operation.
LEMMA NextOperation ==
    ASSUME SessionsIInv, NEW s, NEW op \in {"read", "write"}, NEW next \in {"read", "write"},
           up, <<s, op>> \in pending, Complete(<<s, op>>, {<<s, next>>}),
           UNCHANGED <<live, created, peer, backlog, at>>
    PROVE  ServerTypes' /\ EachWaits' /\ OnePlace' /\ Placed'
<1> USE DEF SessionsIInv
<1>1. /\ s \in live /\ \A o : <<s, o>> \in pending => o = op
      /\ peer[s] \in Clients
  BY OneOperation
<1>2. pending' = (pending \ {<<s, op>>}) \cup {<<s, next>>} /\ up'
  BY DEF Complete
<1>3. ServerTypes'
  BY <1>1, <1>2 DEF ServerTypes, Operations
<1>4. \A t \in live \ {s} : \A o : <<t, o>> \in pending' <=> <<t, o>> \in pending
  BY <1>2
<1>5. \A o : <<s, o>> \in pending' <=> o = next
  BY <1>1, <1>2
<1>6. EachWaits'
  <2>1. ASSUME NEW t \in live \ {s}
        PROVE  /\ \E o \in Operations : Waits(t, o)'
               /\ <<t, "accept">> \in pending' <=> peer[t] = NoClient
    BY <1>4 DEF EachWaits, Waits
  <2>2. Waits(s, next)' /\ next \in Operations
    BY <1>5 DEF Waits, Operations
  <2>3. <<s, "accept">> \notin pending' /\ peer[s] # NoClient
    BY <1>1, <1>5, SessionsAssumption
  <2>4. QED
    BY <2>1, <2>2, <2>3 DEF EachWaits
<1>7. OnePlace' /\ Placed'
  BY <1>2 DEF OnePlace, Placed, HasPlace, Present
<1>8. QED
  BY <1>3, <1>6, <1>7

\* A session is deleted whose client is not there, or which has none.
LEMMA SessionEnds ==
    ASSUME SessionsIInv, NEW s, NEW op, up, <<s, op>> \in pending, DeleteSession(s, op),
           op = "accept" \/ ~Present(peer[s])
    PROVE  SessionsIInv'
<1> USE DEF SessionsIInv
<1>1. /\ s \in live /\ \A o : <<s, o>> \in pending => o = op
      /\ op = "accept" => peer[s] = NoClient
  BY OneOperation DEF EachWaits
<1>2. /\ pending' = pending \ {<<s, op>>} /\ live' = live \ {s} /\ up' \in BOOLEAN
      /\ backlog' = backlog \/ (~up' /\ backlog' = <<>>)
      /\ UNCHANGED <<created, peer, at, clientVars, wires, served>>
  BY DEF DeleteSession, Complete, clientVars
<1>3. /\ backlog' \in Seq(Clients) /\ \A i \in DOMAIN backlog' : i \in DOMAIN backlog
      /\ \A i \in DOMAIN backlog' : backlog'[i] = backlog[i]
      /\ up' => backlog' = backlog
  <2>1. <<>> \in Seq(Clients) /\ DOMAIN <<>> = {}
    BY EmptySeq
  <2>2. QED
    BY <1>2, <2>1 DEF ServerTypes
<1>4. ASSUME NEW x \in pending' PROVE x \in live' \X Operations
  <2>1. x \in pending /\ x # <<s, op>> /\ x \in live \X Operations
    BY <1>2, <1>4 DEF ServerTypes
  <2>2. x[1] \in live /\ x[2] \in Operations /\ x = <<x[1], x[2]>>
    BY <2>1
  <2>3. x[1] # s
    BY <1>1, <2>1, <2>2
  <2>4. QED
    BY <1>2, <2>2, <2>3
<1>5. ServerTypes'
  BY <1>2, <1>3, <1>4 DEF ServerTypes
<1>6. \A t \in live' : t \in live /\ \A o : <<t, o>> \in pending' <=> <<t, o>> \in pending
  BY <1>2
<1>7. EachWaits'
  BY <1>2, <1>6 DEF EachWaits, Waits
<1>8. OnePlace'
  BY <1>2, <1>3 DEF OnePlace
<1>9. \A c \in Clients : Present(c) => c # peer[s]
  BY <1>1, SessionsAssumption
<1>10. Placed'
  <2>1. ASSUME NEW c \in Clients, up', Present(c) PROVE HasPlace(c)'
    <3>1. HasPlace(c)
      BY <2>1 DEF Placed
    <3>2. QED
      BY <1>2, <1>3, <1>9, <2>1, <3>1 DEF HasPlace
  <2>2. ASSUME NEW c \in Clients, at[c] = "off" PROVE ~HasPlace(c)'
    BY <1>2, <1>3, <2>2 DEF Placed, HasPlace
  <2>3. \A c \in Clients : Present(c)' <=> Present(c)
    BY <1>2 DEF Present
  <2>4. QED
    BY <1>2, <2>1, <2>2, <2>3 DEF Placed
<1>11. ClientTypes' /\ \A c \in Clients : InTransit(c)'
  BY <1>2, SameClients
<1>12. QED
  BY <1>5, <1>7, <1>8, <1>10, <1>11

LEMMA HandleAcceptPreservesIInv ==
    ASSUME SessionsIInv, NEW s, HandleAccept(s)
    PROVE  SessionsIInv'
<1> USE DEF SessionsIInv
<1>0. PICK new, c : new = created + 1 /\ c = Head(backlog)
  OBVIOUS
<1>1. /\ s \in live /\ s \in 1 .. created /\ <<s, "accept">> \in pending
      /\ \A o : <<s, o>> \in pending => o = "accept"
      /\ peer[s] = NoClient
  <2>1. <<s, "accept">> \in pending
    BY DEF HandleAccept
  <2>2. s \in live /\ s \in 1 .. created /\ \A o : <<s, o>> \in pending => o = "accept"
    BY <2>1, OneOperation
  <2>3. QED
    BY <2>1, <2>2 DEF EachWaits
<1>2. /\ backlog # <<>> /\ created' = new /\ live' = live \cup {new}
      /\ peer' = Append([peer EXCEPT ![s] = c], NoClient)
      /\ backlog' = Tail(backlog)
      /\ pending' = (pending \ {<<s, "accept">>}) \cup {<<s, "read">>, <<new, "accept">>}
      /\ up /\ up' /\ UNCHANGED <<clientVars, wires, served>>
  BY <1>0 DEF HandleAccept, Complete
<1>3. /\ c \in Clients /\ backlog' \in Seq(Clients) /\ c = backlog[1]
      /\ Len(backlog) \in Nat /\ Len(backlog) > 0
      /\ DOMAIN backlog = 1 .. Len(backlog) /\ DOMAIN backlog' = 1 .. (Len(backlog) - 1)
      /\ \A i \in DOMAIN backlog' : backlog'[i] = backlog[i + 1]
  BY <1>0, <1>2, HeadTailProperties, LenProperties, EmptySeq DEF ServerTypes
<1>4. /\ peer' \in Seq(Peers) /\ Len(peer') = new
      /\ \A t \in 1 .. created : peer'[t] = IF t = s THEN c ELSE peer[t]
      /\ peer'[new] = NoClient
  <2> DEFINE p == [peer EXCEPT ![s] = c]
  <2>1. /\ p \in Seq(Peers) /\ Len(p) = created
        /\ \A t \in 1 .. created : p[t] = IF t = s THEN c ELSE peer[t]
    BY <1>1, <1>3, ExceptSeq DEF ServerTypes, Peers
  <2> HIDE DEF p
  <2>2. NoClient \in Peers
    BY DEF Peers
  <2>3. /\ Append(p, NoClient) \in Seq(Peers) /\ Len(Append(p, NoClient)) = created + 1
        /\ \A t \in 1 .. created : Append(p, NoClient)[t] = p[t]
        /\ Append(p, NoClient)[created + 1] = NoClient
    BY <2>1, <2>2, AppendProperties
  <2>4. peer' = Append(p, NoClient)
    BY <1>2 DEF p
  <2>5. QED
    BY <1>0, <2>1, <2>3, <2>4
<1>5. /\ created \in Nat /\ new \in Nat /\ \A t \in live : t \in 1 .. created /\ t # new
      /\ \A t \in 1 .. created : t \in 1 .. new
  BY <1>0 DEF ServerTypes
<1>6. \A x \in pending : x \in live' \X Operations
  BY <1>2 DEF ServerTypes
<1>7. ServerTypes'
  <2>1. live' \subseteq 1 .. new
    BY <1>0, <1>2, <1>5
  <2>2. pending' \subseteq live' \X Operations
    BY <1>1, <1>2, <1>6 DEF Operations
  <2>3. QED
    BY <1>2, <1>3, <1>4, <1>5, <2>1, <2>2 DEF ServerTypes
<1>8. EachWaits'
  <2>1. \A o : <<new, o>> \notin pending
    BY <1>5 DEF ServerTypes
  <2>2. /\ \A o : <<new, o>> \in pending' <=> o = "accept"
        /\ \A o : <<s, o>> \in pending' <=> o = "read"
        /\ \A t \in live \ {s} : \A o : <<t, o>> \in pending' <=> <<t, o>> \in pending
    BY <1>1, <1>2, <1>5, <2>1
  <2>3. Waits(new, "accept")' /\ Waits(s, "read")'
    BY <2>2 DEF Waits, Operations
  <2>4. \A t \in live \ {s} : \A o : Waits(t, o)' <=> Waits(t, o)
    BY <2>2 DEF Waits
  <2>5. c # NoClient
    BY <1>3, SessionsAssumption
  <2>6. /\ \A t \in live \ {s} : (<<t, "accept">> \in pending') <=> (peer'[t] = NoClient)
        /\ <<new, "accept">> \in pending' /\ peer'[new] = NoClient
        /\ <<s, "accept">> \notin pending' /\ peer'[s] # NoClient
    BY <1>1, <1>4, <1>5, <2>2, <2>5 DEF EachWaits
  <2>7. ASSUME NEW t \in live'
        PROVE  /\ \E op \in Operations : Waits(t, op)'
               /\ (<<t, "accept">> \in pending') <=> (peer'[t] = NoClient)
    <3>1. t \in live \ {s} \/ t = s \/ t = new
      BY <1>2
    <3>2. \E op \in Operations : Waits(t, op)'
      BY <2>3, <2>4, <3>1 DEF EachWaits, Operations
    <3>3. QED
      BY <2>6, <3>1, <3>2
  <2>8. QED
    BY <2>7 DEF EachWaits
<1>9. /\ \A i \in DOMAIN backlog' : i + 1 \in DOMAIN backlog /\ i + 1 # 1
      /\ 1 \in DOMAIN backlog
      /\ \A i \in DOMAIN backlog : i = 1 \/ (i - 1 \in DOMAIN backlog' /\ (i - 1) + 1 = i)
  BY <1>3
<1>10. \A t \in live' : \/ t = new /\ peer'[t] = NoClient
                        \/ t = s /\ peer'[t] = c
                        \/ t \in live /\ t # s /\ peer'[t] = peer[t]
  BY <1>2, <1>4, <1>5
<1>11. OnePlace'
  <2>1. ASSUME NEW i \in DOMAIN backlog', NEW j \in DOMAIN backlog', backlog'[i] = backlog'[j]
        PROVE  i = j
    <3>1. i + 1 = j + 1
      BY <1>3, <1>9, <2>1 DEF OnePlace
    <3>2. QED
      BY <1>3, <3>1
  <2>2. ASSUME NEW i \in DOMAIN backlog', NEW t \in live' PROVE backlog'[i] # peer'[t]
    <3>1. backlog'[i] = backlog[i + 1] /\ backlog[i + 1] # backlog[1]
      BY <1>3, <1>9 DEF OnePlace
    <3>2. backlog[i + 1] \in Clients
      BY <1>3, <1>9, ElementOfSeq DEF ServerTypes
    <3>3. QED
      BY <1>3, <1>9, <1>10, <3>1, <3>2, SessionsAssumption DEF OnePlace
  <2>3. ASSUME NEW t \in live', NEW u \in live', peer'[t] = peer'[u], peer'[t] # NoClient
        PROVE  t = u
    <3>1. \A v \in live : peer[v] # c
      BY <1>3, <1>9 DEF OnePlace
    <3>2. QED
      BY <1>10, <2>3, <3>1 DEF OnePlace
  <2>4. QED
    BY <2>1, <2>2, <2>3 DEF OnePlace
<1>12. ASSUME NEW d \in Clients
       PROVE  HasPlace(d)' <=> HasPlace(d)
  <2>1. ASSUME HasPlace(d) PROVE HasPlace(d)'
    <3>1. CASE \E i \in DOMAIN backlog : backlog[i] = d
      <4>1. PICK i \in DOMAIN backlog : backlog[i] = d
        BY <3>1
      <4>2. CASE i = 1
        <5>1. s \in live' /\ peer'[s] = c /\ c = d
          BY <1>1, <1>2, <1>3, <1>4, <4>1, <4>2
        <5>2. QED
          BY <5>1 DEF HasPlace
      <4>3. CASE i # 1
        <5>1. i - 1 \in DOMAIN backlog' /\ backlog'[i - 1] = d
          BY <1>3, <1>9, <4>1, <4>3
        <5>2. QED
          BY <5>1 DEF HasPlace
      <4>4. QED
        BY <4>2, <4>3
    <3>2. CASE \E t \in live : peer[t] = d
      <4>1. PICK t \in live : peer[t] = d
        BY <3>2
      <4>2. t # s /\ t \in live'
        BY <1>1, <1>2, <4>1, SessionsAssumption
      <4>3. peer'[t] = d
        BY <1>4, <1>5, <4>1, <4>2
      <4>4. QED
        BY <4>2, <4>3 DEF HasPlace
    <3>3. QED
      BY <2>1, <3>1, <3>2 DEF HasPlace
  <2>2. ASSUME HasPlace(d)' PROVE HasPlace(d)
    <3>1. d # NoClient
      BY SessionsAssumption
    <3>2. QED
      BY <1>3, <1>9, <1>10, <2>2, <3>1 DEF HasPlace
  <2>3. QED
    BY <2>1, <2>2
<1>13. Placed'
  BY <1>2, <1>12 DEF Placed, Present, clientVars
<1>14. ClientTypes' /\ \A d \in Clients : InTransit(d)'
  BY <1>2, SameClients
<1>15. QED
  BY <1>7, <1>8, <1>11, <1>13, <1>14

\* The first k pieces that client c has under way are a request, and are read.
RequestRead(c, k) ==
    /\ k \in 1 .. Len(toServer[c]) /\ IsWhole(SubSeq(toServer[c], 1, k))
    /\ Head(SubSeq(toServer[c], 1, k)) = toServer[c][1]
    /\ toServer[c][1] \in Pieces /\ toServer[c][1].n = served[c] + 1
    /\ toServer' = [toServer EXCEPT ![c] = Consumed(toServer[c], k)]

\* The reply m to the next request of client c goes out.
ReplySent(c, ok, m) ==
    /\ MessageOf(m, served[c] + 1, toServer[c][1].kind, ok)
    /\ toClient' = [toClient EXCEPT ![c] = toClient[c] \o m]

\* What handle_read does to the bytes: the first request under way is taken, whole,
\* and all pieces of one reply are added to what is under way back.
LEMMA HandleReadAnswers ==
    ASSUME SessionsIInv, NEW s, HandleRead(s), NEW c, c = peer[s]
    PROVE  /\ c \in Clients
           /\ \E k : RequestRead(c, k)
           /\ \E ok \in BOOLEAN : \E m : ReplySent(c, ok, m)
           /\ served' = [served EXCEPT ![c] = served[c] + 1]
<1> USE DEF SessionsIInv
<1>1. c \in Clients
  BY OneOperation DEF HandleRead
<1> DEFINE request(k) == SubSeq(toServer[peer[s]], 1, k)
           Sent(k) == \E ok \in BOOLEAN, pieces \in ReplyPieces :
                        toClient' = [toClient EXCEPT ![peer[s]] =
                            @ \o Message(Head(request(k)).n, Head(request(k)).kind, ok, pieces)]
<1>21. PICK k \in 1 .. Len(toServer[peer[s]]) :
         /\ IsWhole(request(k)) /\ Sent(k)
         /\ toServer' = [toServer EXCEPT ![peer[s]] = Consumed(@, k)]
  BY DEF HandleRead
<1> HIDE DEF request
<1>22. PICK ok \in BOOLEAN : \E pieces \in ReplyPieces :
         toClient' = [toClient EXCEPT ![peer[s]] =
            @ \o Message(Head(request(k)).n, Head(request(k)).kind, ok, pieces)]
  BY <1>21
<1>23. PICK pieces \in ReplyPieces :
         toClient' = [toClient EXCEPT ![peer[s]] =
            @ \o Message(Head(request(k)).n, Head(request(k)).kind, ok, pieces)]
  BY <1>22
<1>2. /\ k \in 1 .. Len(toServer[c]) /\ IsWhole(SubSeq(toServer[c], 1, k))
      /\ toServer' = [toServer EXCEPT ![c] = Consumed(toServer[c], k)]
      /\ toClient' = [toClient EXCEPT
            ![c] = toClient[c] \o Message(Head(SubSeq(toServer[c], 1, k)).n,
                                         Head(SubSeq(toServer[c], 1, k)).kind, ok, pieces)]
  BY <1>21, <1>23 DEF request
<1>3. PICK there : there = toServer[c]
  OBVIOUS
<1>4. there \in Seq(Pieces) /\ Stream(there, asked[c])
  BY <1>1, <1>3 DEF ClientTypes, InTransit, Transit
<1>5. k \in 1 .. Len(there) /\ IsWhole(SubSeq(there, 1, k))
  BY <1>2, <1>3
<1>6. Head(SubSeq(there, 1, k)) = there[1]
  BY <1>4, <1>5, WholeComesFirst
<1>7. Len(there) # 0 /\ there[1] \in Pieces
  BY <1>4, <1>5, LenProperties, ElementOfSeq
<1>8. there[1].n = served[c] + 1
  BY <1>1, <1>3, <1>7 DEF InTransit, Transit
<1>9. there[1].n \in 1 .. MaxRequests /\ there[1].kind \in Replies /\ pieces \in 1 .. 2
  BY <1>7, SessionsAssumption DEF Pieces
<1>10. PICK m : m = Message(there[1].n, there[1].kind, ok, pieces)
  OBVIOUS
<1>11. MessageOf(m, there[1].n, there[1].kind, ok)
  BY <1>9, <1>10, MessageTypes
<1>12. MessageOf(m, served[c] + 1, toServer[c][1].kind, ok)
  BY <1>3, <1>8, <1>11
<1>13. toClient' = [toClient EXCEPT ![c] = toClient[c] \o m]
  BY <1>2, <1>3, <1>6, <1>10
<1>14. served' = [served EXCEPT ![c] = served[c] + 1]
  BY DEF HandleRead
<1>15. RequestRead(c, k)
  BY <1>2, <1>3, <1>6, <1>7, <1>8 DEF RequestRead
<1>16. ReplySent(c, ok, m)
  BY <1>12, <1>13 DEF ReplySent
<1>17. QED
  BY <1>1, <1>14, <1>15, <1>16

LEMMA HandleReadPreservesIInv ==
    ASSUME SessionsIInv, NEW s, HandleRead(s)
    PROVE  SessionsIInv'
<1> USE DEF SessionsIInv
<1>0. PICK c : c = peer[s]
  OBVIOUS
<1>1. /\ c \in Clients
      /\ \E k : RequestRead(c, k)
      /\ \E ok \in BOOLEAN : \E m : ReplySent(c, ok, m)
      /\ served' = [served EXCEPT ![c] = served[c] + 1]
  BY <1>0, HandleReadAnswers
<1>2. PICK k : RequestRead(c, k)
  BY <1>1
<1>3. PICK ok, m : ReplySent(c, ok, m)
  BY <1>1
<1>4. PICK rest : rest = Consumed(toServer[c], k)
  OBVIOUS
<1>5. PICK all : Joined(all, toClient[c], m)
  BY DEF Joined
<1>6. /\ toServer' = [toServer EXCEPT ![c] = rest]
      /\ toClient' = [toClient EXCEPT ![c] = all]
  BY <1>2, <1>3, <1>4, <1>5 DEF Joined, RequestRead, ReplySent
<1>7. /\ toServer[c] \in Seq(Pieces) /\ toClient[c] \in Seq(Pieces)
      /\ asked[c] \in Nat /\ served[c] \in Nat /\ shown[c] \in Nat
  BY <1>1, SessionsAssumption DEF ClientTypes
<1>8. /\ rest \in Seq(Pieces) /\ all \in Seq(Pieces)
      /\ Transit(rest, all, wants[c], asked[c], served[c] + 1, shown[c], at[c])
  <2>1. PICK there, back, want, sent, run, seen, where, kind :
          /\ there = toServer[c] /\ back = toClient[c] /\ want = wants[c] /\ sent = asked[c]
          /\ run = served[c] /\ seen = shown[c] /\ where = at[c] /\ kind = there[1].kind
    OBVIOUS
  <2>2. UnderWay(there, back, want, sent, run, seen, where)
    BY <1>1, <1>7, <2>1 DEF InTransit, UnderWay
  <2>3. Taken(there, k, rest) /\ IsWhole(SubSeq(there, 1, k)) /\ kind = there[1].kind
    BY <1>2, <1>4, <2>1 DEF RequestRead, Taken
  <2>4. MessageOf(m, run + 1, kind, ok) /\ Joined(all, back, m)
    BY <1>3, <1>5, <2>1 DEF ReplySent
  <2>5. /\ rest \in Seq(Pieces) /\ all \in Seq(Pieces)
        /\ Transit(rest, all, want, sent, run + 1, seen, where)
    BY <2>2, <2>3, <2>4, RequestServed
  <2>6. QED
    BY <2>1, <2>5
<1>9. /\ up /\ UNCHANGED <<live, created, peer, backlog>>
      /\ UNCHANGED <<at, known, wants, asked, shown>>
      /\ <<s, "read">> \in pending /\ Complete(<<s, "read">>, {<<s, "write">>})
      /\ served' = [served EXCEPT ![c] = served[c] + 1]
  BY <1>1 DEF HandleRead, clientVars
<1>10. ServerTypes' /\ EachWaits' /\ OnePlace' /\ Placed'
  BY <1>9, NextOperation
<1>11. ClientTypes'
  <2>1. served' \in [Clients -> Nat]
    <3>1. PICK next \in Nat : next = served[c] + 1
      BY <1>7
    <3>2. served' = [served EXCEPT ![c] = next]
      BY <1>9, <3>1
    <3>3. QED
      BY <3>2 DEF ClientTypes
  <2>2. toServer' \in [Clients -> Seq(Pieces)] /\ toClient' \in [Clients -> Seq(Pieces)]
    BY <1>6, <1>8 DEF ClientTypes
  <2>3. QED
    BY <1>9, <2>1, <2>2 DEF ClientTypes
<1>12. InTransit(c)'
  <2>1. /\ UNCHANGED <<at[c], wants[c], asked[c], shown[c]>>
        /\ toServer'[c] = rest /\ toClient'[c] = all /\ served'[c] = served[c] + 1
    BY <1>1, <1>6, <1>9 DEF ClientTypes
  <2>2. QED
    BY <1>8, <2>1 DEF InTransit
<1>13. ASSUME NEW d \in Clients \ {c} PROVE InTransit(d)'
  <2>1. UNCHANGED <<at[d], wants[d], asked[d], toServer[d], served[d], shown[d], toClient[d]>>
    BY <1>6, <1>9 DEF ClientTypes
  <2>2. QED
    BY <2>1, SameTransit
<1>14. QED
  BY <1>10, <1>11, <1>12, <1>13

LEMMA HandlersPreserveIInv ==
    ASSUME SessionsIInv, NEW s, Handler(s)
    PROVE  SessionsIInv'
<1>1. CASE HandleAccept(s)
  BY <1>1, HandleAcceptPreservesIInv
<1>2. CASE HandleRead(s)
  BY <1>2, HandleReadPreservesIInv
<1>3. CASE HandleAcceptError(s) \/ HandleReadError(s) \/ HandleWriteError(s)
  <2>1. PICK op : /\ up /\ <<s, op>> \in pending /\ DeleteSession(s, op)
                  /\ op = "accept" \/ ~Present(peer[s])
    BY <1>3 DEF HandleAcceptError, HandleReadError, HandleWriteError, Present
  <2>2. QED
    BY <2>1, SessionEnds
<1>4. CASE HandleWrite(s)
  <2>1. /\ up /\ <<s, "write">> \in pending /\ Complete(<<s, "write">>, {<<s, "read">>})
        /\ UNCHANGED <<live, created, peer, backlog, clientVars, wires, served>>
    BY <1>4 DEF HandleWrite
  <2>2. ServerTypes' /\ EachWaits' /\ OnePlace' /\ Placed'
    BY <2>1, NextOperation DEF clientVars
  <2>3. ClientTypes' /\ \A c \in Clients : InTransit(c)'
    BY <2>1, SameClients
  <2>4. QED
    BY <2>2, <2>3 DEF SessionsIInv
<1>5. CASE HandleReadThrows(s)
  <2>1. /\ up' = FALSE /\ live' = {} /\ pending' = {} /\ backlog' = <<>>
        /\ UNCHANGED <<created, peer, clientVars, wires, served>>
    BY <1>5 DEF HandleReadThrows
  <2>2. backlog' \in Seq(Clients) /\ DOMAIN backlog' = {}
    BY <2>1
  <2>3. ServerTypes' /\ EachWaits' /\ OnePlace' /\ Placed'
    BY <2>1, <2>2 DEF SessionsIInv, ServerTypes, EachWaits, OnePlace, Placed, HasPlace
  <2>4. ClientTypes' /\ \A c \in Clients : InTransit(c)'
    BY <2>1, SameClients
  <2>5. QED
    BY <2>3, <2>4 DEF SessionsIInv
<1>6. QED
  BY <1>1, <1>2, <1>3, <1>4, <1>5 DEF Handler

LEMMA SessionsStepPreservesIInv == SessionsIInv /\ [SessionsNext]_sessionVars => SessionsIInv'
<1> SUFFICES ASSUME SessionsIInv, [SessionsNext]_sessionVars PROVE SessionsIInv'
  OBVIOUS
<1>1. ASSUME NEW c \in Clients, ClientStep(c) PROVE SessionsIInv'
  BY <1>1, ConnectPreservesIInv, SendMessagePreservesIInv, ReadMessagePreservesIInv,
     EndPreservesIInv DEF ClientStep
<1>2. ASSUME NEW s, Handler(s) PROVE SessionsIInv'
  BY <1>2, HandlersPreserveIInv
<1>3. CASE UNCHANGED sessionVars
  <2>1. UNCHANGED serverVars /\ UNCHANGED <<clientVars, wires, served>>
    BY <1>3 DEF sessionVars
  <2>2. ClientTypes' /\ \A c \in Clients : InTransit(c)'
    BY <2>1, SameClients
  <2>3. ServerTypes' /\ EachWaits' /\ OnePlace' /\ Placed'
    BY <2>1, SamePlaces DEF clientVars, Present
  <2>4. QED
    BY <2>2, <2>3 DEF SessionsIInv
<1>4. QED
  BY <1>1, <1>2, <1>3 DEF SessionsNext

LEMMA SessionsInvariant == SessionsSpec => []SessionsIInv
BY SessionsInitEstablishesIInv, SessionsStepPreservesIInv, PTL DEF SessionsSpec

\* The connections' variables keep their types, and no handler is ever called on a
\* session that was deleted (Server.cpp:42-106).
THEOREM SessionsTypeCorrect == SessionsSpec => []SessionsTypeOK
<1>1. SessionsIInv => SessionsTypeOK
  <2>1. ASSUME SessionsIInv PROVE peer \in [1 .. created -> Peers]
    BY <2>1, LenProperties DEF SessionsIInv, ServerTypes
  <2>2. QED
    BY <2>1 DEF SessionsIInv, ServerTypes, ClientTypes, SessionsTypeOK, Peers, Places
<1>2. QED
  BY <1>1, SessionsInvariant, PTL

\* Every session waits for exactly one event: none is leaked, and no two
\* operations share a buffer (Server.cpp:31-35, 93, 105, 125-139).
THEOREM OneOperationAtATime == SessionsSpec => []OneOperationEach
<1>1. ASSUME SessionsIInv, NEW s \in live
      PROVE  Cardinality({op \in Operations : <<s, op>> \in pending}) = 1
  <2>1. PICK op \in Operations : {o \in Operations : <<s, o>> \in pending} = {op}
    BY <1>1 DEF SessionsIInv, EachWaits, Waits
  <2>2. QED
    BY <2>1, FS_Singleton
<1>2. SessionsIInv => OneOperationEach
  BY <1>1 DEF OneOperationEach, SessionsIInv, EachWaits
<1>3. QED
  BY <1>2, SessionsInvariant, PTL

\* While the server runs, a connected client waits in the backlog or has one
\* session of its own (Server.cpp:125-139).
THEOREM SessionsBelongToClients == SessionsSpec => []SessionForClient
<1>1. ASSUME SessionsIInv, NEW c \in Clients, HasPlace(c)
      PROVE  Cardinality({i \in DOMAIN backlog : backlog[i] = c})
               + Cardinality({s \in live : peer[s] = c}) = 1
  <2> DEFINE B == {i \in DOMAIN backlog : backlog[i] = c}
             L == {s \in live : peer[s] = c}
  <2>1. c # NoClient
    BY SessionsAssumption
  <2>2. Cardinality({}) = 0
    BY FS_EmptySet
  <2>3. CASE \E i \in DOMAIN backlog : backlog[i] = c
    <3>1. PICK i \in DOMAIN backlog : backlog[i] = c
      BY <2>3
    <3>2. B = {i} /\ L = {}
      BY <1>1, <3>1 DEF SessionsIInv, OnePlace
    <3>3. Cardinality(B) = 1 /\ Cardinality(L) = 0
      BY <2>2, <3>2, FS_Singleton
    <3>4. QED
      BY <3>3
  <2>4. CASE \E s \in live : peer[s] = c
    <3>1. PICK s \in live : peer[s] = c
      BY <2>4
    <3>2. L = {s} /\ B = {}
      BY <1>1, <2>1, <3>1 DEF SessionsIInv, OnePlace
    <3>3. Cardinality(L) = 1 /\ Cardinality(B) = 0
      BY <2>2, <3>2, FS_Singleton
    <3>4. QED
      BY <3>3
  <2>5. QED
    BY <1>1, <2>3, <2>4 DEF HasPlace
<1>2. SessionsIInv => SessionForClient
  BY <1>1 DEF SessionForClient, SessionsIInv, Placed
<1>3. QED
  BY <1>2, SessionsInvariant, PTL

\* The engine runs requests in order and at most once, and a client that went on from
\* an account or a question has been shown the answer to just that, however the
\* network cuts requests and replies (Server.cpp:52-94, Client.cpp:35-43, 129-133).
THEOREM RepliesInOrder == SessionsSpec => []RepliesInStep
<1>1. ASSUME SessionsIInv, NEW c \in Clients
      PROVE  /\ shown[c] <= served[c] /\ served[c] <= asked[c]
             /\ at[c] = "idle" /\ wants[c] # "order" => shown[c] = asked[c] /\ toClient[c] = <<>>
  <2>1. InTransit(c) /\ toClient[c] \in Seq(Pieces)
    BY <1>1 DEF SessionsIInv, ClientTypes
  <2>2. toClient[c] = <<>> <=> Len(toClient[c]) = 0
    BY <2>1, EmptySeq
  <2>3. QED
    BY <2>1, <2>2 DEF InTransit, Transit
<1>2. ASSUME SessionsIInv, NEW c \in Clients, NEW i \in DOMAIN toClient[c],
             at[c] = "idle" \/ toClient[c][i].n < asked[c]
      PROVE  toClient[c][i].kind = "order"
  <2>1. InTransit(c) /\ toClient[c] \in Seq(Pieces) /\ asked[c] \in Nat
    BY <1>2, SessionsAssumption DEF SessionsIInv, ClientTypes
  <2>2. i \in 1 .. Len(toClient[c]) /\ toClient[c][i] \in Pieces
    BY <2>1, LenProperties, ElementOfSeq
  <2>3. toClient[c][i].n \in Nat
    BY <2>2 DEF Pieces
  <2>4. toClient[c][i].kind = KindOf(toClient[c][i].n, wants[c], asked[c])
    BY <2>1, <2>2 DEF InTransit, Transit
  <2>5. CASE toClient[c][i].n < asked[c]
    <3>1. toClient[c][i].n # asked[c]
      BY <2>1, <2>3, <2>5
    <3>2. QED
      BY <2>4, <3>1 DEF KindOf
  <2>6. CASE at[c] = "idle"
    <3>1. CASE wants[c] = "order"
      BY <2>4, <3>1 DEF KindOf
    <3>2. CASE wants[c] # "order"
      <4>1. Len(toClient[c]) = 0
        BY <2>1, <2>6, <3>2 DEF InTransit, Transit
      <4>2. QED
        BY <2>2, <4>1
    <3>3. QED
      BY <3>1, <3>2
  <2>7. QED
    BY <1>2, <2>5, <2>6
<1>3. SessionsIInv => RepliesInStep
  BY <1>1, <1>2 DEF RepliesInStep
<1>4. QED
  BY <1>3, SessionsInvariant, PTL

-----------------------------------------------------------------------------
(* The exchange: what clients ask for and what is answered *)

AccountOps == {"register", "login"}
OrderOps == {"buy", "sell"}

\* What a client may write in a request, once it has a uid for all but the first.
Requests ==
    AccountRequests \cup [op : OrderOps, uid : Nat, vol : Volumes, cost : Prices]
                    \cup [op : {"query"}, uid : Nat]

Answers == [err : Errors, uid : Nat]

NoteTypes ==
    /\ said \in [Clients -> Seq(Requests)]
    /\ answered \in [Clients -> Seq(Answers)]
    /\ DOMAIN my_id = Clients /\ DOMAIN owner = Clients

\* Every request is on record, and every answer.
Recorded(c) == Len(said[c]) = asked[c] /\ Len(answered[c]) = served[c]

\* Only a client that has a uid asks for more than an account, and it asks with that
\* uid.
AskedIs(c) ==
    /\ \A n \in 1 .. Len(said[c]) :
          said[c][n].op \notin AccountOps => known[c] /\ said[c][n].uid = my_id[c]
    /\ at[c] = "waiting" /\ wants[c] = "account" =>
          /\ ~known[c]
          /\ \A n \in 1 .. Len(said[c]) : said[c][n].op \in AccountOps

\* A reply that came says whether the request was granted, and a granted account has
\* the login of the request.
Granted(n, c) == answered[c][n].err = "ok"

AnsweredIs(c) ==
    /\ \A i \in 1 .. Len(toClient[c]) :
          toClient[c][i].n \in 1 .. Len(answered[c])
          /\ (toClient[c][i].ok <=> Granted(toClient[c][i].n, c))
    /\ \A n \in 1 .. Len(answered[c]) :
          said[c][n].op \in AccountOps /\ Granted(n, c) =>
             /\ answered[c][n].uid \in DOMAIN users
             /\ users[answered[c][n].uid].login = said[c][n].login

\* While an order is in the engine, the request it came with is the next to be run.
ServingOrder ==
    serving # 0 =>
        /\ <<serving, "read">> \in pending
        /\ served[peer[serving]] + 1 \in 1 .. Len(said[peer[serving]])
        /\ said[peer[serving]][served[peer[serving]] + 1].op \in OrderOps

Notes ==
    /\ NoteTypes
    /\ \A c \in Clients : Recorded(c) /\ AskedIs(c) /\ AnsweredIs(c)
    /\ ServingOrder
    /\ OwnAccount

ExchangeIInv == SessionsIInv /\ IInv /\ AccountIndex /\ Notes

LEMMA ExchangeInitEstablishesIInv == ExchangeInit => ExchangeIInv
<1> SUFFICES ASSUME ExchangeInit PROVE ExchangeIInv
  OBVIOUS
<1>1. SessionsIInv
  BY SessionsInitEstablishesIInv DEF ExchangeInit
<1>2. IInv /\ AccountIndex
  BY InitIInv DEF ExchangeInit, Init, TableInit, AccountIndex
<1>3. NoteTypes
  BY EmptySeq DEF ExchangeInit, NoteTypes
<1>4. ASSUME NEW c \in Clients PROVE Recorded(c) /\ AskedIs(c) /\ AnsweredIs(c)
  <2>1. /\ Len(said[c]) = 0 /\ Len(answered[c]) = 0 /\ Len(toClient[c]) = 0
        /\ asked[c] = 0 /\ served[c] = 0 /\ at[c] = "off"
    BY EmptySeq DEF ExchangeInit, SessionsInit
  <2>2. QED
    BY <2>1 DEF Recorded, AskedIs, AnsweredIs
<1>5. ServingOrder
  BY DEF ExchangeInit, ServingOrder
<1>6. OwnAccount
  BY DEF ExchangeInit, SessionsInit, OwnAccount
<1>7. QED
  BY <1>1, <1>2, <1>3, <1>4, <1>5, <1>6 DEF ExchangeIInv, Notes

-----------------------------------------------------------------------------
(* A step of the exchange is one of the connections and one of the engine *)

LEMMA ExchangeStepsSessions ==
    ASSUME [ExchangeNext]_exchangeVars
    PROVE  [SessionsNext]_sessionVars
<1>1. CASE UNCHANGED exchangeVars
  BY <1>1 DEF exchangeVars
<1>2. ASSUME NEW c \in Clients, Ask(c) \/ TakeReply(c) \/ MissServer(c) \/ ComeAndGo(c)
      PROVE  SessionsNext
  BY <1>2 DEF Ask, TakeReply, MissServer, ComeAndGo, SessionsNext, ClientStep
<1>3. ASSUME NEW s \in 1 .. created, ServeAccount(s) \/ ServeQuery(s) \/ EndOrder(s) \/ OtherHandler(s)
      PROVE  SessionsNext
  <2>1. Handler(s)
    BY <1>3 DEF ServeAccount, ServeQuery, EndOrder, ReplyWith, OtherHandler, Handler
  <2>2. QED
    BY <2>1 DEF SessionsNext
<1>4. ASSUME NEW s \in 1 .. created, StartOrder(s) \/ MatchOrder(s)
      PROVE  UNCHANGED sessionVars
  BY <1>4 DEF StartOrder, MatchOrder
<1>5. QED
  BY <1>1, <1>2, <1>3, <1>4 DEF ExchangeNext, ServerStep

\* The client of a session that reads.
LEMMA ReaderIsClient ==
    ASSUME SessionsIInv, NEW s, <<s, "read">> \in pending
    PROVE  peer[s] \in Clients
BY OneOperation

\* The request that a session with a request runs is the next one of its client.
LEMMA RequestIsNext ==
    ASSUME SessionsIInv, NoteTypes, \A c \in Clients : Recorded(c), NEW s, HasRequest(s)
    PROVE  /\ peer[s] \in Clients /\ served[peer[s]] \in Nat
           /\ served[peer[s]] + 1 \in 1 .. Len(said[peer[s]])
           /\ Request(s) = said[peer[s]][served[peer[s]] + 1]
           /\ Request(s) \in Requests
<1> USE DEF SessionsIInv
<1>1. PICK c : c = peer[s]
  OBVIOUS
<1>2. c \in Clients
  BY <1>1, ReaderIsClient DEF HasRequest
<1>3. PICK there, run, sent : there = toServer[c] /\ run = served[c] /\ sent = asked[c]
  OBVIOUS
<1>4. there \in Seq(Pieces) /\ Len(there) \in Nat /\ \E k \in 1 .. Len(there) : TRUE
  BY <1>1, <1>2, <1>3, LenProperties DEF HasRequest, ClientTypes
<1>5. Len(there) # 0 /\ 1 \in 1 .. Len(there)
  BY <1>4
<1>6. Head(there) = there[1]
  BY <1>4, <1>5, EmptySeq, HeadTailProperties
<1>7. there[1].n = run + 1 /\ there[1].n <= sent
  BY <1>2, <1>3, <1>5 DEF InTransit, Transit, Stream
<1>8. run \in Nat /\ sent \in Nat
  BY <1>2, <1>3, SessionsAssumption DEF ClientTypes
<1>9. run + 1 \in 1 .. sent
  BY <1>7, <1>8
<1>10. said[c] \in Seq(Requests) /\ Len(said[c]) = sent
  BY <1>2, <1>3 DEF NoteTypes, Recorded
<1>11. said[c][run + 1] \in Requests
  BY <1>9, <1>10, ElementOfSeq
<1>12. Request(s) = said[c][run + 1]
  BY <1>1, <1>3, <1>6, <1>7 DEF Request
<1>13. QED
  BY <1>1, <1>2, <1>3, <1>8, <1>9, <1>10, <1>11, <1>12

LEMMA ExchangeStepsCore ==
    ASSUME SessionsIInv, Notes, [ExchangeNext]_exchangeVars
    PROVE  [Next]_vars
<1>1. CASE UNCHANGED exchangeVars
  BY <1>1 DEF exchangeVars
<1>2. ASSUME NEW c \in Clients, Ask(c) \/ TakeReply(c) \/ MissServer(c) \/ ComeAndGo(c)
      PROVE  UNCHANGED vars
  BY <1>2 DEF Ask, TakeReply, MissServer, ComeAndGo
<1>3. ASSUME NEW s, ServeAccount(s) PROVE Next
  <2>1. PICK request : request = Request(s)
    OBVIOUS
  <2>2. \/ request.op = "register" /\ RegisterNewUser(request.login, request.pass)
        \/ request.op = "login" /\ TryLogin(request.login, request.pass)
    BY <1>3, <2>1 DEF ServeAccount
  <2>3. request \in Requests
    BY <1>3, <2>1, RequestIsNext DEF ServeAccount, Notes
  <2>4. request \in AccountRequests
    BY <2>2, <2>3 DEF Requests, OrderOps
  <2>5. request.login \in Logins /\ request.pass \in Passwords
    BY <2>4 DEF AccountRequests
  <2>6. QED
    BY <2>2, <2>5 DEF Next, Account
<1>4. ASSUME NEW s, StartOrder(s) PROVE Next
  <2>1. PICK request, c, n : request = Request(s) /\ c = peer[s] /\ n = served[c] + 1
    OBVIOUS
  <2>2. \/ request.op = "buy" /\ TryBuy(request.uid, request.vol, request.cost)
        \/ request.op = "sell" /\ TrySell(request.uid, request.vol, request.cost)
    BY <1>4, <2>1 DEF StartOrder
  <2>3. request \in Requests /\ c \in Clients /\ n \in 1 .. Len(said[c]) /\ request = said[c][n]
    BY <1>4, <2>1, RequestIsNext DEF StartOrder, Notes
  <2>4. request \in [op : OrderOps, uid : Nat, vol : Volumes, cost : Prices]
        /\ request.op \notin AccountOps
    BY <2>2, <2>3 DEF Requests, AccountRequests, AccountOps
  <2>5. request.uid \in DOMAIN users
    BY <2>3, <2>4 DEF Notes, AskedIs, OwnAccount
  <2>6. request.vol \in Volumes /\ request.cost \in Prices
    BY <2>4
  <2>7. QED
    BY <2>2, <2>5, <2>6 DEF Next, Trade
<1>5. ASSUME NEW s, MatchOrder(s) \/ EndOrder(s) PROVE Next
  BY <1>5 DEF MatchOrder, EndOrder, Next, Run
<1>6. ASSUME NEW s, ServeQuery(s) \/ OtherHandler(s) PROVE UNCHANGED vars
  BY <1>6 DEF ServeQuery, OtherHandler
<1>7. QED
  BY <1>1, <1>2, <1>3, <1>4, <1>5, <1>6 DEF ExchangeNext, ServerStep

\* An account keeps its uid and its login.
AccountsKept ==
    \A uid \in DOMAIN users : uid \in DOMAIN users' /\ users'[uid].login = users[uid].login

LEMMA NextKeepsAccounts ==
    ASSUME IInv, AccountIndex, IInv', AccountIndex', [Next]_vars
    PROVE  AccountsKept
<1>1. \A login \in DOMAIN logins : login \in DOMAIN logins' /\ logins'[login] = logins[login]
  <2>1. ASSUME NEW login, NEW pass, RegisterNewUser(login, pass)
        PROVE  UNCHANGED logins \/ (login \notin DOMAIN logins /\ logins' = Put(logins, login, maxUid))
    BY <2>1 DEF RegisterNewUser, AddUser, IsLoginInTable, tableVars
  <2>2. CASE UNCHANGED logins
    BY <2>2
  <2>3. CASE \E login : login \notin DOMAIN logins /\ logins' = Put(logins, login, maxUid)
    BY <2>3 DEF Put
  <2>4. [Next]_vars => \/ UNCHANGED logins
                       \/ \E login : login \notin DOMAIN logins /\ logins' = Put(logins, login, maxUid)
    BY <2>1 DEF Next, Account, Trade, Run, TryLogin, TryBuy, TrySell, Submit, MatchBuy,
       RejectBuy, FinishBuy, MatchSell, RejectSell, FinishSell, vars, tableVars
  <2>5. QED
    BY <2>2, <2>3, <2>4
<1>2. \A login \in DOMAIN logins' : logins'[login] \in DOMAIN users'
  BY DEF IInv, TypeOK
<1>3. QED
  BY <1>1, <1>2 DEF AccountsKept, AccountIndex

-----------------------------------------------------------------------------
(* The exchange: the clients' steps *)

\* A client whose part of the state does not change.
LEMMA NotesOfOthers ==
    ASSUME NEW d, Recorded(d), AskedIs(d), AnsweredIs(d), AccountsKept,
           UNCHANGED <<at[d], known[d], wants[d], asked[d], served[d], toClient[d],
                       said[d], answered[d], my_id[d]>>
    PROVE  Recorded(d)' /\ AskedIs(d)' /\ AnsweredIs(d)'
<1>1. Recorded(d)'
  BY DEF Recorded
<1>2. AskedIs(d)'
  BY DEF AskedIs
<1>3. AnsweredIs(d)'
  BY DEF AnsweredIs, Granted, AccountsKept
<1>4. QED
  BY <1>1, <1>2, <1>3

\* What a client writes fits the kind of reply it wants.
LEMMA AskWrites ==
    ASSUME ExchangeIInv, NEW c \in Clients, Ask(c)
    PROVE  \E request \in Requests :
              /\ said' = [said EXCEPT ![c] = Append(said[c], request)]
              /\ request.op \notin AccountOps => known[c] /\ request.uid = my_id[c]
              /\ wants'[c] = "account" => ~known[c] /\ request.op \in AccountOps
<1> USE DEF ExchangeIInv
<1>1. PICK kind \in Kinds(c) : kind \in Replies /\ wants' = [wants EXCEPT ![c] = kind]
  BY SendMessageSends DEF Ask
<1>2. wants'[c] = kind
  BY <1>1 DEF SessionsIInv, ClientTypes
<1>3. PICK request \in RequestsOf(c)[kind] : said' = [said EXCEPT ![c] = Append(said[c], request)]
  BY <1>2 DEF Ask
<1>4. known[c] => my_id[c] \in Nat
  BY DEF Notes, OwnAccount, IInv, TypeOK
<1>5. CASE kind = "account"
  <2>1. ~known[c]
    BY <1>1, <1>5 DEF Kinds
  <2>2. request \in AccountRequests
    BY <1>3, <1>5 DEF RequestsOf
  <2>3. request \in Requests /\ request.op \in AccountOps
    BY <2>2 DEF Requests, AccountRequests, AccountOps
  <2>4. QED
    BY <1>2, <1>3, <2>1, <2>3
<1>6. CASE kind # "account"
  <2>1. known[c] /\ kind \in {"order", "query"}
    BY <1>1, <1>6 DEF Kinds
  <2>2. request \in OrderRequests(c) \/ request \in QueryRequests(c)
    BY <1>3, <2>1 DEF RequestsOf
  <2>3. request \in Requests
    BY <1>4, <2>1, <2>2 DEF Requests, OrderRequests, QueryRequests, OrderOps
  <2>4. request.uid = my_id[c]
    BY <2>2 DEF OrderRequests, QueryRequests
  <2>5. QED
    BY <1>2, <1>3, <1>6, <2>1, <2>3, <2>4
<1>7. QED
  BY <1>5, <1>6

LEMMA AskPreservesNotes ==
    ASSUME ExchangeIInv, NEW c \in Clients, Ask(c)
    PROVE  Notes'
<1> USE DEF ExchangeIInv, Notes
<1>1. /\ at[c] = "idle" /\ at' = [at EXCEPT ![c] = "waiting"]
      /\ asked[c] \in Nat /\ asked' = [asked EXCEPT ![c] = asked[c] + 1]
      /\ \E kind \in Replies : wants' = [wants EXCEPT ![c] = kind]
      /\ UNCHANGED <<serverVars, known, served, toClient, users, answered, my_id, owner, serving>>
  BY SendMessageSends DEF Ask, SendMessage, vars, tableVars
<1>2. PICK request \in Requests :
        /\ said' = [said EXCEPT ![c] = Append(said[c], request)]
        /\ request.op \notin AccountOps => known[c] /\ request.uid = my_id[c]
        /\ wants'[c] = "account" => ~known[c] /\ request.op \in AccountOps
  BY AskWrites
<1>3. said[c] \in Seq(Requests) /\ Len(said[c]) = asked[c] /\ Len(answered[c]) = served[c]
  BY DEF NoteTypes, Recorded
<1>4. /\ Append(said[c], request) \in Seq(Requests) /\ said'[c] = Append(said[c], request)
      /\ \A d \in Clients \ {c} : said'[d] = said[d]
  BY <1>2, <1>3, AppendProperties DEF NoteTypes
<1>5. /\ Len(said'[c]) = Len(said[c]) + 1
      /\ \A n \in 1 .. Len(said[c]) : said'[c][n] = said[c][n]
      /\ said'[c][Len(said[c]) + 1] = request
      /\ Len(said[c]) \in Nat
  BY <1>2, <1>3, <1>4, AppendProperties, LenProperties
<1>6. NoteTypes'
  BY <1>1, <1>2, <1>4 DEF NoteTypes
<1>7. \A n \in 1 .. Len(said'[c]) : n \in 1 .. Len(said[c]) \/ said'[c][n] = request
  <2>1. PICK L : L = Len(said[c])
    OBVIOUS
  <2>2. \A n \in 1 .. (L + 1) : n \in 1 .. L \/ n = L + 1
    BY <1>5, <2>1
  <2>3. QED
    BY <1>5, <2>1, <2>2
<1>8. ASSUME NEW d \in Clients PROVE Recorded(d)' /\ AskedIs(d)' /\ AnsweredIs(d)'
  <2>1. CASE d # c
    <3>1. UNCHANGED <<at[d], known[d], wants[d], asked[d], served[d], toClient[d],
                      said[d], answered[d], my_id[d]>>
      BY <1>1, <1>4, <2>1 DEF SessionsIInv, ClientTypes
    <3>2. QED
      BY <1>1, <3>1, NotesOfOthers DEF AccountsKept
  <2>2. CASE d = c
    <3>1. /\ asked'[c] = asked[c] + 1 /\ at'[c] = "waiting"
          /\ UNCHANGED <<known[c], served[c], toClient[c], answered[c], my_id[c], users>>
      BY <1>1 DEF SessionsIInv, ClientTypes
    <3>2. Recorded(c)'
      BY <1>3, <1>5, <3>1 DEF Recorded
    <3>3. ASSUME NEW n \in 1 .. Len(said'[c])
          PROVE  /\ said'[c][n].op \notin AccountOps => known[c] /\ said'[c][n].uid = my_id[c]
      BY <1>2, <1>5, <1>7 DEF AskedIs
    <3>4. ASSUME wants'[c] = "account", NEW n \in 1 .. Len(said'[c])
          PROVE  ~known[c] /\ said'[c][n].op \in AccountOps
      BY <1>2, <3>3, <3>4
    <3>5. ASSUME wants'[c] = "account" PROVE ~known[c]
      BY <1>2, <3>5
    <3>6. AskedIs(c)'
      BY <3>1, <3>3, <3>4, <3>5 DEF AskedIs
    <3>7. \A n \in 1 .. Len(answered[c]) : said'[c][n] = said[c][n]
      <4>1. served[c] <= asked[c] /\ served[c] \in Nat
        BY DEF SessionsIInv, InTransit, Transit, ClientTypes
      <4>2. \A n \in 1 .. served[c] : n \in 1 .. asked[c]
        BY <1>1, <4>1
      <4>3. QED
        BY <1>3, <1>5, <4>2
    <3>8. AnsweredIs(c)'
      BY <3>1, <3>7 DEF AnsweredIs, Granted
    <3>9. QED
      BY <2>2, <3>2, <3>6, <3>8
  <2>3. QED
    BY <2>1, <2>2
<1>9. ServingOrder'
  <2>1. ASSUME serving # 0
        PROVE  /\ <<serving, "read">> \in pending /\ peer[serving] \in Clients
               /\ served[peer[serving]] + 1 \in 1 .. Len(said[peer[serving]])
               /\ said[peer[serving]][served[peer[serving]] + 1].op \in OrderOps
    BY <2>1, ReaderIsClient DEF ServingOrder
  <2>2. ASSUME NEW d \in Clients, NEW n \in 1 .. Len(said[d])
        PROVE  n \in 1 .. Len(said'[d]) /\ said'[d][n] = said[d][n]
    BY <1>4, <1>5
  <2>3. QED
    BY <1>1, <2>1, <2>2 DEF ServingOrder, serverVars
<1>10. OwnAccount'
  BY <1>1 DEF OwnAccount
<1>11. QED
  BY <1>6, <1>8, <1>9, <1>10

\* What a client that waits for an account reads: either no reply, and it ends, or the
\* answer to the last request.
LEMMA AccountRead ==
    ASSUME ExchangeIInv, NEW c \in Clients, ReadMessage(c), wants[c] = "account"
    PROVE  \/ at'[c] = "failed" /\ known' = known
           \/ /\ at'[c] = "idle" /\ shown'[c] = Len(said[c])
              /\ Len(said[c]) \in 1 .. Len(answered[c])
              /\ known' = [known EXCEPT ![c] = Granted(Len(said[c]), c)]
<1> USE DEF ExchangeIInv, Notes
<1>1. PICK k \in 1 .. Len(toClient[c]) :
        LET bytes == SubSeq(toClient[c], 1, k)
        IN  IF wants[c] = "order" \/ Parses(bytes)
            THEN /\ at' = [at EXCEPT ![c] = "idle"]
                 /\ shown' = [shown EXCEPT ![c] = bytes[k].n]
                 /\ known' = [known EXCEPT ![c] = @ \/ (wants[c] = "account" /\ bytes[k].ok)]
            ELSE at' = [at EXCEPT ![c] = "failed"] /\ UNCHANGED <<shown, known>>
  BY DEF ReadMessage
<1>2. PICK bytes : bytes = SubSeq(toClient[c], 1, k)
  OBVIOUS
<1>3. /\ at \in [Clients -> Places] /\ shown \in [Clients -> 0 .. MaxRequests]
      /\ known \in [Clients -> BOOLEAN] /\ asked[c] \in Nat /\ at[c] = "waiting"
  BY SessionsAssumption DEF SessionsIInv, ClientTypes, ReadMessage
<1>4. CASE Parses(bytes)
  <2>1. bytes[k] = toClient[c][k] /\ toClient[c][k].n = asked[c]
    <3>1. PICK there, back, want, sent, run, seen, rest :
            /\ there = toServer[c] /\ back = toClient[c] /\ want = wants[c]
            /\ sent = asked[c] /\ run = served[c] /\ seen = shown[c]
            /\ rest = Consumed(back, k)
      OBVIOUS
    <3>2. UnderWay(there, back, want, sent, run, seen, "waiting") /\ Taken(back, k, rest)
      BY <1>3, <3>1, SessionsAssumption DEF UnderWay, Taken, SessionsIInv, ClientTypes, InTransit
    <3>3. /\ SubSeq(back, 1, k)[k] = back[k]
          /\ want # "order" /\ Parses(SubSeq(back, 1, k)) => back[k].n = sent
      BY <3>2, ReplyRead
    <3>4. want # "order"
      BY <3>1
    <3>5. QED
      BY <1>2, <1>4, <3>1, <3>3, <3>4
  <2>2. /\ at'[c] = "idle" /\ shown'[c] = toClient[c][k].n
        /\ known' = [known EXCEPT ![c] = known[c] \/ toClient[c][k].ok]
    BY <1>1, <1>2, <1>3, <1>4, <2>1
  <2>3. ~known[c]
    BY <1>3 DEF AskedIs
  <2>4. /\ toClient[c][k].n \in 1 .. Len(answered[c])
        /\ toClient[c][k].ok <=> Granted(toClient[c][k].n, c)
    BY DEF AnsweredIs
  <2>5. toClient[c][k].n = Len(said[c])
    BY <2>1 DEF Recorded
  <2>6. (known[c] \/ toClient[c][k].ok) <=> Granted(Len(said[c]), c)
    BY <2>3, <2>4, <2>5
  <2>7. toClient[c][k].ok \in BOOLEAN
    <3>1. toClient[c] \in Seq(Pieces)
      BY DEF SessionsIInv, ClientTypes
    <3>2. toClient[c][k] \in Pieces
      BY <3>1, ElementOfSeq
    <3>3. QED
      BY <3>2 DEF Pieces
  <2>8. (known[c] \/ toClient[c][k].ok) = Granted(Len(said[c]), c)
    BY <2>6, <2>7 DEF Granted
  <2>9. QED
    BY <2>2, <2>4, <2>5, <2>8
<1>5. CASE ~Parses(bytes)
  BY <1>1, <1>2, <1>3, <1>5
<1>6. QED
  BY <1>4, <1>5

\* A client of which only the place and the bytes still to come have changed.
LEMMA ReadLeavesNotes ==
    ASSUME ExchangeIInv, NEW c \in Clients, ReadMessage(c)
    PROVE  /\ at[c] = "waiting" /\ at'[c] \in {"idle", "failed"}
           /\ \A d \in Clients \ {c} : UNCHANGED <<at[d], known[d], toClient[d], shown[d]>>
           /\ UNCHANGED <<serverVars, wants, asked, toServer, served>>
           /\ wants[c] # "account" => known' = known
           /\ \E k : k \in 1 .. Len(toClient[c]) /\ toClient'[c] = Consumed(toClient[c], k)
<1>1. PICK k \in 1 .. Len(toClient[c]) :
        LET bytes == SubSeq(toClient[c], 1, k)
        IN  /\ toClient' = [toClient EXCEPT ![c] = Consumed(@, k)]
            /\ IF wants[c] = "order" \/ Parses(bytes)
               THEN /\ at' = [at EXCEPT ![c] = "idle"]
                    /\ shown' = [shown EXCEPT ![c] = bytes[k].n]
                    /\ known' = [known EXCEPT ![c] = @ \/ (wants[c] = "account" /\ bytes[k].ok)]
               ELSE at' = [at EXCEPT ![c] = "failed"] /\ UNCHANGED <<shown, known>>
  BY DEF ReadMessage
<1>2. PICK bytes : bytes = SubSeq(toClient[c], 1, k)
  OBVIOUS
<1>3. ClientTypes
  BY DEF ExchangeIInv, SessionsIInv
<1>4. \/ /\ at' = [at EXCEPT ![c] = "idle"]
         /\ shown' = [shown EXCEPT ![c] = bytes[k].n]
         /\ known' = [known EXCEPT ![c] = @ \/ (wants[c] = "account" /\ bytes[k].ok)]
      \/ at' = [at EXCEPT ![c] = "failed"] /\ UNCHANGED <<shown, known>>
  BY <1>1, <1>2
<1>5. /\ at[c] = "waiting" /\ UNCHANGED <<serverVars, wants, asked, toServer, served>>
  BY DEF ReadMessage
<1>6. /\ at'[c] \in {"idle", "failed"}
      /\ \A d \in Clients \ {c} : UNCHANGED <<at[d], known[d], toClient[d], shown[d]>>
  BY <1>1, <1>3, <1>4 DEF ClientTypes
<1>7. ASSUME wants[c] # "account" PROVE known' = known
  BY <1>3, <1>4, <1>7 DEF ClientTypes
<1>8. toClient'[c] = Consumed(toClient[c], k)
  BY <1>1, <1>3 DEF ClientTypes
<1>9. QED
  BY <1>5, <1>6, <1>7, <1>8

LEMMA TakeReplyPreservesNotes ==
    ASSUME ExchangeIInv, NEW c \in Clients, TakeReply(c)
    PROVE  Notes'
<1> USE DEF ExchangeIInv, Notes
<1>1. /\ at[c] = "waiting" /\ at'[c] \in {"idle", "failed"}
      /\ \A d \in Clients \ {c} : UNCHANGED <<at[d], known[d], toClient[d], shown[d]>>
      /\ UNCHANGED <<serverVars, wants, asked, toServer, served>>
      /\ wants[c] # "account" => known' = known
      /\ \E k : k \in 1 .. Len(toClient[c]) /\ toClient'[c] = Consumed(toClient[c], k)
  BY ReadLeavesNotes DEF TakeReply
<1>2. UNCHANGED <<users, said, answered, serving>>
  BY DEF TakeReply, vars, tableVars
<1>3. PICK last : last = Len(said[c])
  OBVIOUS
<1>4. PICK uid : uid = Identity(answered[c][last])
  OBVIOUS
<1>5. Last(said[c]) = said[c][last]
  BY <1>3 DEF Last
<1>6. \/ wants[c] # "account" /\ known' = known /\ UNCHANGED <<my_id, owner>>
      \/ /\ wants[c] = "account" /\ known' = known /\ at'[c] = "failed"
         /\ UNCHANGED <<my_id, owner>>
      \/ /\ wants[c] = "account" /\ last \in 1 .. Len(answered[c])
         /\ known' = [known EXCEPT ![c] = Granted(last, c)]
         /\ my_id' = [my_id EXCEPT ![c] = uid]
         /\ owner' = IF uid # 0 THEN [owner EXCEPT ![c] = said[c][last].login] ELSE owner
  <2>1. CASE wants[c] # "account"
    BY <1>1, <2>1 DEF TakeReply
  <2>2. CASE wants[c] = "account"
    <3>1. \/ at'[c] = "failed" /\ known' = known
          \/ /\ at'[c] = "idle" /\ shown'[c] = last /\ last \in 1 .. Len(answered[c])
             /\ known' = [known EXCEPT ![c] = Granted(last, c)]
      BY <1>3, <2>2, AccountRead DEF TakeReply
    <3>2. CASE at'[c] = "failed" /\ known' = known
      BY <2>2, <3>2 DEF TakeReply
    <3>3. CASE /\ at'[c] = "idle" /\ shown'[c] = last /\ last \in 1 .. Len(answered[c])
               /\ known' = [known EXCEPT ![c] = Granted(last, c)]
      BY <1>4, <1>5, <2>2, <3>3 DEF TakeReply
    <3>4. QED
      BY <3>1, <3>2, <3>3
  <2>3. QED
    BY <2>1, <2>2
<1>7. /\ \A d \in Clients \ {c} : my_id'[d] = my_id[d] /\ owner'[d] = owner[d] /\ known'[d] = known[d]
      /\ DOMAIN my_id' = Clients /\ DOMAIN owner' = Clients
  BY <1>6 DEF NoteTypes, SessionsIInv, ClientTypes
<1>8. NoteTypes'
  BY <1>2, <1>7 DEF NoteTypes
<1>9. AskedIs(c)'
  <2>1. at'[c] # "waiting"
    BY <1>1
  <2>2. CASE UNCHANGED <<known, my_id>>
    BY <1>2, <2>1, <2>2 DEF AskedIs
  <2>3. CASE wants[c] = "account"
    <3>1. \A n \in 1 .. Len(said[c]) : said[c][n].op \in AccountOps
      BY <1>1, <2>3 DEF AskedIs
    <3>2. QED
      BY <1>2, <2>1, <3>1 DEF AskedIs
  <2>4. QED
    BY <1>6, <2>2, <2>3
<1>10. Recorded(c)'
  BY <1>1, <1>2 DEF Recorded
<1>11. AnsweredIs(c)'
  <2>1. PICK k : k \in 1 .. Len(toClient[c]) /\ toClient'[c] = Consumed(toClient[c], k)
    BY <1>1
  <2>2. PICK rest, back : rest = toClient'[c] /\ back = toClient[c]
    OBVIOUS
  <2>3. back \in Seq(Pieces) /\ Stream(back, served[c]) /\ k \in 1 .. Len(back)
        /\ rest = Consumed(back, k)
    BY <2>1, <2>2 DEF SessionsIInv, ClientTypes, InTransit, Transit
  <2>4. \A i \in 1 .. Len(rest) : rest[i] = back[k + i] /\ k + i \in 1 .. Len(back)
    BY <2>3, StreamConsumed
  <2>5. ASSUME NEW i \in 1 .. Len(rest)
        PROVE  rest[i].n \in 1 .. Len(answered[c]) /\ (rest[i].ok <=> Granted(rest[i].n, c))
    <3>1. PICK j \in 1 .. Len(back) : rest[i] = back[j]
      BY <2>4
    <3>2. QED
      BY <2>2, <3>1 DEF AnsweredIs
  <2>6. QED
    BY <1>2, <2>2, <2>5 DEF AnsweredIs, Granted
<1>12. ASSUME NEW d \in Clients PROVE Recorded(d)' /\ AskedIs(d)' /\ AnsweredIs(d)'
  <2>1. CASE d # c
    <3>1. UNCHANGED <<at[d], known[d], wants[d], asked[d], served[d], toClient[d],
                      said[d], answered[d], my_id[d]>>
      BY <1>1, <1>2, <1>7, <2>1
    <3>2. QED
      BY <1>2, <3>1, NotesOfOthers DEF AccountsKept
  <2>2. CASE d = c
    BY <1>9, <1>10, <1>11, <2>2
  <2>3. QED
    BY <2>1, <2>2
<1>13. ServingOrder'
  BY <1>1, <1>2 DEF ServingOrder, serverVars
<1>14. ASSUME NEW d \in Clients
       PROVE  /\ known'[d] <=> my_id'[d] # 0
              /\ known'[d] => my_id'[d] \in DOMAIN users /\ users[my_id'[d]].login = owner'[d]
  <2>1. /\ known[d] <=> my_id[d] # 0
        /\ known[d] => my_id[d] \in DOMAIN users /\ users[my_id[d]].login = owner[d]
    BY DEF OwnAccount
  <2>2. CASE d # c \/ UNCHANGED <<known, my_id, owner>>
    <3>1. my_id'[d] = my_id[d] /\ owner'[d] = owner[d] /\ known'[d] = known[d]
      BY <1>7, <2>2
    <3>2. QED
      BY <2>1, <3>1
  <2>3. CASE /\ d = c /\ wants[c] = "account" /\ last \in 1 .. Len(answered[c])
             /\ known' = [known EXCEPT ![c] = Granted(last, c)]
             /\ my_id' = [my_id EXCEPT ![c] = uid]
             /\ owner' = IF uid # 0 THEN [owner EXCEPT ![c] = said[c][last].login] ELSE owner
    <3>1. known'[c] = Granted(last, c) /\ my_id'[c] = uid
      BY <2>3 DEF NoteTypes, SessionsIInv, ClientTypes
    <3>2. said[c][last].op \in AccountOps
      <4>1. last \in 1 .. Len(said[c])
        BY <1>3, <2>3
      <4>2. QED
        BY <1>1, <2>3, <4>1 DEF AskedIs
    <3>3. CASE Granted(last, c)
      <4>1. uid = answered[c][last].uid /\ uid \in DOMAIN users
            /\ users[uid].login = said[c][last].login
        BY <1>4, <2>3, <3>2, <3>3 DEF Identity, AnsweredIs, Granted
      <4>2. uid # 0
        BY <4>1 DEF IInv, TypeOK
      <4>3. owner'[c] = said[c][last].login
        BY <2>3, <4>2 DEF NoteTypes
      <4>4. QED
        BY <2>3, <3>1, <3>3, <4>1, <4>2, <4>3
    <3>4. CASE ~Granted(last, c)
      <4>1. uid = 0
        BY <1>4, <3>4 DEF Identity, Granted
      <4>2. QED
        BY <2>3, <3>1, <3>4, <4>1
    <3>5. QED
      BY <3>3, <3>4
  <2>4. QED
    BY <1>6, <2>2, <2>3
<1>15. OwnAccount'
  BY <1>2, <1>14 DEF OwnAccount
<1>16. QED
  BY <1>8, <1>12, <1>13, <1>15

LEMMA GoPreservesNotes ==
    ASSUME ExchangeIInv, NEW c \in Clients, MissServer(c) \/ ComeAndGo(c)
    PROVE  Notes'
<1> USE DEF ExchangeIInv, Notes
<1>1. /\ UNCHANGED <<peer, pending, known, wants, asked, served, toServer, toClient, users>>
      /\ UNCHANGED <<said, answered, my_id, owner, serving>>
      /\ \A d \in Clients \ {c} : at'[d] = at[d]
      /\ at'[c] # "waiting"
  BY DEF MissServer, ComeAndGo, Connect, Leave, LoseServer, serverVars, wires, clientNotes,
         vars, tableVars, SessionsIInv, ClientTypes
<1>2. NoteTypes' /\ ServingOrder' /\ OwnAccount'
  BY <1>1 DEF NoteTypes, ServingOrder, OwnAccount
<1>3. ASSUME NEW d \in Clients PROVE Recorded(d)' /\ AskedIs(d)' /\ AnsweredIs(d)'
  <2>1. Recorded(d)'
    BY <1>1 DEF Recorded
  <2>2. AskedIs(d)'
    BY <1>1 DEF AskedIs
  <2>3. AnsweredIs(d)'
    BY <1>1 DEF AnsweredIs, Granted
  <2>4. QED
    BY <2>1, <2>2, <2>3
<1>4. QED
  BY <1>2, <1>3

-----------------------------------------------------------------------------
(* The exchange: the server's steps *)

\* A step that touches neither clients nor bytes, whatever it does to the accounts.
LEMMA NotesStay ==
    ASSUME ExchangeIInv, AccountsKept, UNCHANGED <<clientVars, wires, served>>,
           UNCHANGED clientNotes
    PROVE  NoteTypes' /\ (\A d \in Clients : Recorded(d)' /\ AskedIs(d)' /\ AnsweredIs(d)') /\ OwnAccount'
<1> USE DEF ExchangeIInv, Notes
<1>1. UNCHANGED <<at, known, wants, asked, served, toClient, said, answered, my_id, owner>>
  BY DEF clientVars, wires, clientNotes
<1>2. NoteTypes'
  BY <1>1 DEF NoteTypes
<1>3. ASSUME NEW d \in Clients PROVE Recorded(d)' /\ AskedIs(d)' /\ AnsweredIs(d)'
  BY <1>1, NotesOfOthers
<1>4. OwnAccount'
  BY <1>1 DEF OwnAccount, AccountsKept
<1>5. QED
  BY <1>2, <1>3, <1>4

\* What the engine answers to a request to register or log in is the uid of the
\* account with the login that was typed.
Identifies(c, result) ==
    said[c][served[c] + 1].op \in AccountOps /\ result.err = "ok" =>
        /\ result.uid \in DOMAIN users'
        /\ users'[result.uid].login = said[c][served[c] + 1].login

LEMMA ReplyKeepsNotes ==
    ASSUME ExchangeIInv, AccountsKept, NEW s, NEW result \in Answers, ReplyWith(s, result),
           Identifies(peer[s], result)
    PROVE  NoteTypes' /\ (\A d \in Clients : Recorded(d)' /\ AskedIs(d)' /\ AnsweredIs(d)') /\ OwnAccount'
<1> USE DEF ExchangeIInv, Notes
<1>0. PICK c : c = peer[s]
  OBVIOUS
<1>1. /\ c \in Clients
      /\ \E ok \in BOOLEAN : \E m : ReplySent(c, ok, m)
      /\ served' = [served EXCEPT ![c] = served[c] + 1]
      /\ \E k : RequestRead(c, k)
  BY <1>0, HandleReadAnswers DEF ReplyWith
<1>2. PICK ok \in BOOLEAN : \E m : ReplySent(c, ok, m)
  BY <1>1
<1>3. PICK m : ReplySent(c, ok, m)
  BY <1>2
<1>4. PICK back, run, all : back = toClient[c] /\ run = served[c] /\ Joined(all, back, m)
  BY DEF Joined
<1>5. PICK kind : MessageOf(m, run + 1, kind, ok)
  BY <1>3, <1>4 DEF ReplySent
<1>6. /\ back \in Seq(Pieces) /\ run \in Nat /\ Stream(back, run)
  BY <1>1, <1>4 DEF SessionsIInv, ClientTypes, InTransit, Transit
<1>7. /\ all \in Seq(Pieces)
      /\ \A i \in 1 .. Len(back) : all[i] = back[i]
      /\ \A i \in 1 .. Len(all) : i \notin 1 .. Len(back) => all[i].n = run + 1 /\ all[i].ok = ok
      /\ all[Len(all)].ok = ok
  BY <1>4, <1>5, <1>6, StreamExtended
<1>8. /\ toClient'[c] = all /\ \A d \in Clients \ {c} : toClient'[d] = toClient[d]
  BY <1>1, <1>3, <1>4 DEF ReplySent, Joined, SessionsIInv, ClientTypes
<1>9. /\ UNCHANGED <<at, known, wants, asked>> /\ UNCHANGED <<said, my_id, owner>>
      /\ answered' = [answered EXCEPT ![c] = Append(answered[c], result)]
      /\ Last(toClient'[c]).ok = (result.err = "ok")
  BY <1>0 DEF ReplyWith, HandleRead, clientVars
<1>10. ok <=> result.err = "ok"
  BY <1>7, <1>8, <1>9 DEF Last
<1>11. answered[c] \in Seq(Answers) /\ Len(answered[c]) = run
  BY <1>1, <1>4 DEF NoteTypes, Recorded
<1>12. /\ Append(answered[c], result) \in Seq(Answers)
       /\ Len(Append(answered[c], result)) = run + 1
       /\ \A i \in 1 .. run : Append(answered[c], result)[i] = answered[c][i]
       /\ Append(answered[c], result)[run + 1] = result
  BY <1>11, AppendProperties
<1>13. /\ answered'[c] = Append(answered[c], result)
       /\ \A d \in Clients \ {c} : answered'[d] = answered[d]
  BY <1>1, <1>9 DEF NoteTypes
<1>14. NoteTypes'
  BY <1>9, <1>12 DEF NoteTypes
<1>15. served'[c] = run + 1 /\ \A d \in Clients \ {c} : served'[d] = served[d]
  BY <1>1, <1>4 DEF SessionsIInv, ClientTypes
<1>16. Recorded(c)'
  BY <1>1, <1>9, <1>12, <1>13, <1>15 DEF Recorded
<1>17. AskedIs(c)'
  BY <1>1, <1>9 DEF AskedIs
<1>18. AnsweredIs(c)'
  <2>1. PICK next, L : next = Append(answered[c], result) /\ L = Len(all)
    OBVIOUS
  <2>2. /\ Len(next) = run + 1 /\ \A i \in 1 .. run : next[i] = answered[c][i]
        /\ next[run + 1] = result
    BY <1>12, <2>1
  <2>3. /\ \A i \in 1 .. Len(back) : back[i].n \in 1 .. run
                                     /\ (back[i].ok <=> answered[c][back[i].n].err = "ok")
    BY <1>1, <1>4, <1>11 DEF AnsweredIs, Granted
  <2>4. ASSUME NEW i \in 1 .. L
        PROVE  all[i].n \in 1 .. (run + 1) /\ (all[i].ok <=> next[all[i].n].err = "ok")
    <3>1. CASE i \in 1 .. Len(back)
      <4>1. PICK x : x = all[i].n
        OBVIOUS
      <4>2. x \in 1 .. run /\ (all[i].ok <=> answered[c][x].err = "ok")
        BY <1>7, <2>3, <3>1, <4>1
      <4>3. x \in 1 .. (run + 1) /\ next[x] = answered[c][x]
        BY <1>6, <2>2, <4>2
      <4>4. QED
        BY <4>1, <4>2, <4>3
    <3>2. CASE i \notin 1 .. Len(back)
      <4>1. all[i].n = run + 1 /\ all[i].ok = ok
        BY <1>7, <2>1, <3>2
      <4>2. run + 1 \in 1 .. (run + 1)
        BY <1>6
      <4>3. QED
        BY <1>10, <2>2, <4>1, <4>2
    <3>3. QED
      BY <3>1, <3>2
  <2>5. ASSUME NEW n \in 1 .. (run + 1), said[c][n].op \in AccountOps, next[n].err = "ok"
        PROVE  next[n].uid \in DOMAIN users' /\ users'[next[n].uid].login = said[c][n].login
    <3>1. CASE n = run + 1
      BY <1>0, <1>4, <2>2, <2>5, <3>1 DEF Identifies
    <3>2. CASE n # run + 1
      <4>1. n \in 1 .. run
        BY <1>6, <3>2
      <4>2. next[n] = answered[c][n] /\ n \in 1 .. Len(answered[c])
        BY <1>11, <2>2, <4>1
      <4>3. answered[c][n].uid \in DOMAIN users /\ users[answered[c][n].uid].login = said[c][n].login
        BY <1>1, <2>5, <4>2 DEF AnsweredIs, Granted
      <4>4. QED
        BY <4>2, <4>3 DEF AccountsKept
    <3>3. QED
      BY <3>1, <3>2
  <2>6. /\ answered'[c] = next /\ toClient'[c] = all /\ said'[c] = said[c]
    BY <1>8, <1>9, <1>13, <2>1
  <2>7. QED
    BY <2>1, <2>2, <2>4, <2>5, <2>6 DEF AnsweredIs, Granted
<1>19. ASSUME NEW d \in Clients PROVE Recorded(d)' /\ AskedIs(d)' /\ AnsweredIs(d)'
  <2>1. CASE d # c
    <3>1. UNCHANGED <<at[d], known[d], wants[d], asked[d], served[d], toClient[d],
                      said[d], answered[d], my_id[d]>>
      BY <1>8, <1>9, <1>13, <1>15, <2>1
    <3>2. QED
      BY <3>1, NotesOfOthers
  <2>2. CASE d = c
    BY <1>16, <1>17, <1>18, <2>2
  <2>3. QED
    BY <2>1, <2>2
<1>20. OwnAccount'
  BY <1>9 DEF OwnAccount, AccountsKept
<1>21. QED
  BY <1>14, <1>19, <1>20

LEMMA ServeAccountPreservesNotes ==
    ASSUME ExchangeIInv, AccountsKept, IInv', NEW s, ServeAccount(s)
    PROVE  Notes'
<1> USE DEF ExchangeIInv
<1>1. PICK request, result : request = Request(s) /\ result = reply'
  OBVIOUS
<1>2. \/ RegisterNewUser(request.login, request.pass)
      \/ TryLogin(request.login, request.pass)
  BY <1>1 DEF ServeAccount
<1>3. ASSUME result.err = "ok"
      PROVE  result.uid \in DOMAIN users' /\ users'[result.uid].login = request.login
  <2>1. CASE RegisterNewUser(request.login, request.pass)
    <3>1. result = Reply("ok", maxUid) /\ users' = Put(users, maxUid, NewUser(request.login, request.pass))
      BY <1>1, <1>3, <2>1 DEF RegisterNewUser, Reply, AddedUid, AddUser
    <3>2. QED
      BY <3>1 DEF Reply, Put, NewUser
  <2>2. CASE TryLogin(request.login, request.pass)
    <3>1. /\ IsLoginInTable(request.login) /\ result = Reply("ok", logins[request.login])
          /\ users' = users
      BY <1>1, <1>3, <2>2 DEF TryLogin, Reply, GetUid, tableVars
    <3>2. QED
      BY <3>1 DEF Reply, IsLoginInTable, AccountIndex, IInv, TypeOK
  <2>3. QED
    BY <1>2, <2>1, <2>2
<1>4. ReplyWith(s, result) /\ serving = 0 /\ serving' = 0 /\ HasRequest(s)
  BY <1>1 DEF ServeAccount, HasRequest
<1>5. request = said[peer[s]][served[peer[s]] + 1]
  BY <1>1, <1>4, RequestIsNext DEF Notes
<1>6. Identifies(peer[s], result)
  BY <1>3, <1>5 DEF Identifies
<1>7. result \in Answers
  BY <1>1 DEF IInv, TypeOK, Answers
<1>8. QED
  BY <1>4, <1>6, <1>7, ReplyKeepsNotes DEF Notes, ServingOrder

LEMMA ServeQueryPreservesNotes ==
    ASSUME ExchangeIInv, AccountsKept, NEW s, ServeQuery(s)
    PROVE  Notes'
<1>1. PICK result : ReplyWith(s, result) /\ result \in {Reply("ok", 0), Reply("404", 0)}
  BY DEF ServeQuery
<1>2. result \in Answers
  BY <1>1 DEF Reply, Answers, Errors
<1>3. HasRequest(s) /\ Request(s).op = "query" /\ serving = 0 /\ serving' = 0
  BY DEF ServeQuery, HasRequest
<1>4. Request(s) = said[peer[s]][served[peer[s]] + 1]
  BY <1>3, RequestIsNext DEF ExchangeIInv, Notes
<1>5. Identifies(peer[s], result)
  BY <1>3, <1>4 DEF Identifies, AccountOps
<1>6. QED
  BY <1>1, <1>2, <1>3, <1>5, ReplyKeepsNotes DEF Notes, ServingOrder

LEMMA EndOrderPreservesNotes ==
    ASSUME ExchangeIInv, AccountsKept, IInv', NEW s \in Nat \ {0}, EndOrder(s)
    PROVE  Notes'
<1>1. PICK result : result = reply'
  OBVIOUS
<1>2. ReplyWith(s, result) /\ serving = s /\ serving' = 0
  BY <1>1 DEF EndOrder
<1>3. said[peer[s]][served[peer[s]] + 1].op \in OrderOps
  BY <1>2 DEF ExchangeIInv, Notes, ServingOrder
<1>4. Identifies(peer[s], result)
  BY <1>3 DEF Identifies, AccountOps, OrderOps
<1>5. result \in Answers
  BY <1>1 DEF IInv, TypeOK, Answers
<1>6. QED
  BY <1>2, <1>4, <1>5, ReplyKeepsNotes DEF Notes, ServingOrder

LEMMA OtherServerStepsPreserveNotes ==
    ASSUME ExchangeIInv, AccountsKept, NEW s \in Nat \ {0},
           StartOrder(s) \/ MatchOrder(s) \/ OtherHandler(s)
    PROVE  Notes'
<1>1. UNCHANGED <<clientVars, wires, served>> /\ UNCHANGED clientNotes
  BY DEF StartOrder, MatchOrder, OtherHandler, sessionVars, DeleteSession,
     HandleAccept, HandleAcceptError, HandleReadThrows, HandleReadError, HandleWrite, HandleWriteError
<1>2. ServingOrder'
  <2>1. CASE StartOrder(s)
    <3>1. HasRequest(s) /\ Request(s).op \in OrderOps /\ serving' = s
      BY <2>1 DEF StartOrder, OrderOps
    <3>2. /\ served[peer[s]] + 1 \in 1 .. Len(said[peer[s]])
          /\ Request(s) = said[peer[s]][served[peer[s]] + 1]
      BY <3>1, RequestIsNext DEF ExchangeIInv, Notes
    <3>3. <<s, "read">> \in pending /\ UNCHANGED <<pending, peer, served, said>>
      BY <2>1, <3>1 DEF HasRequest, StartOrder, sessionVars, serverVars, clientNotes
    <3>4. QED
      BY <3>1, <3>2, <3>3 DEF ServingOrder
  <2>2. CASE MatchOrder(s)
    <3>1. UNCHANGED <<pending, peer, served, said, serving>>
      BY <2>2 DEF MatchOrder, sessionVars, serverVars, clientNotes
    <3>2. QED
      BY <3>1 DEF ServingOrder, ExchangeIInv, Notes
  <2>3. CASE OtherHandler(s)
    BY <2>3 DEF OtherHandler, ServingOrder
  <2>4. QED
    BY <2>1, <2>2, <2>3
<1>3. QED
  BY <1>1, <1>2, NotesStay DEF Notes

-----------------------------------------------------------------------------
(* The invariant of the exchange, and what follows from it *)

LEMMA ExchangeStepPreservesIInv ==
    ExchangeIInv /\ [ExchangeNext]_exchangeVars => ExchangeIInv'
<1> SUFFICES ASSUME ExchangeIInv, [ExchangeNext]_exchangeVars PROVE ExchangeIInv'
  OBVIOUS
<1>1. SessionsIInv'
  BY ExchangeStepsSessions, SessionsStepPreservesIInv DEF ExchangeIInv
<1>2. [Next]_vars
  BY ExchangeStepsCore DEF ExchangeIInv
<1>3. IInv' /\ AccountIndex'
  BY <1>2, NextIInv, NextAccountIndex DEF ExchangeIInv
<1>4. AccountsKept
  BY <1>2, <1>3, NextKeepsAccounts DEF ExchangeIInv
<1>5. ASSUME NEW c \in Clients, Ask(c) \/ TakeReply(c) \/ MissServer(c) \/ ComeAndGo(c)
      PROVE  Notes'
  BY <1>5, AskPreservesNotes, TakeReplyPreservesNotes, GoPreservesNotes
<1>6. ASSUME NEW s \in 1 .. created, ServerStep(s) PROVE Notes'
  <2>1. s \in Nat \ {0}
    BY DEF ExchangeIInv, SessionsIInv, ServerTypes
  <2>2. QED
    BY <1>3, <1>4, <1>6, <2>1, ServeAccountPreservesNotes, ServeQueryPreservesNotes,
       EndOrderPreservesNotes, OtherServerStepsPreserveNotes DEF ServerStep
<1>7. ASSUME UNCHANGED exchangeVars PROVE Notes'
  <2>1. /\ UNCHANGED <<clientVars, wires, served>> /\ UNCHANGED clientNotes
        /\ UNCHANGED <<peer, pending, serving>>
    BY <1>7 DEF exchangeVars, sessionVars, serverVars
  <2>2. ServingOrder'
    BY <2>1 DEF ExchangeIInv, Notes, ServingOrder, clientNotes
  <2>3. QED
    BY <1>4, <2>1, <2>2, NotesStay DEF Notes
<1>8. QED
  BY <1>1, <1>3, <1>5, <1>6, <1>7 DEF ExchangeNext, ExchangeIInv

LEMMA ExchangeInvariant == ExchangeSpec => []ExchangeIInv
BY ExchangeInitEstablishesIInv, ExchangeStepPreservesIInv, PTL DEF ExchangeSpec

\* Seen from the sockets, the exchange does what the connections alone do: whatever
\* the engine is in the middle of, requests and replies keep their order
\* (Server.cpp:42-106).
THEOREM ExchangeKeepsSessions == ExchangeSpec => SessionsSpec
<1>1. ExchangeInit => SessionsInit
  BY DEF ExchangeInit
<1>2. [ExchangeNext]_exchangeVars => [SessionsNext]_sessionVars
  BY ExchangeStepsSessions
<1>3. QED
  BY <1>1, <1>2, PTL DEF ExchangeSpec, SessionsSpec

\* Seen from the engine, the clients of the exchange only make the calls that Core
\* allows for, one at a time: what is proved of Core holds of the exchange
\* (Server.cpp:63-93, Client.cpp:68-134).
THEOREM ExchangeDrivesCore == ExchangeSpec => Spec
<1>1. ExchangeInit => Init
  BY DEF ExchangeInit
<1>2. ExchangeIInv /\ [ExchangeNext]_exchangeVars => [Next]_vars
  BY ExchangeStepsCore DEF ExchangeIInv
<1>3. QED
  BY <1>1, <1>2, ExchangeInvariant, PTL DEF ExchangeSpec, Spec

\* The fills of the exchange are those of a clearing house that pairs open orders
\* and moves money between accounts (core.cpp:37-105).
THEOREM ExchangeClears == ExchangeSpec => ImplementsClearing
<1>1. ForeignUids = {}
  BY ExchangeAssumption
<1>2. QED
  BY <1>1, ExchangeDrivesCore, CoreImplementsClearing

\* A client that is let in holds the account of the login it typed, whoever
\* registers, trades or leaves meanwhile (Client.cpp:68-76, 96-106,
\* core.cpp:10-35).
THEOREM ClientsHoldTheirAccounts == ExchangeSpec => []OwnAccount
BY ExchangeInvariant, PTL DEF ExchangeIInv, Notes

\* What one account gains another loses, whatever clients and connections do
\* meanwhile: with the repository's client every request carries the uid of an
\* account, so no loop is left by an early return (core.cpp:46-54, 79-87).
THEOREM MoneyStaysInTheExchange == ExchangeSpec => []MoneyConserved
<1>1. ForeignUids = {}
  BY ExchangeAssumption
<1>2. IInv /\ Conserved => MoneyConserved
  <2> SUFFICES ASSUME IInv, Conserved PROVE MoneyConserved
    OBVIOUS
  <2>1. /\ DOMAIN Balances = DOMAIN users
        /\ \A uid \in DOMAIN users : /\ Balances[uid].usd = users[uid].usd
                                     /\ Balances[uid].rub = users[uid].rub
    BY BalancesType DEF Balances
  <2>2. /\ DollarBalances = [uid \in DOMAIN users |-> users[uid].usd]
        /\ RoubleBalances = [uid \in DOMAIN users |-> users[uid].rub]
    BY <2>1 DEF DollarBalances, RoubleBalances
  <2>3. /\ DOMAIN [uid \in DOMAIN users |-> users[uid].usd] = DOMAIN users
        /\ DOMAIN [uid \in DOMAIN users |-> users[uid].rub] = DOMAIN users
    OBVIOUS
  <2>4. QED
    BY <2>1, <2>2, <2>3 DEF Conserved, MoneyConserved, SumFunction
<1>3. QED
  BY <1>1, <1>2, ConservedInvariant, ExchangeDrivesCore, PTL

-----------------------------------------------------------------------------
(* From what a user types to what an account has *)

PlacedOf(uid, side, volume, cost) ==
    {i \in DOMAIN orders : /\ orders[i].uid = uid /\ orders[i].type = side
                           /\ orders[i].volume = volume /\ orders[i].price = cost}

TakenOf(uid, side, volume, cost) ==
    {t \in Clients \X (1 .. MaxRequests) :
        /\ IsTaken(t[1], t[2]) /\ my_id[t[1]] = uid
        /\ said[t[1]][t[2]] = [op |-> side, uid |-> uid, vol |-> volume, cost |-> cost]}

\* For one uid and one sort of order: the engine has as many as were taken.
AllPlaced(uid, side, volume, cost) ==
    Cardinality(PlacedOf(uid, side, volume, cost)) = Cardinality(TakenOf(uid, side, volume, cost))

Delivered ==
    \A uid, volume, cost : \A side \in OrderOps : AllPlaced(uid, side, volume, cost)

\* The sets are finite.
LEMMA DeliveredTypes ==
    ASSUME IInv, NEW uid, NEW side, NEW volume, NEW cost
    PROVE  /\ IsFiniteSet(PlacedOf(uid, side, volume, cost))
           /\ IsFiniteSet(TakenOf(uid, side, volume, cost))
<1>1. IsFiniteSet(PlacedOf(uid, side, volume, cost))
  <2>1. DOMAIN orders = 1 .. Len(orders) /\ Len(orders) \in Nat
    BY LenProperties DEF IInv, TypeOK
  <2>2. IsFiniteSet(DOMAIN orders)
    BY <2>1, FS_Interval
  <2>3. PlacedOf(uid, side, volume, cost) \in SUBSET DOMAIN orders
    BY DEF PlacedOf
  <2>4. QED
    BY <2>2, <2>3, FS_Subset
<1>2. IsFiniteSet(TakenOf(uid, side, volume, cost))
  <2>1. IsFiniteSet(Clients) /\ IsFiniteSet(1 .. MaxRequests)
    BY ExchangeAssumption, SessionsAssumption, FS_Interval
  <2>2. IsFiniteSet(Clients \X (1 .. MaxRequests))
    BY <2>1, FS_Product
  <2>3. TakenOf(uid, side, volume, cost) \in SUBSET (Clients \X (1 .. MaxRequests))
    BY DEF TakenOf
  <2>4. QED
    BY <2>2, <2>3, FS_Subset
<1>3. QED
  BY <1>1, <1>2

\* The order that request n of client c asks for is of this sort.
Typed(c, n, uid, side, volume, cost) ==
    /\ IsTaken(c, n) /\ my_id[c] = uid
    /\ said[c][n] = [op |-> side, uid |-> uid, vol |-> volume, cost |-> cost]

\* A step that leaves the orders and the orders taken alone.
LEMMA NothingTaken ==
    ASSUME Delivered, UNCHANGED orders,
           \A c \in Clients, n \in 1 .. MaxRequests : \A uid, volume, cost : \A side \in OrderOps :
              Typed(c, n, uid, side, volume, cost)' <=> Typed(c, n, uid, side, volume, cost)
    PROVE  Delivered'
<1>1. ASSUME NEW uid, NEW volume, NEW cost, NEW side \in OrderOps
      PROVE  AllPlaced(uid, side, volume, cost)'
  <2>1. PlacedOf(uid, side, volume, cost)' = PlacedOf(uid, side, volume, cost)
    BY DEF PlacedOf
  <2>2. TakenOf(uid, side, volume, cost)' = TakenOf(uid, side, volume, cost)
    <3>1. ASSUME NEW t \in Clients \X (1 .. MaxRequests)
          PROVE  t \in TakenOf(uid, side, volume, cost)' <=> t \in TakenOf(uid, side, volume, cost)
      <4>1. t[1] \in Clients /\ t[2] \in 1 .. MaxRequests
        OBVIOUS
      <4>2. Typed(t[1], t[2], uid, side, volume, cost)' <=> Typed(t[1], t[2], uid, side, volume, cost)
        BY <4>1
      <4>3. QED
        BY <4>2 DEF TakenOf, Typed
    <3>2. QED
      BY <3>1 DEF TakenOf
  <2>3. AllPlaced(uid, side, volume, cost)
    BY DEF Delivered
  <2>4. QED
    BY <2>1, <2>2, <2>3 DEF AllPlaced
<1>2. QED
  BY <1>1 DEF Delivered

\* What a client wrote before is not rewritten, and nothing new is taken.
LEMMA AskDelivers ==
    ASSUME ExchangeIInv, Delivered, NEW c \in Clients, Ask(c)
    PROVE  Delivered'
<1> USE DEF ExchangeIInv, Notes
<1>1. UNCHANGED <<orders, my_id, serving, served, peer>>
  BY DEF Ask, SendMessage, vars, bookVars, serverVars
<1>2. PICK request \in Requests : said' = [said EXCEPT ![c] = Append(said[c], request)]
  BY AskWrites
<1>3. said[c] \in Seq(Requests) /\ Len(said[c]) \in Nat
  BY LenProperties DEF NoteTypes
<1>4. /\ said'[c] = Append(said[c], request)
      /\ \A d \in Clients \ {c} : said'[d] = said[d]
      /\ DOMAIN said[c] = 1 .. Len(said[c]) /\ DOMAIN said'[c] = 1 .. (Len(said[c]) + 1)
      /\ \A n \in 1 .. Len(said[c]) : said'[c][n] = said[c][n]
  BY <1>2, <1>3, AppendProperties, LenProperties DEF NoteTypes
<1>5. served[c] \in Nat /\ served[c] <= Len(said[c])
      /\ (serving # 0 /\ peer[serving] = c => served[c] + 1 \in 1 .. Len(said[c]))
  BY DEF SessionsIInv, InTransit, Transit, ClientTypes, Recorded, ServingOrder
<1>6. ASSUME NEW n \in 1 .. MaxRequests
      PROVE  /\ IsTaken(c, n)' <=> IsTaken(c, n)
             /\ IsTaken(c, n) => said'[c][n] = said[c][n]
  <2>1. ASSUME n <= served[c] \/ (serving # 0 /\ peer[serving] = c /\ n = served[c] + 1)
        PROVE  n \in 1 .. Len(said[c])
    BY <1>3, <1>5, <2>1
  <2>2. n \in 1 .. Len(said[c]) => n \in 1 .. (Len(said[c]) + 1)
    BY <1>3
  <2>3. QED
    BY <1>1, <1>4, <2>1, <2>2 DEF IsTaken
<1>7. ASSUME NEW d \in Clients, NEW n \in 1 .. MaxRequests,
             NEW uid, NEW volume, NEW cost, NEW side \in OrderOps
      PROVE  Typed(d, n, uid, side, volume, cost)' <=> Typed(d, n, uid, side, volume, cost)
  <2>1. CASE d = c
    BY <1>1, <1>6, <2>1 DEF Typed
  <2>2. CASE d # c
    BY <1>1, <1>4, <2>2 DEF Typed, IsTaken
  <2>3. QED
    BY <2>1, <2>2
<1>8. QED
  BY <1>1, <1>7, NothingTaken

\* A client that waits for a uid has typed no order: the account it is given changes
\* nothing of it.
LEMMA TakeReplyDelivers ==
    ASSUME ExchangeIInv, Delivered, NEW c \in Clients, TakeReply(c)
    PROVE  Delivered'
<1> USE DEF ExchangeIInv, Notes
<1>1. UNCHANGED <<orders, said, serving, served, peer>> /\ at[c] = "waiting"
  BY DEF TakeReply, ReadMessage, vars, bookVars, serverVars
<1>2. \/ UNCHANGED my_id
      \/ /\ wants[c] = "account"
         /\ \A d \in Clients \ {c} : my_id'[d] = my_id[d]
  BY DEF TakeReply, NoteTypes
<1>3. ASSUME wants[c] = "account", NEW n \in DOMAIN said[c] PROVE said[c][n].op \in AccountOps
  <2>1. n \in 1 .. Len(said[c])
    BY <1>3, LenProperties DEF NoteTypes
  <2>2. QED
    BY <1>1, <1>3, <2>1 DEF AskedIs
<1>4. ASSUME NEW d \in Clients, NEW n \in 1 .. MaxRequests,
             NEW uid, NEW volume, NEW cost, NEW side \in OrderOps
      PROVE  Typed(d, n, uid, side, volume, cost)' <=> Typed(d, n, uid, side, volume, cost)
  <2>1. CASE my_id'[d] = my_id[d]
    BY <1>1, <2>1 DEF Typed, IsTaken
  <2>2. CASE d = c /\ wants[c] = "account"
    <3>1. ASSUME n \in DOMAIN said[c],
                 said[c][n] = [op |-> side, uid |-> uid, vol |-> volume, cost |-> cost]
          PROVE  FALSE
      <4>1. said[c][n].op = side
        BY <3>1
      <4>2. QED
        BY <1>3, <2>2, <3>1, <4>1 DEF AccountOps, OrderOps
    <3>2. QED
      BY <1>1, <2>2, <3>1 DEF Typed, IsTaken
  <2>3. QED
    BY <1>2, <2>1, <2>2
<1>5. QED
  BY <1>1, <1>4, NothingTaken

\* The engine takes the order, once, for the account whose uid it carries.
LEMMA StartOrderDelivers ==
    ASSUME ExchangeIInv, Delivered, NEW s \in Nat \ {0}, StartOrder(s)
    PROVE  Delivered'
<1> USE DEF ExchangeIInv, Notes
<1>1. PICK c, n, request : c = peer[s] /\ n = served[c] + 1 /\ request = Request(s)
  OBVIOUS
<1>2. /\ HasRequest(s) /\ serving = 0 /\ serving' = s
      /\ UNCHANGED <<said, served, my_id, peer>>
  BY DEF StartOrder, HasRequest, sessionVars, serverVars, clientNotes
<1>3. /\ c \in Clients /\ served[c] \in Nat /\ n \in 1 .. Len(said[c])
      /\ request = said[c][n] /\ request \in Requests
  BY <1>1, <1>2, RequestIsNext
<1>4. PICK type \in OrderOps : /\ request.op = type
                               /\ Submit(type, request.uid, request.vol, request.cost)
  BY <1>1 DEF StartOrder, TryBuy, TrySell, OrderOps
<1>5. request \in [op : OrderOps, uid : Nat, vol : Volumes, cost : Prices]
  BY <1>3, <1>4 DEF Requests, AccountRequests, OrderOps
<1>6. request.uid = my_id[c]
  BY <1>3, <1>4 DEF AskedIs, AccountOps, OrderOps
<1>7. PICK order : /\ orders' = Append(orders, order)
                   /\ order.uid = request.uid /\ order.type = request.op
                   /\ order.volume = request.vol /\ order.price = request.cost
  BY <1>4 DEF Submit, NewDeal
<1>8. PICK k : k = Len(orders) + 1
  OBVIOUS
<1>9. /\ k \notin DOMAIN orders /\ DOMAIN orders' = DOMAIN orders \cup {k}
      /\ orders'[k] = order /\ \A i \in DOMAIN orders : orders'[i] = orders[i]
  BY <1>7, <1>8, AppendProperties DEF IInv, TypeOK
<1>10. n \in 1 .. MaxRequests /\ n \in DOMAIN said[c]
  <2>1. Len(said[c]) = asked[c] /\ asked[c] \in 0 .. MaxRequests /\ said[c] \in Seq(Requests)
    BY <1>3 DEF SessionsIInv, ClientTypes, Recorded, NoteTypes
  <2>2. DOMAIN said[c] = 1 .. Len(said[c])
    BY <2>1, LenProperties
  <2>3. QED
    BY <1>3, <2>1, <2>2, SessionsAssumption
<1>11. ASSUME NEW d \in Clients, NEW m \in 1 .. MaxRequests
       PROVE  IsTaken(d, m)' <=> IsTaken(d, m) \/ (d = c /\ m = n)
  BY <1>1, <1>2, <1>10 DEF IsTaken
<1>12. ~IsTaken(c, n)
  BY <1>1, <1>2, <1>3 DEF IsTaken
<1>13. ASSUME NEW uid, NEW volume, NEW cost, NEW side \in OrderOps
       PROVE  AllPlaced(uid, side, volume, cost)'
  <2>1. PICK P, P2, T, T2 : /\ P = PlacedOf(uid, side, volume, cost)
                            /\ P2 = PlacedOf(uid, side, volume, cost)'
                            /\ T = TakenOf(uid, side, volume, cost)
                            /\ T2 = TakenOf(uid, side, volume, cost)'
    OBVIOUS
  <2>2. IsFiniteSet(P) /\ IsFiniteSet(T) /\ Cardinality(P) = Cardinality(T)
    BY <2>1, DeliveredTypes DEF Delivered, AllPlaced
  <2>3. request = [op |-> side, uid |-> uid, vol |-> volume, cost |-> cost]
        <=> request.uid = uid /\ request.op = side /\ request.vol = volume /\ request.cost = cost
    BY <1>5
  <2>4. CASE request = [op |-> side, uid |-> uid, vol |-> volume, cost |-> cost]
    <3>1. P2 = P \cup {k} /\ k \notin P
      BY <1>7, <1>9, <2>1, <2>3, <2>4 DEF PlacedOf
    <3>2. PICK e : e = <<c, n>>
      OBVIOUS
    <3>3. /\ e \in Clients \X (1 .. MaxRequests) /\ e[1] = c /\ e[2] = n
          /\ \A t \in Clients \X (1 .. MaxRequests) : t[1] = c /\ t[2] = n => t = e
      BY <1>3, <1>10, <3>2
    <3>4. e \notin T
      BY <1>12, <2>1, <3>3 DEF TakenOf
    <3>5. my_id[c] = uid /\ said[c][n] = [op |-> side, uid |-> uid, vol |-> volume, cost |-> cost]
      BY <1>3, <1>6, <2>3, <2>4
    <3>6. ASSUME NEW t \in Clients \X (1 .. MaxRequests) PROVE t \in T2 <=> t \in T \/ t = e
      <4>1. t[1] \in Clients /\ t[2] \in 1 .. MaxRequests
        OBVIOUS
      <4>2. IsTaken(t[1], t[2])' <=> IsTaken(t[1], t[2]) \/ (t[1] = c /\ t[2] = n)
        BY <1>11, <4>1
      <4>3. t[1] = c /\ t[2] = n <=> t = e
        BY <3>3
      <4>4. t = e => /\ my_id[t[1]] = uid
                     /\ said[t[1]][t[2]] = [op |-> side, uid |-> uid, vol |-> volume, cost |-> cost]
        BY <3>3, <3>5
      <4>5. QED
        BY <1>2, <2>1, <4>2, <4>3, <4>4 DEF TakenOf
    <3>7. T2 = T \cup {e}
      <4>1. T \subseteq Clients \X (1 .. MaxRequests) /\ T2 \subseteq Clients \X (1 .. MaxRequests)
        BY <2>1 DEF TakenOf
      <4>2. QED
        BY <3>3, <3>6, <4>1
    <3>8. Cardinality(P2) = Cardinality(P) + 1
      BY <2>2, <3>1, FS_AddElement
    <3>9. Cardinality(T2) = Cardinality(T) + 1
      BY <2>2, <3>4, <3>7, FS_AddElement
    <3>10. QED
      BY <2>1, <2>2, <3>8, <3>9 DEF AllPlaced
  <2>5. CASE request # [op |-> side, uid |-> uid, vol |-> volume, cost |-> cost]
    <3>1. P2 = P
      BY <1>7, <1>9, <2>1, <2>3, <2>5 DEF PlacedOf
    <3>2. ASSUME NEW t \in Clients \X (1 .. MaxRequests) PROVE t \in T2 <=> t \in T
      <4>1. t[1] \in Clients /\ t[2] \in 1 .. MaxRequests
        OBVIOUS
      <4>2. IsTaken(t[1], t[2])' <=> IsTaken(t[1], t[2]) \/ (t[1] = c /\ t[2] = n)
        BY <1>11, <4>1
      <4>3. t[1] = c /\ t[2] = n => said[t[1]][t[2]] # [op |-> side, uid |-> uid, vol |-> volume, cost |-> cost]
        BY <1>3, <2>5
      <4>4. QED
        BY <1>2, <2>1, <4>2, <4>3 DEF TakenOf
    <3>3. T2 = T
      BY <2>1, <3>2 DEF TakenOf
    <3>4. QED
      BY <2>1, <2>2, <3>1, <3>3 DEF AllPlaced
  <2>6. QED
    BY <2>4, <2>5
<1>14. QED
  BY <1>13 DEF Delivered

\* When the handler ends, the request that was run is either no order or the one the
\* engine had taken.
LEMMA ReplyDelivers ==
    ASSUME ExchangeIInv, Delivered, NEW s, NEW result, ReplyWith(s, result), UNCHANGED orders,
           \/ /\ serving = 0 /\ serving' = 0
              /\ said[peer[s]][served[peer[s]] + 1].op \notin OrderOps
           \/ serving = s /\ s # 0 /\ serving' = 0
    PROVE  Delivered'
<1> USE DEF ExchangeIInv, Notes
<1>1. PICK c, n : c = peer[s] /\ n = served[c] + 1
  OBVIOUS
<1>2. c \in Clients /\ served' = [served EXCEPT ![c] = served[c] + 1]
  BY <1>1, HandleReadAnswers DEF ReplyWith
<1>3. UNCHANGED <<my_id, said, peer>>
  BY DEF ReplyWith, HandleRead
<1>4. /\ served'[c] = n /\ served[c] \in Nat /\ n \in Nat
      /\ \A d \in Clients \ {c} : served'[d] = served[d]
  BY <1>1, <1>2 DEF SessionsIInv, ClientTypes
<1>5. ASSUME NEW d \in Clients, NEW m \in 1 .. MaxRequests,
             NEW uid, NEW volume, NEW cost, NEW side \in OrderOps
      PROVE  Typed(d, m, uid, side, volume, cost)' <=> Typed(d, m, uid, side, volume, cost)
  <2>1. CASE d # c
    BY <1>1, <1>3, <1>4, <2>1 DEF Typed, IsTaken
  <2>2. CASE d = c
    <3>1. m <= n <=> m <= served[c] \/ m = n
      BY <1>1, <1>4
    <3>2. CASE serving = s /\ s # 0 /\ serving' = 0
      BY <1>1, <1>3, <1>4, <2>2, <3>1, <3>2 DEF Typed, IsTaken
    <3>3. CASE serving = 0 /\ serving' = 0 /\ said[c][n].op \notin OrderOps
      <4>1. said[c][n] # [op |-> side, uid |-> uid, vol |-> volume, cost |-> cost]
        BY <3>3
      <4>2. QED
        BY <1>3, <1>4, <2>2, <3>1, <3>3, <4>1 DEF Typed, IsTaken
    <3>4. QED
      BY <1>1, <3>2, <3>3
  <2>3. QED
    BY <2>1, <2>2
<1>6. QED
  BY <1>5, NothingTaken

\* Every other step leaves requests and orders where they are.
LEMMA OtherStepDelivers ==
    ASSUME Delivered, UNCHANGED <<orders, my_id, said, served, serving>>,
           serving = 0 \/ UNCHANGED peer
    PROVE  Delivered'
<1>1. ASSUME NEW d \in Clients, NEW m \in 1 .. MaxRequests,
             NEW uid, NEW volume, NEW cost, NEW side \in OrderOps
      PROVE  Typed(d, m, uid, side, volume, cost)' <=> Typed(d, m, uid, side, volume, cost)
  BY DEF Typed, IsTaken
<1>2. QED
  BY <1>1, NothingTaken

LEMMA DeliveredInit == ExchangeInit => Delivered
<1> SUFFICES ASSUME ExchangeInit PROVE Delivered
  OBVIOUS
<1>1. orders = <<>> /\ \A c \in Clients : said[c] = <<>>
  BY DEF ExchangeInit, Init
<1>2. ASSUME NEW uid, NEW volume, NEW cost, NEW side \in OrderOps
      PROVE  AllPlaced(uid, side, volume, cost)
  <2>1. PlacedOf(uid, side, volume, cost) = {}
    BY <1>1 DEF PlacedOf
  <2>2. TakenOf(uid, side, volume, cost) = {}
    BY <1>1 DEF TakenOf, IsTaken
  <2>3. QED
    BY <2>1, <2>2 DEF AllPlaced
<1>3. QED
  BY <1>2 DEF Delivered

LEMMA DeliveredStep ==
    ExchangeIInv /\ Delivered /\ [ExchangeNext]_exchangeVars => Delivered'
<1> SUFFICES ASSUME ExchangeIInv, Delivered, [ExchangeNext]_exchangeVars PROVE Delivered'
  OBVIOUS
<1>1. ASSUME UNCHANGED exchangeVars PROVE Delivered'
  <2>1. UNCHANGED <<orders, my_id, said, served, serving, peer>>
    BY <1>1 DEF exchangeVars, vars, bookVars, sessionVars, serverVars, clientNotes
  <2>2. QED
    BY <2>1, OtherStepDelivers
<1>2. ASSUME NEW c \in Clients, Ask(c) \/ TakeReply(c) PROVE Delivered'
  BY <1>2, AskDelivers, TakeReplyDelivers
<1>3. ASSUME NEW c \in Clients, MissServer(c) \/ ComeAndGo(c) PROVE Delivered'
  <2>1. UNCHANGED <<orders, my_id, said, served, serving, peer>>
    BY <1>3 DEF MissServer, ComeAndGo, Connect, Leave, LoseServer, vars, bookVars, serverVars,
       clientNotes
  <2>2. QED
    BY <2>1, OtherStepDelivers
<1>4. ASSUME NEW s \in 1 .. created, ServerStep(s) PROVE Delivered'
  <2>1. s \in Nat \ {0}
    BY DEF ExchangeIInv, SessionsIInv, ServerTypes
  <2>2. ASSUME ServeAccount(s) PROVE Delivered'
    <3>1. PICK result : ReplyWith(s, result)
      BY <2>2 DEF ServeAccount
    <3>2. UNCHANGED orders /\ Request(s).op \notin OrderOps
      BY <2>2 DEF ServeAccount, RegisterNewUser, TryLogin, bookVars, OrderOps
    <3>3. serving = 0 /\ serving' = 0 /\ HasRequest(s)
      BY <2>2 DEF ServeAccount, HasRequest
    <3>4. Request(s) = said[peer[s]][served[peer[s]] + 1]
      BY <3>3, RequestIsNext DEF ExchangeIInv, Notes
    <3>5. QED
      BY <3>1, <3>2, <3>3, <3>4, ReplyDelivers
  <2>3. ASSUME ServeQuery(s) PROVE Delivered'
    <3>1. PICK result : ReplyWith(s, result)
      BY <2>3 DEF ServeQuery
    <3>2. UNCHANGED orders /\ Request(s).op \notin OrderOps
      BY <2>3 DEF ServeQuery, vars, bookVars, OrderOps
    <3>3. serving = 0 /\ serving' = 0 /\ HasRequest(s)
      BY <2>3 DEF ServeQuery, HasRequest
    <3>4. Request(s) = said[peer[s]][served[peer[s]] + 1]
      BY <3>3, RequestIsNext DEF ExchangeIInv, Notes
    <3>5. QED
      BY <3>1, <3>2, <3>3, <3>4, ReplyDelivers
  <2>4. ASSUME EndOrder(s) PROVE Delivered'
    <3>1. PICK result : ReplyWith(s, result)
      BY <2>4 DEF EndOrder
    <3>2. UNCHANGED orders
      BY <2>4 DEF EndOrder, FinishBuy, RejectBuy, FinishSell, RejectSell
    <3>3. serving = s /\ serving' = 0
      BY <2>4 DEF EndOrder
    <3>4. QED
      BY <2>1, <3>1, <3>2, <3>3, ReplyDelivers
  <2>5. ASSUME MatchOrder(s) PROVE Delivered'
    <3>1. UNCHANGED <<orders, my_id, said, served, serving, peer>>
      BY <2>5 DEF MatchOrder, MatchBuy, MatchSell, sessionVars, serverVars, clientNotes
    <3>2. QED
      BY <3>1, OtherStepDelivers
  <2>6. ASSUME OtherHandler(s) PROVE Delivered'
    <3>1. UNCHANGED <<orders, my_id, said, served, serving>> /\ serving = 0
      BY <2>6 DEF OtherHandler, HandleAccept, HandleAcceptError, HandleReadThrows, HandleReadError,
         HandleWrite, HandleWriteError, DeleteSession, vars, bookVars, clientNotes
    <3>2. QED
      BY <3>1, OtherStepDelivers
  <2>7. QED
    BY <1>4, <2>1, <2>2, <2>3, <2>4, <2>5, <2>6, StartOrderDelivers DEF ServerStep
<1>5. QED
  BY <1>1, <1>2, <1>3, <1>4 DEF ExchangeNext

LEMMA DeliveredInvariant == ExchangeSpec => []Delivered
<1>1. ExchangeIInv /\ Delivered /\ [ExchangeNext]_exchangeVars => Delivered'
  BY DeliveredStep
<1>2. QED
  BY <1>1, DeliveredInit, ExchangeInvariant, PTL DEF ExchangeSpec

\* The engine has every order just as often as clients that hold the account of its
\* uid have typed it, in the requests taken: none is lost, run twice or altered
\* (Client.cpp:109-134, Server.cpp:71-76).
THEOREM AccountsHaveWhatIsTyped == ExchangeSpec => []OrdersAreTyped
<1>1. ASSUME Delivered, NEW uid \in DOMAIN users, NEW side \in {"buy", "sell"},
             NEW volume \in Volumes, NEW cost \in Prices
      PROVE  AllPlaced(uid, side, volume, cost)
  BY <1>1 DEF Delivered, OrderOps
<1>2. Delivered => OrdersAreTyped
  BY <1>1 DEF OrdersAreTyped, AllPlaced, PlacedOf, TakenOf
<1>3. QED
  BY <1>2, DeliveredInvariant, PTL

=============================================================================

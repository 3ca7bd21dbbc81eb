---------------------------- MODULE DuUe_proofs ----------------------------
(***************************************************************************)
(* Proofs about the life of a UE in gNB-DU, for any number of UEs, of ids  *)
(* and of bearers: the DU application, the configuration of RLC and the    *)
(* UEs of MAC and SCH agree about every UE, and leave nothing behind.      *)
(*                                                                         *)
(* They are about the uses that the code is made for: RLC is asked for one *)
(* kind of thing at a time (the run DuUeOverlap shows what happens         *)
(* otherwise), UEs come one after the other, the CU does not stop          *)
(* transmission (AnsweredWhenDone fails if it does), and it releases no UE *)
(* that has come by handover.                                              *)
(***************************************************************************)
EXTENDS DuUe, DataLemmas, FiniteSetTheorems

OneByOne ==
    /\ Overlap = FALSE /\ Together = FALSE
    /\ "STOP" \notin ModOps
    /\ Released \subseteq Access

-----------------------------------------------------------------------------
(* Facts about the messages that are under way between threads.  Proofs look *)
(* at them as tokens: where a message is, its event, and whether it reports a *)
(* success.                                                                  *)

\* The first message of a queue, the others, and a queue with one more; a set with
\* and without an element; and the fields of a message.  They are named so that a
\* proof can use them without their definitions.
First(q) == Head(q)
Rest(q) == Tail(q)
Put(q, m) == Append(q, m)
With(A, x) == A \union {x}
Without(A, x) == A \ {x}
Ue(m) == m.ue
Ev(m) == m.ev
Ok(m) == m.ok
UdxUe(u) == u.req.ue
UdxEv(u) == u.req.ev
UdxOk(u) == u.ueOk

Tok(at, ev, ok) == [at |-> at, ev |-> ev, ok |-> ok]
ReqTok(at, ev) == [at |-> at, ev |-> ev, ok |-> TRUE]

\* The tokens about UE i in a queue of requests, of responses, and of the
\* requests and confirms that the two halves of RLC exchange.
ReqToks(at, q, i) == {ReqTok(at, m.ev) : m \in {x \in ToSet(q) : x.ue = i}}
RspToks(at, q, i) == {Tok(at, m.ev, m.ok) : m \in {x \in ToSet(q) : x.ue = i}}
UdxToks(at, q, i) == {Tok(at, m.req.ev, m.ueOk) : m \in {x \in ToSet(q) : x.req.ue = i}}

\* No queue has two messages of the same event about the same UE.
Distinct(q) ==
    IsInjective(q) /\ \A m, n \in ToSet(q) : m.ue = n.ue /\ m.ev = n.ev => m = n
UdxDistinct(q) ==
    IsInjective(q) /\ \A m, n \in ToSet(q) : m.req.ue = n.req.ue /\ m.req.ev = n.req.ev => m = n

\* Taking the first message of a queue, and adding a message to it.
LEMMA TakeReq ==
    ASSUME NEW S, NEW q \in Seq(S), NEW at, q # <<>>, Distinct(q)
    PROVE  /\ Head(q) \in S /\ Tail(q) \in Seq(S)
           /\ Distinct(Tail(q))
           /\ ReqToks(at, Tail(q), Head(q).ue) =
                    ReqToks(at, q, Head(q).ue) \ {ReqTok(at, Head(q).ev)}
           /\ ReqTok(at, Head(q).ev) \in ReqToks(at, q, Head(q).ue)
<1> DEFINE h == Head(q)
           A == ToSet(q)
           B == ToSet(Tail(q))
           t == ReqTok(at, h.ev)
<1>1. /\ h \in S /\ h \in A /\ Tail(q) \in Seq(S) /\ A = B \union {h}
      /\ IsInjective(Tail(q)) /\ h \notin B
  BY TailToSet DEF Distinct
<1>2. \A m \in B : m.ue = h.ue => m.ev # h.ev
  BY <1>1 DEF Distinct
<1>3. Distinct(Tail(q))
  BY <1>1 DEF Distinct
<1> HIDE DEF A, B, h
<1>4. \A m \in B : m.ue = h.ue => ReqTok(at, m.ev) # t
  BY <1>2 DEF ReqTok
<1> HIDE DEF t
<1>5. {x \in A : x.ue = h.ue} = {x \in B : x.ue = h.ue} \union {h}
  BY <1>1
<1>6. ReqToks(at, q, h.ue) = ReqToks(at, Tail(q), h.ue) \union {t}
  BY <1>5 DEF ReqToks, A, B, t
<1>7. t \notin ReqToks(at, Tail(q), h.ue)
  BY <1>4 DEF ReqToks, B
<1>8. QED
  BY <1>1, <1>3, <1>6, <1>7 DEF h, t

LEMMA TakeReqOthers ==
    ASSUME NEW S, NEW q \in Seq(S), NEW at, q # <<>>
    PROVE  \A i : Head(q).ue # i => ReqToks(at, Tail(q), i) = ReqToks(at, q, i)
<1> DEFINE h == Head(q)
           A == ToSet(q)
           B == ToSet(Tail(q))
<1>1. A = B \union {h}
  BY TailToSet
<1> HIDE DEF A, B, h
<1>2. \A i : h.ue # i => {x \in A : x.ue = i} = {x \in B : x.ue = i}
  BY <1>1
<1>3. \A i : h.ue # i => ReqToks(at, Tail(q), i) = ReqToks(at, q, i)
  BY <1>2 DEF ReqToks, A, B
<1>4. QED
  BY <1>3 DEF h

LEMMA PutReq ==
    ASSUME NEW S, NEW q \in Seq(S), NEW m \in S, NEW at
    PROVE  ReqToks(at, Append(q, m), m.ue) = ReqToks(at, q, m.ue) \union {ReqTok(at, m.ev)}
<1> DEFINE A == ToSet(q)
           B == ToSet(Append(q, m))
<1>1. B = A \union {m}
  BY AppendToSet
<1> HIDE DEF A, B
<1>2. {x \in B : x.ue = m.ue} = {x \in A : x.ue = m.ue} \union {m}
  BY <1>1
<1>3. QED
  BY <1>2 DEF ReqToks, A, B

LEMMA PutReqDistinct ==
    ASSUME NEW S, NEW q \in Seq(S), NEW m \in S, NEW at,
           Distinct(q), \A x \in ReqToks(at, q, m.ue) : x.ev # m.ev
    PROVE  Distinct(Append(q, m))
<1> DEFINE A == ToSet(q)
           B == ToSet(Append(q, m))
<1>1. /\ B = A \union {m}
      /\ IsInjective(q) /\ m \notin A => IsInjective(Append(q, m))
  BY AppendToSet
<1>2. ASSUME NEW x \in A, x.ue = m.ue
      PROVE  x.ev # m.ev
  <2>1. ReqTok(at, x.ev) \in ReqToks(at, q, m.ue)
    BY <1>2 DEF ReqToks
  <2>2. QED
    BY <2>1 DEF ReqTok
<1>3. m \notin A
  BY <1>2
<1>4. QED
  BY <1>1, <1>2, <1>3 DEF Distinct

LEMMA PutReqOthers ==
    ASSUME NEW S, NEW q \in Seq(S), NEW m \in S, NEW at
    PROVE  \A i : m.ue # i => ReqToks(at, Append(q, m), i) = ReqToks(at, q, i)
<1> DEFINE A == ToSet(q)
           B == ToSet(Append(q, m))
<1>1. B = A \union {m}
  BY AppendToSet
<1> HIDE DEF A, B
<1>2. \A i : m.ue # i => {x \in A : x.ue = i} = {x \in B : x.ue = i}
  BY <1>1
<1>3. QED
  BY <1>2 DEF ReqToks, A, B

LEMMA TakeRsp ==
    ASSUME NEW S, NEW q \in Seq(S), NEW at, q # <<>>, Distinct(q)
    PROVE  /\ Head(q) \in S /\ Tail(q) \in Seq(S)
           /\ Distinct(Tail(q))
           /\ RspToks(at, Tail(q), Head(q).ue) =
                    RspToks(at, q, Head(q).ue) \ {Tok(at, Head(q).ev, Head(q).ok)}
           /\ Tok(at, Head(q).ev, Head(q).ok) \in RspToks(at, q, Head(q).ue)
<1> DEFINE h == Head(q)
           A == ToSet(q)
           B == ToSet(Tail(q))
           t == Tok(at, h.ev, h.ok)
<1>1. /\ h \in S /\ h \in A /\ Tail(q) \in Seq(S) /\ A = B \union {h}
      /\ IsInjective(Tail(q)) /\ h \notin B
  BY TailToSet DEF Distinct
<1>2. \A m \in B : m.ue = h.ue => m.ev # h.ev
  BY <1>1 DEF Distinct
<1>3. Distinct(Tail(q))
  BY <1>1 DEF Distinct
<1> HIDE DEF A, B, h
<1>4. \A m \in B : m.ue = h.ue => Tok(at, m.ev, m.ok) # t
  BY <1>2 DEF Tok
<1> HIDE DEF t
<1>5. {x \in A : x.ue = h.ue} = {x \in B : x.ue = h.ue} \union {h}
  BY <1>1
<1>6. RspToks(at, q, h.ue) = RspToks(at, Tail(q), h.ue) \union {t}
  BY <1>5 DEF RspToks, A, B, t
<1>7. t \notin RspToks(at, Tail(q), h.ue)
  BY <1>4 DEF RspToks, B
<1>8. QED
  BY <1>1, <1>3, <1>6, <1>7 DEF h, t

LEMMA TakeRspOthers ==
    ASSUME NEW S, NEW q \in Seq(S), NEW at, q # <<>>
    PROVE  \A i : Head(q).ue # i => RspToks(at, Tail(q), i) = RspToks(at, q, i)
<1> DEFINE h == Head(q)
           A == ToSet(q)
           B == ToSet(Tail(q))
<1>1. A = B \union {h}
  BY TailToSet
<1> HIDE DEF A, B, h
<1>2. \A i : h.ue # i => {x \in A : x.ue = i} = {x \in B : x.ue = i}
  BY <1>1
<1>3. \A i : h.ue # i => RspToks(at, Tail(q), i) = RspToks(at, q, i)
  BY <1>2 DEF RspToks, A, B
<1>4. QED
  BY <1>3 DEF h

LEMMA PutRsp ==
    ASSUME NEW S, NEW q \in Seq(S), NEW m \in S, NEW at
    PROVE  RspToks(at, Append(q, m), m.ue) = RspToks(at, q, m.ue) \union {Tok(at, m.ev, m.ok)}
<1> DEFINE A == ToSet(q)
           B == ToSet(Append(q, m))
<1>1. B = A \union {m}
  BY AppendToSet
<1> HIDE DEF A, B
<1>2. {x \in B : x.ue = m.ue} = {x \in A : x.ue = m.ue} \union {m}
  BY <1>1
<1>3. QED
  BY <1>2 DEF RspToks, A, B

LEMMA PutRspDistinct ==
    ASSUME NEW S, NEW q \in Seq(S), NEW m \in S, NEW at,
           Distinct(q), \A x \in RspToks(at, q, m.ue) : x.ev # m.ev
    PROVE  Distinct(Append(q, m))
<1> DEFINE A == ToSet(q)
           B == ToSet(Append(q, m))
<1>1. /\ B = A \union {m}
      /\ IsInjective(q) /\ m \notin A => IsInjective(Append(q, m))
  BY AppendToSet
<1>2. ASSUME NEW x \in A, x.ue = m.ue
      PROVE  x.ev # m.ev
  <2>1. Tok(at, x.ev, x.ok) \in RspToks(at, q, m.ue)
    BY <1>2 DEF RspToks
  <2>2. QED
    BY <2>1 DEF Tok
<1>3. m \notin A
  BY <1>2
<1>4. QED
  BY <1>1, <1>2, <1>3 DEF Distinct

LEMMA PutRspOthers ==
    ASSUME NEW S, NEW q \in Seq(S), NEW m \in S, NEW at
    PROVE  \A i : m.ue # i => RspToks(at, Append(q, m), i) = RspToks(at, q, i)
<1> DEFINE A == ToSet(q)
           B == ToSet(Append(q, m))
<1>1. B = A \union {m}
  BY AppendToSet
<1> HIDE DEF A, B
<1>2. \A i : m.ue # i => {x \in A : x.ue = i} = {x \in B : x.ue = i}
  BY <1>1
<1>3. QED
  BY <1>2 DEF RspToks, A, B

LEMMA TakeUdx ==
    ASSUME NEW S, NEW q \in Seq(S), NEW at, q # <<>>, UdxDistinct(q)
    PROVE  /\ Head(q) \in S /\ Tail(q) \in Seq(S)
           /\ UdxDistinct(Tail(q))
           /\ UdxToks(at, Tail(q), Head(q).req.ue) =
                    UdxToks(at, q, Head(q).req.ue) \ {Tok(at, Head(q).req.ev, Head(q).ueOk)}
           /\ Tok(at, Head(q).req.ev, Head(q).ueOk) \in UdxToks(at, q, Head(q).req.ue)
<1> DEFINE h == Head(q)
           A == ToSet(q)
           B == ToSet(Tail(q))
           t == Tok(at, h.req.ev, h.ueOk)
<1>1. /\ h \in S /\ h \in A /\ Tail(q) \in Seq(S) /\ A = B \union {h}
      /\ IsInjective(Tail(q)) /\ h \notin B
  BY TailToSet DEF UdxDistinct
<1>2. \A m \in B : m.req.ue = h.req.ue => m.req.ev # h.req.ev
  BY <1>1 DEF UdxDistinct
<1>3. UdxDistinct(Tail(q))
  BY <1>1 DEF UdxDistinct
<1> HIDE DEF A, B, h
<1>4. \A m \in B : m.req.ue = h.req.ue => Tok(at, m.req.ev, m.ueOk) # t
  BY <1>2 DEF Tok
<1> HIDE DEF t
<1>5. {x \in A : x.req.ue = h.req.ue} = {x \in B : x.req.ue = h.req.ue} \union {h}
  BY <1>1
<1>6. UdxToks(at, q, h.req.ue) = UdxToks(at, Tail(q), h.req.ue) \union {t}
  BY <1>5 DEF UdxToks, A, B, t
<1>7. t \notin UdxToks(at, Tail(q), h.req.ue)
  BY <1>4 DEF UdxToks, B
<1>8. QED
  BY <1>1, <1>3, <1>6, <1>7 DEF h, t

LEMMA TakeUdxOthers ==
    ASSUME NEW S, NEW q \in Seq(S), NEW at, q # <<>>
    PROVE  \A i : Head(q).req.ue # i => UdxToks(at, Tail(q), i) = UdxToks(at, q, i)
<1> DEFINE h == Head(q)
           A == ToSet(q)
           B == ToSet(Tail(q))
<1>1. A = B \union {h}
  BY TailToSet
<1> HIDE DEF A, B, h
<1>2. \A i : h.req.ue # i => {x \in A : x.req.ue = i} = {x \in B : x.req.ue = i}
  BY <1>1
<1>3. \A i : h.req.ue # i => UdxToks(at, Tail(q), i) = UdxToks(at, q, i)
  BY <1>2 DEF UdxToks, A, B
<1>4. QED
  BY <1>3 DEF h

LEMMA PutUdx ==
    ASSUME NEW S, NEW q \in Seq(S), NEW m \in S, NEW at
    PROVE  UdxToks(at, Append(q, m), m.req.ue) = UdxToks(at, q, m.req.ue) \union {Tok(at, m.req.ev, m.ueOk)}
<1> DEFINE A == ToSet(q)
           B == ToSet(Append(q, m))
<1>1. B = A \union {m}
  BY AppendToSet
<1> HIDE DEF A, B
<1>2. {x \in B : x.req.ue = m.req.ue} = {x \in A : x.req.ue = m.req.ue} \union {m}
  BY <1>1
<1>3. QED
  BY <1>2 DEF UdxToks, A, B

LEMMA PutUdxDistinct ==
    ASSUME NEW S, NEW q \in Seq(S), NEW m \in S, NEW at,
           UdxDistinct(q), \A x \in UdxToks(at, q, m.req.ue) : x.ev # m.req.ev
    PROVE  UdxDistinct(Append(q, m))
<1> DEFINE A == ToSet(q)
           B == ToSet(Append(q, m))
<1>1. /\ B = A \union {m}
      /\ IsInjective(q) /\ m \notin A => IsInjective(Append(q, m))
  BY AppendToSet
<1>2. ASSUME NEW x \in A, x.req.ue = m.req.ue
      PROVE  x.req.ev # m.req.ev
  <2>1. Tok(at, x.req.ev, x.ueOk) \in UdxToks(at, q, m.req.ue)
    BY <1>2 DEF UdxToks
  <2>2. QED
    BY <2>1 DEF Tok
<1>3. m \notin A
  BY <1>2
<1>4. QED
  BY <1>1, <1>2, <1>3 DEF UdxDistinct

LEMMA PutUdxOthers ==
    ASSUME NEW S, NEW q \in Seq(S), NEW m \in S, NEW at
    PROVE  \A i : m.req.ue # i => UdxToks(at, Append(q, m), i) = UdxToks(at, q, i)
<1> DEFINE A == ToSet(q)
           B == ToSet(Append(q, m))
<1>1. B = A \union {m}
  BY AppendToSet
<1> HIDE DEF A, B
<1>2. \A i : m.req.ue # i => {x \in A : x.req.ue = i} = {x \in B : x.req.ue = i}
  BY <1>1
<1>3. QED
  BY <1>2 DEF UdxToks, A, B

-----------------------------------------------------------------------------
(* Order.  Of the messages about a UE, MAC's response to its creation comes  *)
(* first and its RRC message last.                                           *)

CreateFirst(q) ==
    \A j, k \in DOMAIN q : j < k /\ q[j].ue = q[k].ue => q[k].ev # "CREATE"
UlRrcLast(q) ==
    \A j, k \in DOMAIN q : j < k /\ q[j].ue = q[k].ue => q[j].ev # "UL_RRC"

LEMMA TakeInOrder ==
    ASSUME NEW S, NEW q \in Seq(S), q # <<>>
    PROVE  /\ CreateFirst(q) => /\ CreateFirst(Tail(q))
                                /\ \A m \in ToSet(Tail(q)) : m.ue = Head(q).ue => m.ev # "CREATE"
           /\ UlRrcLast(q) => /\ UlRrcLast(Tail(q))
                              /\ Head(q).ev = "UL_RRC" =>
                                    \A m \in ToSet(Tail(q)) : m.ue # Head(q).ue
<1> DEFINE p == Tail(q)
<1>1. /\ p \in Seq(S) /\ Len(p) = Len(q) - 1 /\ Len(q) \in Nat /\ Len(q) > 0
      /\ \A k \in 1 .. Len(p) : p[k] = q[k + 1]
      /\ DOMAIN q = 1 .. Len(q) /\ DOMAIN p = 1 .. Len(p) /\ Head(q) = q[1]
  BY HeadTailProperties, LenProperties, EmptySeq, SMT
<1> HIDE DEF p
<1>2. /\ \A k \in DOMAIN p : k + 1 \in DOMAIN q /\ p[k] = q[k + 1] /\ 1 < k + 1
      /\ \A j, k \in DOMAIN p : j < k => j + 1 < k + 1
      /\ 1 \in DOMAIN q
  BY <1>1, SMT
<1>3. \A m \in ToSet(p) : \E k \in DOMAIN q : 1 < k /\ q[k] = m
  BY <1>2 DEF ToSet
<1>4. CreateFirst(q) => CreateFirst(p) /\ \A m \in ToSet(p) : m.ue = q[1].ue => m.ev # "CREATE"
  <2> SUFFICES ASSUME CreateFirst(q)
               PROVE  CreateFirst(p) /\ \A m \in ToSet(p) : m.ue = q[1].ue => m.ev # "CREATE"
    OBVIOUS
  <2>1. CreateFirst(p)
    <3> SUFFICES ASSUME NEW j \in DOMAIN p, NEW k \in DOMAIN p, j < k, p[j].ue = p[k].ue
                 PROVE  p[k].ev # "CREATE"
      BY DEF CreateFirst
    <3>1. q[j + 1].ue = q[k + 1].ue /\ j + 1 < k + 1
      BY <1>2
    <3>2. QED
      BY <1>2, <3>1 DEF CreateFirst
  <2>2. QED
    BY <1>2, <1>3, <2>1 DEF CreateFirst
<1>5. UlRrcLast(q) => UlRrcLast(p) /\ (q[1].ev = "UL_RRC" => \A m \in ToSet(p) : m.ue # q[1].ue)
  <2> SUFFICES ASSUME UlRrcLast(q)
               PROVE  UlRrcLast(p) /\ (q[1].ev = "UL_RRC" => \A m \in ToSet(p) : m.ue # q[1].ue)
    OBVIOUS
  <2>1. UlRrcLast(p)
    <3> SUFFICES ASSUME NEW j \in DOMAIN p, NEW k \in DOMAIN p, j < k, p[j].ue = p[k].ue
                 PROVE  p[j].ev # "UL_RRC"
      BY DEF UlRrcLast
    <3>1. q[j + 1].ue = q[k + 1].ue /\ j + 1 < k + 1
      BY <1>2
    <3>2. QED
      BY <1>2, <3>1 DEF UlRrcLast
  <2>2. QED
    BY <1>2, <1>3, <2>1 DEF UlRrcLast
<1>6. QED
  BY <1>1, <1>4, <1>5 DEF p

LEMMA PutInOrder ==
    ASSUME NEW S, NEW q \in Seq(S), NEW m \in S
    PROVE  /\ CreateFirst(q) /\ (m.ev = "CREATE" => \A x \in ToSet(q) : x.ue # m.ue) =>
                CreateFirst(Append(q, m))
           /\ UlRrcLast(q) /\ (\A x \in ToSet(q) : x.ue = m.ue => x.ev # "UL_RRC") =>
                UlRrcLast(Append(q, m))
<1> DEFINE p == Append(q, m)
           n == Len(q) + 1
<1>1. /\ DOMAIN p = DOMAIN q \union {n} /\ p[n] = m /\ n \in Int
      /\ \A k \in DOMAIN q : p[k] = q[k] /\ k < n /\ ~(n < k) /\ q[k] \in ToSet(q)
      /\ ~(n < n)
  <2>1. /\ DOMAIN p = 1 .. n /\ p[n] = m /\ \A k \in 1 .. Len(q) : p[k] = q[k]
    BY AppendProperties, LenProperties, SMT
  <2>2. DOMAIN q = 1 .. Len(q) /\ Len(q) \in Nat
    BY LenProperties
  <2>3. QED
    BY <2>1, <2>2, SMT DEF ToSet
<1> HIDE DEF p, n
<1>2. CreateFirst(q) /\ (m.ev = "CREATE" => \A x \in ToSet(q) : x.ue # m.ue) => CreateFirst(p)
  BY <1>1 DEF CreateFirst
<1>3. UlRrcLast(q) /\ (\A x \in ToSet(q) : x.ue = m.ue => x.ev # "UL_RRC") => UlRrcLast(p)
  BY <1>1 DEF UlRrcLast
<1>4. QED
  BY <1>2, <1>3 DEF p

-----------------------------------------------------------------------------
(* The tokens about UE i in the two queues between the DU application and    *)
(* MAC, and in those of RLC with its timers: RRC messages to be sent, the    *)
(* requests, the timers, the requests and confirms between the halves of RLC *)
(* and the responses.                                                        *)

MacToks(q, r, i) == ReqToks("duToMac", q, i) \union RspToks("macToDu", r, i)

DlToks(dl, i) == {t \in {ReqTok("duToRlcDl", "DL_RRC")} : i \in ToSet(dl)}
TmrToks(tmr, i) == {t \in {ReqTok("ueDelTmr", "DELETE")} : i \in tmr}

RlcToks(dl, q, tmr, uq, uc, r, i) ==
    UNION {DlToks(dl, i), ReqToks("duToRlc", q, i), TmrToks(tmr, i),
           UdxToks("udxReq", uq, i), UdxToks("udxCfm", uc, i), RspToks("rlcToDu", r, i)}

LEMMA Places ==
    /\ \A at, q, i : \A t \in ReqToks(at, q, i) : t.at = at
    /\ \A at, q, i : \A t \in RspToks(at, q, i) : t.at = at
    /\ \A at, q, i : \A t \in UdxToks(at, q, i) : t.at = at
    /\ \A dl, i : \A t \in DlToks(dl, i) : t.at = "duToRlcDl"
    /\ \A tmr, i : \A t \in TmrToks(tmr, i) : t.at = "ueDelTmr"
    /\ \A at, ev : ReqTok(at, ev).at = at /\ ReqTok(at, ev).ev = ev /\ ReqTok(at, ev).ok = TRUE
    /\ \A at, ev, ok : Tok(at, ev, ok).at = at /\ Tok(at, ev, ok).ev = ev /\ Tok(at, ev, ok).ok = ok
  BY DEF ReqToks, RspToks, UdxToks, DlToks, TmrToks, Tok, ReqTok

LEMMA MacTakeReq ==
    ASSUME NEW S, NEW q \in Seq(S), q # <<>>, Distinct(q), NEW r
    PROVE  /\ First(q) \in S /\ Rest(q) \in Seq(S) /\ Distinct(Rest(q))
           /\ MacToks(Rest(q), r, Ue(First(q))) =
                    Without(MacToks(q, r, Ue(First(q))), ReqTok("duToMac", Ev(First(q))))
           /\ ReqTok("duToMac", Ev(First(q))) \in MacToks(q, r, Ue(First(q)))
<1> USE DEF First, Rest, Put, With, Without, Ue, Ev, Ok
<1> DEFINE t == ReqTok("duToMac", Head(q).ev)
<1>1. /\ Head(q) \in S /\ Tail(q) \in Seq(S) /\ Distinct(Tail(q))
      /\ ReqToks("duToMac", Tail(q), Head(q).ue) = ReqToks("duToMac", q, Head(q).ue) \ {t}
      /\ t \in ReqToks("duToMac", q, Head(q).ue)
  BY TakeReq
<1>2. t.at = "duToMac"
  BY Places
<1> HIDE DEF t
<1>3. MacToks(Tail(q), r, Head(q).ue) = MacToks(q, r, Head(q).ue) \ {t}
  BY <1>1, <1>2, Places DEF MacToks
<1>4. t \in MacToks(q, r, Head(q).ue)
  BY <1>1 DEF MacToks
<1>5. QED
  BY <1>1, <1>3, <1>4 DEF t

LEMMA MacTakeReqOthers ==
    ASSUME NEW S, NEW q \in Seq(S), q # <<>>, NEW r
    PROVE  \A i : i # Ue(First(q)) => MacToks(Rest(q), r, i) = MacToks(q, r, i)
<1> USE DEF First, Rest, Put, With, Without, Ue, Ev, Ok
<1>1. \A i : Head(q).ue # i => ReqToks("duToMac", Tail(q), i) = ReqToks("duToMac", q, i)
  BY TakeReqOthers
<1>2. QED
  BY <1>1 DEF MacToks

LEMMA MacPutReq ==
    ASSUME NEW S, NEW q \in Seq(S), NEW m \in S, NEW r
    PROVE  /\ Put(q, m) \in Seq(S)
           /\ Distinct(q) /\ (\A x \in MacToks(q, r, Ue(m)) : x.at = "duToMac" => x.ev # Ev(m)) =>
                Distinct(Put(q, m))
           /\ MacToks(Put(q, m), r, Ue(m)) =
                    With(MacToks(q, r, Ue(m)), ReqTok("duToMac", Ev(m)))
<1> USE DEF First, Rest, Put, With, Without, Ue, Ev, Ok
<1> DEFINE t == ReqTok("duToMac", m.ev)
<1>1. ReqToks("duToMac", Append(q, m), m.ue) = ReqToks("duToMac", q, m.ue) \union {t}
  BY PutReq
<1>2. Append(q, m) \in Seq(S)
  BY AppendProperties
<1> HIDE DEF t
<1>3. ReqToks("duToMac", q, m.ue) \subseteq MacToks(q, r, m.ue) /\ \A x \in ReqToks("duToMac", q, m.ue) : x.at = "duToMac"
  BY Places DEF MacToks
<1>4. ASSUME Distinct(q), \A x \in MacToks(q, r, m.ue) : x.at = "duToMac" => x.ev # m.ev
      PROVE  Distinct(Append(q, m))
  <2>1. \A x \in ReqToks("duToMac", q, m.ue) : x.ev # m.ev
    BY <1>3, <1>4
  <2>2. QED
    BY <1>4, <2>1, PutReqDistinct
<1>5. MacToks(Append(q, m), r, m.ue) = MacToks(q, r, m.ue) \union {t}
  BY <1>1 DEF MacToks
<1>6. QED
  BY <1>2, <1>4, <1>5 DEF t

LEMMA MacPutReqOthers ==
    ASSUME NEW S, NEW q \in Seq(S), NEW m \in S, NEW r
    PROVE  \A i : i # Ue(m) => MacToks(Put(q, m), r, i) = MacToks(q, r, i)
<1> USE DEF First, Rest, Put, With, Without, Ue, Ev, Ok
<1>1. \A i : m.ue # i => ReqToks("duToMac", Append(q, m), i) = ReqToks("duToMac", q, i)
  BY PutReqOthers
<1>2. QED
  BY <1>1 DEF MacToks

LEMMA MacTakeRsp ==
    ASSUME NEW S, NEW r \in Seq(S), r # <<>>, Distinct(r), NEW q
    PROVE  /\ First(r) \in S /\ Rest(r) \in Seq(S) /\ Distinct(Rest(r))
           /\ MacToks(q, Rest(r), Ue(First(r))) =
                    Without(MacToks(q, r, Ue(First(r))), Tok("macToDu", Ev(First(r)), Ok(First(r))))
           /\ Tok("macToDu", Ev(First(r)), Ok(First(r))) \in MacToks(q, r, Ue(First(r)))
           /\ CreateFirst(r) =>
                /\ CreateFirst(Rest(r))
                /\ \A x \in MacToks(q, Rest(r), Ue(First(r))) : x.at = "macToDu" => x.ev # "CREATE"
<1> USE DEF First, Rest, Put, With, Without, Ue, Ev, Ok
<1> DEFINE t == Tok("macToDu", Head(r).ev, Head(r).ok)
<1>1. /\ Head(r) \in S /\ Tail(r) \in Seq(S) /\ Distinct(Tail(r))
      /\ RspToks("macToDu", Tail(r), Head(r).ue) = RspToks("macToDu", r, Head(r).ue) \ {t}
      /\ t \in RspToks("macToDu", r, Head(r).ue)
  BY TakeRsp
<1>2. t.at = "macToDu"
  BY Places
<1> HIDE DEF t
<1>3. MacToks(q, Tail(r), Head(r).ue) = MacToks(q, r, Head(r).ue) \ {t}
  BY <1>1, <1>2, Places DEF MacToks
<1>4. t \in MacToks(q, r, Head(r).ue)
  BY <1>1 DEF MacToks
<1>5. ASSUME CreateFirst(r)
      PROVE  /\ CreateFirst(Tail(r))
             /\ \A x \in MacToks(q, Tail(r), Head(r).ue) : x.at = "macToDu" => x.ev # "CREATE"
  <2>1. CreateFirst(Tail(r)) /\ \A m \in ToSet(Tail(r)) : m.ue = Head(r).ue => m.ev # "CREATE"
    BY <1>5, TakeInOrder
  <2>2. \A x \in RspToks("macToDu", Tail(r), Head(r).ue) : x.ev # "CREATE"
    BY <2>1 DEF RspToks, Tok
  <2>3. \A x \in ReqToks("duToMac", q, Head(r).ue) : x.at # "macToDu"
    BY Places
  <2>4. QED
    BY <2>1, <2>2, <2>3 DEF MacToks
<1>6. QED
  BY <1>1, <1>3, <1>4, <1>5 DEF t

LEMMA MacTakeRspOthers ==
    ASSUME NEW S, NEW r \in Seq(S), r # <<>>, NEW q
    PROVE  \A i : i # Ue(First(r)) => MacToks(q, Rest(r), i) = MacToks(q, r, i)
<1> USE DEF First, Rest, Put, With, Without, Ue, Ev, Ok
<1>1. \A i : Head(r).ue # i => RspToks("macToDu", Tail(r), i) = RspToks("macToDu", r, i)
  BY TakeRspOthers
<1>2. QED
  BY <1>1 DEF MacToks

LEMMA MacPutRsp ==
    ASSUME NEW S, NEW r \in Seq(S), NEW m \in S, NEW q
    PROVE  /\ Put(r, m) \in Seq(S)
           /\ Distinct(r) /\ (\A x \in MacToks(q, r, Ue(m)) : x.at = "macToDu" => x.ev # Ev(m)) =>
                Distinct(Put(r, m))
           /\ MacToks(q, Put(r, m), Ue(m)) =
                    With(MacToks(q, r, Ue(m)), Tok("macToDu", Ev(m), Ok(m)))
           /\ CreateFirst(r) /\ (Ev(m) = "CREATE" => \A x \in MacToks(q, r, Ue(m)) : x.at # "macToDu") =>
                CreateFirst(Put(r, m))
<1> USE DEF First, Rest, Put, With, Without, Ue, Ev, Ok
<1> DEFINE t == Tok("macToDu", m.ev, m.ok)
<1>1. RspToks("macToDu", Append(r, m), m.ue) = RspToks("macToDu", r, m.ue) \union {t}
  BY PutRsp
<1>2. Append(r, m) \in Seq(S)
  BY AppendProperties
<1> HIDE DEF t
<1>3. RspToks("macToDu", r, m.ue) \subseteq MacToks(q, r, m.ue) /\ \A x \in RspToks("macToDu", r, m.ue) : x.at = "macToDu"
  BY Places DEF MacToks
<1>4. ASSUME Distinct(r), \A x \in MacToks(q, r, m.ue) : x.at = "macToDu" => x.ev # m.ev
      PROVE  Distinct(Append(r, m))
  <2>1. \A x \in RspToks("macToDu", r, m.ue) : x.ev # m.ev
    BY <1>3, <1>4
  <2>2. QED
    BY <1>4, <2>1, PutRspDistinct
<1>5. MacToks(q, Append(r, m), m.ue) = MacToks(q, r, m.ue) \union {t}
  BY <1>1 DEF MacToks
<1>6. ASSUME CreateFirst(r), m.ev = "CREATE" => \A x \in MacToks(q, r, m.ue) : x.at # "macToDu"
      PROVE  CreateFirst(Append(r, m))
  <2>1. ASSUME NEW x \in ToSet(r), x.ue = m.ue
        PROVE  Tok("macToDu", x.ev, x.ok) \in RspToks("macToDu", r, m.ue)
    BY <2>1 DEF RspToks
  <2>2. m.ev = "CREATE" => \A x \in ToSet(r) : x.ue # m.ue
    BY <1>3, <1>6, <2>1
  <2>3. QED
    BY <1>6, <2>2, PutInOrder
<1>7. QED
  BY <1>2, <1>4, <1>5, <1>6 DEF t

LEMMA MacPutRspOthers ==
    ASSUME NEW S, NEW r \in Seq(S), NEW m \in S, NEW q
    PROVE  \A i : i # Ue(m) => MacToks(q, Put(r, m), i) = MacToks(q, r, i)
<1> USE DEF First, Rest, Put, With, Without, Ue, Ev, Ok
<1>1. \A i : m.ue # i => RspToks("macToDu", Append(r, m), i) = RspToks("macToDu", r, i)
  BY PutRspOthers
<1>2. QED
  BY <1>1 DEF MacToks

LEMMA RlcTakeReq ==
    ASSUME NEW S, NEW q \in Seq(S), q # <<>>, Distinct(q), NEW dl, NEW tmr, NEW uq, NEW uc, NEW r
    PROVE  /\ First(q) \in S /\ Rest(q) \in Seq(S) /\ Distinct(Rest(q))
           /\ RlcToks(dl, Rest(q), tmr, uq, uc, r, Ue(First(q))) =
                    Without(RlcToks(dl, q, tmr, uq, uc, r, Ue(First(q))), ReqTok("duToRlc", Ev(First(q))))
           /\ ReqTok("duToRlc", Ev(First(q))) \in RlcToks(dl, q, tmr, uq, uc, r, Ue(First(q)))
<1> USE DEF First, Rest, Put, With, Without, Ue, Ev, Ok
<1> DEFINE t == ReqTok("duToRlc", Head(q).ev)
<1>1. /\ Head(q) \in S /\ Tail(q) \in Seq(S) /\ Distinct(Tail(q))
      /\ ReqToks("duToRlc", Tail(q), Head(q).ue) = ReqToks("duToRlc", q, Head(q).ue) \ {t}
      /\ t \in ReqToks("duToRlc", q, Head(q).ue)
  BY TakeReq
<1>2. t.at = "duToRlc"
  BY Places
<1> HIDE DEF t
<1>3. RlcToks(dl, Tail(q), tmr, uq, uc, r, Head(q).ue) = RlcToks(dl, q, tmr, uq, uc, r, Head(q).ue) \ {t}
  BY <1>1, <1>2, Places DEF RlcToks
<1>4. t \in RlcToks(dl, q, tmr, uq, uc, r, Head(q).ue)
  BY <1>1 DEF RlcToks
<1>5. QED
  BY <1>1, <1>3, <1>4 DEF t

LEMMA RlcTakeReqOthers ==
    ASSUME NEW S, NEW q \in Seq(S), q # <<>>, NEW dl, NEW tmr, NEW uq, NEW uc, NEW r
    PROVE  \A i : i # Ue(First(q)) => RlcToks(dl, Rest(q), tmr, uq, uc, r, i) = RlcToks(dl, q, tmr, uq, uc, r, i)
<1> USE DEF First, Rest, Put, With, Without, Ue, Ev, Ok
<1>1. \A i : Head(q).ue # i => ReqToks("duToRlc", Tail(q), i) = ReqToks("duToRlc", q, i)
  BY TakeReqOthers
<1>2. QED
  BY <1>1 DEF RlcToks

LEMMA RlcPutReq ==
    ASSUME NEW S, NEW q \in Seq(S), NEW m \in S, NEW dl, NEW tmr, NEW uq, NEW uc, NEW r
    PROVE  /\ Put(q, m) \in Seq(S)
           /\ Distinct(q) /\ (\A x \in RlcToks(dl, q, tmr, uq, uc, r, Ue(m)) : x.at = "duToRlc" => x.ev # Ev(m)) =>
                Distinct(Put(q, m))
           /\ RlcToks(dl, Put(q, m), tmr, uq, uc, r, Ue(m)) =
                    With(RlcToks(dl, q, tmr, uq, uc, r, Ue(m)), ReqTok("duToRlc", Ev(m)))
<1> USE DEF First, Rest, Put, With, Without, Ue, Ev, Ok
<1> DEFINE t == ReqTok("duToRlc", m.ev)
<1>1. ReqToks("duToRlc", Append(q, m), m.ue) = ReqToks("duToRlc", q, m.ue) \union {t}
  BY PutReq
<1>2. Append(q, m) \in Seq(S)
  BY AppendProperties
<1> HIDE DEF t
<1>3. ReqToks("duToRlc", q, m.ue) \subseteq RlcToks(dl, q, tmr, uq, uc, r, m.ue) /\ \A x \in ReqToks("duToRlc", q, m.ue) : x.at = "duToRlc"
  BY Places DEF RlcToks
<1>4. ASSUME Distinct(q), \A x \in RlcToks(dl, q, tmr, uq, uc, r, m.ue) : x.at = "duToRlc" => x.ev # m.ev
      PROVE  Distinct(Append(q, m))
  <2>1. \A x \in ReqToks("duToRlc", q, m.ue) : x.ev # m.ev
    BY <1>3, <1>4
  <2>2. QED
    BY <1>4, <2>1, PutReqDistinct
<1>5. RlcToks(dl, Append(q, m), tmr, uq, uc, r, m.ue) = RlcToks(dl, q, tmr, uq, uc, r, m.ue) \union {t}
  BY <1>1 DEF RlcToks
<1>6. QED
  BY <1>2, <1>4, <1>5 DEF t

LEMMA RlcPutReqOthers ==
    ASSUME NEW S, NEW q \in Seq(S), NEW m \in S, NEW dl, NEW tmr, NEW uq, NEW uc, NEW r
    PROVE  \A i : i # Ue(m) => RlcToks(dl, Put(q, m), tmr, uq, uc, r, i) = RlcToks(dl, q, tmr, uq, uc, r, i)
<1> USE DEF First, Rest, Put, With, Without, Ue, Ev, Ok
<1>1. \A i : m.ue # i => ReqToks("duToRlc", Append(q, m), i) = ReqToks("duToRlc", q, i)
  BY PutReqOthers
<1>2. QED
  BY <1>1 DEF RlcToks

LEMMA RlcTakeUdxReq ==
    ASSUME NEW S, NEW uq \in Seq(S), uq # <<>>, UdxDistinct(uq), NEW dl, NEW q, NEW tmr, NEW uc, NEW r
    PROVE  /\ First(uq) \in S /\ Rest(uq) \in Seq(S) /\ UdxDistinct(Rest(uq))
           /\ RlcToks(dl, q, tmr, Rest(uq), uc, r, UdxUe(First(uq))) =
                    Without(RlcToks(dl, q, tmr, uq, uc, r, UdxUe(First(uq))), Tok("udxReq", UdxEv(First(uq)), UdxOk(First(uq))))
           /\ Tok("udxReq", UdxEv(First(uq)), UdxOk(First(uq))) \in RlcToks(dl, q, tmr, uq, uc, r, UdxUe(First(uq)))
<1> USE DEF First, Rest, Put, With, Without, UdxUe, UdxEv, UdxOk
<1> DEFINE t == Tok("udxReq", Head(uq).req.ev, Head(uq).ueOk)
<1>1. /\ Head(uq) \in S /\ Tail(uq) \in Seq(S) /\ UdxDistinct(Tail(uq))
      /\ UdxToks("udxReq", Tail(uq), Head(uq).req.ue) = UdxToks("udxReq", uq, Head(uq).req.ue) \ {t}
      /\ t \in UdxToks("udxReq", uq, Head(uq).req.ue)
  BY TakeUdx
<1>2. t.at = "udxReq"
  BY Places
<1> HIDE DEF t
<1>3. RlcToks(dl, q, tmr, Tail(uq), uc, r, Head(uq).req.ue) = RlcToks(dl, q, tmr, uq, uc, r, Head(uq).req.ue) \ {t}
  BY <1>1, <1>2, Places DEF RlcToks
<1>4. t \in RlcToks(dl, q, tmr, uq, uc, r, Head(uq).req.ue)
  BY <1>1 DEF RlcToks
<1>5. QED
  BY <1>1, <1>3, <1>4 DEF t

LEMMA RlcTakeUdxReqOthers ==
    ASSUME NEW S, NEW uq \in Seq(S), uq # <<>>, NEW dl, NEW q, NEW tmr, NEW uc, NEW r
    PROVE  \A i : i # UdxUe(First(uq)) => RlcToks(dl, q, tmr, Rest(uq), uc, r, i) = RlcToks(dl, q, tmr, uq, uc, r, i)
<1> USE DEF First, Rest, Put, With, Without, UdxUe, UdxEv, UdxOk
<1>1. \A i : Head(uq).req.ue # i => UdxToks("udxReq", Tail(uq), i) = UdxToks("udxReq", uq, i)
  BY TakeUdxOthers
<1>2. QED
  BY <1>1 DEF RlcToks

LEMMA RlcPutUdxReq ==
    ASSUME NEW S, NEW uq \in Seq(S), NEW m \in S, NEW dl, NEW q, NEW tmr, NEW uc, NEW r
    PROVE  /\ Put(uq, m) \in Seq(S)
           /\ UdxDistinct(uq) /\ (\A x \in RlcToks(dl, q, tmr, uq, uc, r, UdxUe(m)) : x.at = "udxReq" => x.ev # UdxEv(m)) =>
                UdxDistinct(Put(uq, m))
           /\ RlcToks(dl, q, tmr, Put(uq, m), uc, r, UdxUe(m)) =
                    With(RlcToks(dl, q, tmr, uq, uc, r, UdxUe(m)), Tok("udxReq", UdxEv(m), UdxOk(m)))
<1> USE DEF First, Rest, Put, With, Without, UdxUe, UdxEv, UdxOk
<1> DEFINE t == Tok("udxReq", m.req.ev, m.ueOk)
<1>1. UdxToks("udxReq", Append(uq, m), m.req.ue) = UdxToks("udxReq", uq, m.req.ue) \union {t}
  BY PutUdx
<1>2. Append(uq, m) \in Seq(S)
  BY AppendProperties
<1> HIDE DEF t
<1>3. UdxToks("udxReq", uq, m.req.ue) \subseteq RlcToks(dl, q, tmr, uq, uc, r, m.req.ue) /\ \A x \in UdxToks("udxReq", uq, m.req.ue) : x.at = "udxReq"
  BY Places DEF RlcToks
<1>4. ASSUME UdxDistinct(uq), \A x \in RlcToks(dl, q, tmr, uq, uc, r, m.req.ue) : x.at = "udxReq" => x.ev # m.req.ev
      PROVE  UdxDistinct(Append(uq, m))
  <2>1. \A x \in UdxToks("udxReq", uq, m.req.ue) : x.ev # m.req.ev
    BY <1>3, <1>4
  <2>2. QED
    BY <1>4, <2>1, PutUdxDistinct
<1>5. RlcToks(dl, q, tmr, Append(uq, m), uc, r, m.req.ue) = RlcToks(dl, q, tmr, uq, uc, r, m.req.ue) \union {t}
  BY <1>1 DEF RlcToks
<1>6. QED
  BY <1>2, <1>4, <1>5 DEF t

LEMMA RlcPutUdxReqOthers ==
    ASSUME NEW S, NEW uq \in Seq(S), NEW m \in S, NEW dl, NEW q, NEW tmr, NEW uc, NEW r
    PROVE  \A i : i # UdxUe(m) => RlcToks(dl, q, tmr, Put(uq, m), uc, r, i) = RlcToks(dl, q, tmr, uq, uc, r, i)
<1> USE DEF First, Rest, Put, With, Without, UdxUe, UdxEv, UdxOk
<1>1. \A i : m.req.ue # i => UdxToks("udxReq", Append(uq, m), i) = UdxToks("udxReq", uq, i)
  BY PutUdxOthers
<1>2. QED
  BY <1>1 DEF RlcToks

LEMMA RlcTakeUdxCfm ==
    ASSUME NEW S, NEW uc \in Seq(S), uc # <<>>, UdxDistinct(uc), NEW dl, NEW q, NEW tmr, NEW uq, NEW r
    PROVE  /\ First(uc) \in S /\ Rest(uc) \in Seq(S) /\ UdxDistinct(Rest(uc))
           /\ RlcToks(dl, q, tmr, uq, Rest(uc), r, UdxUe(First(uc))) =
                    Without(RlcToks(dl, q, tmr, uq, uc, r, UdxUe(First(uc))), Tok("udxCfm", UdxEv(First(uc)), UdxOk(First(uc))))
           /\ Tok("udxCfm", UdxEv(First(uc)), UdxOk(First(uc))) \in RlcToks(dl, q, tmr, uq, uc, r, UdxUe(First(uc)))
<1> USE DEF First, Rest, Put, With, Without, UdxUe, UdxEv, UdxOk
<1> DEFINE t == Tok("udxCfm", Head(uc).req.ev, Head(uc).ueOk)
<1>1. /\ Head(uc) \in S /\ Tail(uc) \in Seq(S) /\ UdxDistinct(Tail(uc))
      /\ UdxToks("udxCfm", Tail(uc), Head(uc).req.ue) = UdxToks("udxCfm", uc, Head(uc).req.ue) \ {t}
      /\ t \in UdxToks("udxCfm", uc, Head(uc).req.ue)
  BY TakeUdx
<1>2. t.at = "udxCfm"
  BY Places
<1> HIDE DEF t
<1>3. RlcToks(dl, q, tmr, uq, Tail(uc), r, Head(uc).req.ue) = RlcToks(dl, q, tmr, uq, uc, r, Head(uc).req.ue) \ {t}
  BY <1>1, <1>2, Places DEF RlcToks
<1>4. t \in RlcToks(dl, q, tmr, uq, uc, r, Head(uc).req.ue)
  BY <1>1 DEF RlcToks
<1>5. QED
  BY <1>1, <1>3, <1>4 DEF t

LEMMA RlcTakeUdxCfmOthers ==
    ASSUME NEW S, NEW uc \in Seq(S), uc # <<>>, NEW dl, NEW q, NEW tmr, NEW uq, NEW r
    PROVE  \A i : i # UdxUe(First(uc)) => RlcToks(dl, q, tmr, uq, Rest(uc), r, i) = RlcToks(dl, q, tmr, uq, uc, r, i)
<1> USE DEF First, Rest, Put, With, Without, UdxUe, UdxEv, UdxOk
<1>1. \A i : Head(uc).req.ue # i => UdxToks("udxCfm", Tail(uc), i) = UdxToks("udxCfm", uc, i)
  BY TakeUdxOthers
<1>2. QED
  BY <1>1 DEF RlcToks

LEMMA RlcPutUdxCfm ==
    ASSUME NEW S, NEW uc \in Seq(S), NEW m \in S, NEW dl, NEW q, NEW tmr, NEW uq, NEW r
    PROVE  /\ Put(uc, m) \in Seq(S)
           /\ UdxDistinct(uc) /\ (\A x \in RlcToks(dl, q, tmr, uq, uc, r, UdxUe(m)) : x.at = "udxCfm" => x.ev # UdxEv(m)) =>
                UdxDistinct(Put(uc, m))
           /\ RlcToks(dl, q, tmr, uq, Put(uc, m), r, UdxUe(m)) =
                    With(RlcToks(dl, q, tmr, uq, uc, r, UdxUe(m)), Tok("udxCfm", UdxEv(m), UdxOk(m)))
<1> USE DEF First, Rest, Put, With, Without, UdxUe, UdxEv, UdxOk
<1> DEFINE t == Tok("udxCfm", m.req.ev, m.ueOk)
<1>1. UdxToks("udxCfm", Append(uc, m), m.req.ue) = UdxToks("udxCfm", uc, m.req.ue) \union {t}
  BY PutUdx
<1>2. Append(uc, m) \in Seq(S)
  BY AppendProperties
<1> HIDE DEF t
<1>3. UdxToks("udxCfm", uc, m.req.ue) \subseteq RlcToks(dl, q, tmr, uq, uc, r, m.req.ue) /\ \A x \in UdxToks("udxCfm", uc, m.req.ue) : x.at = "udxCfm"
  BY Places DEF RlcToks
<1>4. ASSUME UdxDistinct(uc), \A x \in RlcToks(dl, q, tmr, uq, uc, r, m.req.ue) : x.at = "udxCfm" => x.ev # m.req.ev
      PROVE  UdxDistinct(Append(uc, m))
  <2>1. \A x \in UdxToks("udxCfm", uc, m.req.ue) : x.ev # m.req.ev
    BY <1>3, <1>4
  <2>2. QED
    BY <1>4, <2>1, PutUdxDistinct
<1>5. RlcToks(dl, q, tmr, uq, Append(uc, m), r, m.req.ue) = RlcToks(dl, q, tmr, uq, uc, r, m.req.ue) \union {t}
  BY <1>1 DEF RlcToks
<1>6. QED
  BY <1>2, <1>4, <1>5 DEF t

LEMMA RlcPutUdxCfmOthers ==
    ASSUME NEW S, NEW uc \in Seq(S), NEW m \in S, NEW dl, NEW q, NEW tmr, NEW uq, NEW r
    PROVE  \A i : i # UdxUe(m) => RlcToks(dl, q, tmr, uq, Put(uc, m), r, i) = RlcToks(dl, q, tmr, uq, uc, r, i)
<1> USE DEF First, Rest, Put, With, Without, UdxUe, UdxEv, UdxOk
<1>1. \A i : m.req.ue # i => UdxToks("udxCfm", Append(uc, m), i) = UdxToks("udxCfm", uc, i)
  BY PutUdxOthers
<1>2. QED
  BY <1>1 DEF RlcToks

LEMMA RlcTakeRsp ==
    ASSUME NEW S, NEW r \in Seq(S), r # <<>>, Distinct(r), NEW dl, NEW q, NEW tmr, NEW uq, NEW uc
    PROVE  /\ First(r) \in S /\ Rest(r) \in Seq(S) /\ Distinct(Rest(r))
           /\ RlcToks(dl, q, tmr, uq, uc, Rest(r), Ue(First(r))) =
                    Without(RlcToks(dl, q, tmr, uq, uc, r, Ue(First(r))), Tok("rlcToDu", Ev(First(r)), Ok(First(r))))
           /\ Tok("rlcToDu", Ev(First(r)), Ok(First(r))) \in RlcToks(dl, q, tmr, uq, uc, r, Ue(First(r)))
           /\ UlRrcLast(r) =>
                /\ UlRrcLast(Rest(r))
                /\ Ev(First(r)) = "UL_RRC" => \A x \in RlcToks(dl, q, tmr, uq, uc, Rest(r), Ue(First(r))) : x.at # "rlcToDu"
<1> USE DEF First, Rest, Put, With, Without, Ue, Ev, Ok
<1> DEFINE t == Tok("rlcToDu", Head(r).ev, Head(r).ok)
<1>1. /\ Head(r) \in S /\ Tail(r) \in Seq(S) /\ Distinct(Tail(r))
      /\ RspToks("rlcToDu", Tail(r), Head(r).ue) = RspToks("rlcToDu", r, Head(r).ue) \ {t}
      /\ t \in RspToks("rlcToDu", r, Head(r).ue)
  BY TakeRsp
<1>2. t.at = "rlcToDu"
  BY Places
<1> HIDE DEF t
<1>3. RlcToks(dl, q, tmr, uq, uc, Tail(r), Head(r).ue) = RlcToks(dl, q, tmr, uq, uc, r, Head(r).ue) \ {t}
  BY <1>1, <1>2, Places DEF RlcToks
<1>4. t \in RlcToks(dl, q, tmr, uq, uc, r, Head(r).ue)
  BY <1>1 DEF RlcToks
<1>5. ASSUME UlRrcLast(r)
      PROVE  /\ UlRrcLast(Tail(r))
             /\ Head(r).ev = "UL_RRC" => \A x \in RlcToks(dl, q, tmr, uq, uc, Tail(r), Head(r).ue) : x.at # "rlcToDu"
  <2>1. UlRrcLast(Tail(r)) /\ (Head(r).ev = "UL_RRC" => \A m \in ToSet(Tail(r)) : m.ue # Head(r).ue)
    BY <1>5, TakeInOrder
  <2>2. Head(r).ev = "UL_RRC" => RspToks("rlcToDu", Tail(r), Head(r).ue) = {}
    BY <2>1 DEF RspToks
  <2>3. QED
    BY <2>1, <2>2, Places DEF RlcToks
<1>6. QED
  BY <1>1, <1>3, <1>4, <1>5 DEF t

LEMMA RlcTakeRspOthers ==
    ASSUME NEW S, NEW r \in Seq(S), r # <<>>, NEW dl, NEW q, NEW tmr, NEW uq, NEW uc
    PROVE  \A i : i # Ue(First(r)) => RlcToks(dl, q, tmr, uq, uc, Rest(r), i) = RlcToks(dl, q, tmr, uq, uc, r, i)
<1> USE DEF First, Rest, Put, With, Without, Ue, Ev, Ok
<1>1. \A i : Head(r).ue # i => RspToks("rlcToDu", Tail(r), i) = RspToks("rlcToDu", r, i)
  BY TakeRspOthers
<1>2. QED
  BY <1>1 DEF RlcToks

LEMMA RlcPutRsp ==
    ASSUME NEW S, NEW r \in Seq(S), NEW m \in S, NEW dl, NEW q, NEW tmr, NEW uq, NEW uc
    PROVE  /\ Put(r, m) \in Seq(S)
           /\ Distinct(r) /\ (\A x \in RlcToks(dl, q, tmr, uq, uc, r, Ue(m)) : x.at = "rlcToDu" => x.ev # Ev(m)) =>
                Distinct(Put(r, m))
           /\ RlcToks(dl, q, tmr, uq, uc, Put(r, m), Ue(m)) =
                    With(RlcToks(dl, q, tmr, uq, uc, r, Ue(m)), Tok("rlcToDu", Ev(m), Ok(m)))
           /\ UlRrcLast(r) /\ (\A x \in RlcToks(dl, q, tmr, uq, uc, r, Ue(m)) : x.at = "rlcToDu" => x.ev # "UL_RRC") =>
                UlRrcLast(Put(r, m))
<1> USE DEF First, Rest, Put, With, Without, Ue, Ev, Ok
<1> DEFINE t == Tok("rlcToDu", m.ev, m.ok)
<1>1. RspToks("rlcToDu", Append(r, m), m.ue) = RspToks("rlcToDu", r, m.ue) \union {t}
  BY PutRsp
<1>2. Append(r, m) \in Seq(S)
  BY AppendProperties
<1> HIDE DEF t
<1>3. RspToks("rlcToDu", r, m.ue) \subseteq RlcToks(dl, q, tmr, uq, uc, r, m.ue) /\ \A x \in RspToks("rlcToDu", r, m.ue) : x.at = "rlcToDu"
  BY Places DEF RlcToks
<1>4. ASSUME Distinct(r), \A x \in RlcToks(dl, q, tmr, uq, uc, r, m.ue) : x.at = "rlcToDu" => x.ev # m.ev
      PROVE  Distinct(Append(r, m))
  <2>1. \A x \in RspToks("rlcToDu", r, m.ue) : x.ev # m.ev
    BY <1>3, <1>4
  <2>2. QED
    BY <1>4, <2>1, PutRspDistinct
<1>5. RlcToks(dl, q, tmr, uq, uc, Append(r, m), m.ue) = RlcToks(dl, q, tmr, uq, uc, r, m.ue) \union {t}
  BY <1>1 DEF RlcToks
<1>6. ASSUME UlRrcLast(r), \A x \in RlcToks(dl, q, tmr, uq, uc, r, m.ue) : x.at = "rlcToDu" => x.ev # "UL_RRC"
      PROVE  UlRrcLast(Append(r, m))
  <2>1. ASSUME NEW x \in ToSet(r), x.ue = m.ue
        PROVE  x.ev # "UL_RRC"
    <3>1. Tok("rlcToDu", x.ev, x.ok) \in RspToks("rlcToDu", r, m.ue)
      BY <2>1 DEF RspToks
    <3>2. QED
      BY <1>3, <1>6, <3>1, Places
  <2>2. QED
    BY <1>6, <2>1, PutInOrder
<1>7. QED
  BY <1>2, <1>4, <1>5, <1>6 DEF t

LEMMA RlcPutRspOthers ==
    ASSUME NEW S, NEW r \in Seq(S), NEW m \in S, NEW dl, NEW q, NEW tmr, NEW uq, NEW uc
    PROVE  \A i : i # Ue(m) => RlcToks(dl, q, tmr, uq, uc, Put(r, m), i) = RlcToks(dl, q, tmr, uq, uc, r, i)
<1> USE DEF First, Rest, Put, With, Without, Ue, Ev, Ok
<1>1. \A i : m.ue # i => RspToks("rlcToDu", Append(r, m), i) = RspToks("rlcToDu", r, i)
  BY PutRspOthers
<1>2. QED
  BY <1>1 DEF RlcToks

LEMMA RlcTakeDl ==
    ASSUME NEW S, NEW dl \in Seq(S), dl # <<>>, IsInjective(dl),
           NEW q, NEW tmr, NEW uq, NEW uc, NEW r
    PROVE  /\ First(dl) \in S /\ Rest(dl) \in Seq(S) /\ IsInjective(Rest(dl))
           /\ \A i : i # First(dl) => RlcToks(Rest(dl), q, tmr, uq, uc, r, i) = RlcToks(dl, q, tmr, uq, uc, r, i)
           /\ RlcToks(Rest(dl), q, tmr, uq, uc, r, First(dl)) =
                    Without(RlcToks(dl, q, tmr, uq, uc, r, First(dl)), ReqTok("duToRlcDl", "DL_RRC"))
           /\ ReqTok("duToRlcDl", "DL_RRC") \in RlcToks(dl, q, tmr, uq, uc, r, First(dl))
<1> USE DEF First, Rest, Put, With, Without
<1> DEFINE t == ReqTok("duToRlcDl", "DL_RRC")
<1>1. /\ Head(dl) \in S /\ Tail(dl) \in Seq(S) /\ IsInjective(Tail(dl))
      /\ ToSet(dl) = ToSet(Tail(dl)) \union {Head(dl)} /\ Head(dl) \notin ToSet(Tail(dl))
  BY TailToSet
<1>2. t.at = "duToRlcDl"
  BY Places
<1> HIDE DEF t
<1>3. /\ DlToks(dl, Head(dl)) = {t} /\ DlToks(Tail(dl), Head(dl)) = {}
      /\ \A i : i # Head(dl) => DlToks(Tail(dl), i) = DlToks(dl, i)
  BY <1>1 DEF DlToks, t
<1>4. RlcToks(Tail(dl), q, tmr, uq, uc, r, Head(dl)) = RlcToks(dl, q, tmr, uq, uc, r, Head(dl)) \ {t}
  BY <1>2, <1>3, Places DEF RlcToks
<1>5. QED
  BY <1>1, <1>3, <1>4 DEF RlcToks, t

LEMMA RlcPutDl ==
    ASSUME NEW S, NEW dl \in Seq(S), NEW m \in S,
           NEW q, NEW tmr, NEW uq, NEW uc, NEW r
    PROVE  /\ Put(dl, m) \in Seq(S)
           /\ IsInjective(dl) /\ (\A x \in RlcToks(dl, q, tmr, uq, uc, r, m) : x.at # "duToRlcDl") =>
                IsInjective(Put(dl, m))
           /\ \A i : i # m => RlcToks(Put(dl, m), q, tmr, uq, uc, r, i) = RlcToks(dl, q, tmr, uq, uc, r, i)
           /\ RlcToks(Put(dl, m), q, tmr, uq, uc, r, m) =
                    With(RlcToks(dl, q, tmr, uq, uc, r, m), ReqTok("duToRlcDl", "DL_RRC"))
<1> USE DEF First, Rest, Put, With, Without
<1> DEFINE t == ReqTok("duToRlcDl", "DL_RRC")
<1>1. /\ Append(dl, m) \in Seq(S) /\ ToSet(Append(dl, m)) = ToSet(dl) \union {m}
      /\ IsInjective(dl) /\ m \notin ToSet(dl) => IsInjective(Append(dl, m))
  BY AppendToSet
<1>2. t.at = "duToRlcDl"
  BY Places
<1> HIDE DEF t
<1>3. /\ DlToks(Append(dl, m), m) = {t} /\ (m \in ToSet(dl) => t \in DlToks(dl, m))
      /\ \A i : DlToks(dl, i) \subseteq {t}
      /\ \A i : i # m => DlToks(Append(dl, m), i) = DlToks(dl, i)
  BY <1>1 DEF DlToks, t
<1>4. RlcToks(Append(dl, m), q, tmr, uq, uc, r, m) = RlcToks(dl, q, tmr, uq, uc, r, m) \union {t}
  BY <1>3 DEF RlcToks
<1>5. QED
  BY <1>1, <1>2, <1>3, <1>4 DEF RlcToks, t

LEMMA RlcSetTmr ==
    ASSUME NEW tmr, NEW m, NEW dl, NEW q, NEW uq, NEW uc, NEW r
    PROVE  /\ RlcToks(dl, q, With(tmr, m), uq, uc, r, m) =
                    With(RlcToks(dl, q, tmr, uq, uc, r, m), ReqTok("ueDelTmr", "DELETE"))
           /\ RlcToks(dl, q, Without(tmr, m), uq, uc, r, m) =
                    Without(RlcToks(dl, q, tmr, uq, uc, r, m), ReqTok("ueDelTmr", "DELETE"))
           /\ m \in tmr => ReqTok("ueDelTmr", "DELETE") \in RlcToks(dl, q, tmr, uq, uc, r, m)
<1> USE DEF First, Rest, Put, With, Without
<1> DEFINE t == ReqTok("ueDelTmr", "DELETE")
<1>1. t.at = "ueDelTmr"
  BY Places
<1> HIDE DEF t
<1>2. /\ TmrToks(tmr \union {m}, m) = {t} /\ TmrToks(tmr \ {m}, m) = {}
      /\ (m \in tmr => t \in TmrToks(tmr, m)) /\ TmrToks(tmr, m) \subseteq {t}
      /\ \A i : i # m => /\ TmrToks(tmr \union {m}, i) = TmrToks(tmr, i)
                         /\ TmrToks(tmr \ {m}, i) = TmrToks(tmr, i)
  BY DEF TmrToks, t
<1>3. RlcToks(dl, q, tmr \union {m}, uq, uc, r, m) = RlcToks(dl, q, tmr, uq, uc, r, m) \union {t}
  BY <1>2 DEF RlcToks
<1>4. RlcToks(dl, q, tmr \ {m}, uq, uc, r, m) = RlcToks(dl, q, tmr, uq, uc, r, m) \ {t}
  <2>1. /\ t \notin DlToks(dl, m) /\ t \notin ReqToks("duToRlc", q, m)
        /\ t \notin UdxToks("udxReq", uq, m) /\ t \notin UdxToks("udxCfm", uc, m)
        /\ t \notin RspToks("rlcToDu", r, m) /\ t \notin TmrToks(tmr \ {m}, m)
    BY <1>1, <1>2, Places
  <2>2. TmrToks(tmr, m) \ {t} = TmrToks(tmr \ {m}, m)
    BY <1>2
  <2>3. QED
    BY <2>1, <2>2 DEF RlcToks
<1>5. QED
  BY <1>2, <1>3, <1>4 DEF RlcToks, t

LEMMA RlcSetTmrOthers ==
    ASSUME NEW tmr, NEW m, NEW dl, NEW q, NEW uq, NEW uc, NEW r
    PROVE  \A i : i # m => RlcToks(dl, q, With(tmr, m), uq, uc, r, i) = RlcToks(dl, q, tmr, uq, uc, r, i)
<1>1. \A i : i # m => TmrToks(With(tmr, m), i) = TmrToks(tmr, i)
  BY DEF TmrToks, With
<1>2. QED
  BY <1>1 DEF RlcToks

LEMMA RlcStopTmrOthers ==
    ASSUME NEW tmr, NEW m, NEW dl, NEW q, NEW uq, NEW uc, NEW r
    PROVE  \A i : i # m => RlcToks(dl, q, Without(tmr, m), uq, uc, r, i) = RlcToks(dl, q, tmr, uq, uc, r, i)
<1>1. \A i : i # m => TmrToks(Without(tmr, m), i) = TmrToks(tmr, i)
  BY DEF TmrToks, Without
<1>2. QED
  BY <1>1 DEF RlcToks

LEMMA PutToSet ==
    ASSUME NEW S, NEW q \in Seq(S), NEW m \in S
    PROVE  ToSet(Put(q, m)) = ToSet(q) \union {m} /\ Put(q, m) \in Seq(S)
BY AppendToSet DEF Put

LEMMA RestToSet ==
    ASSUME NEW S, NEW q \in Seq(S), q # <<>>
    PROVE  /\ First(q) \in S /\ First(q) \in ToSet(q)
           /\ ToSet(Rest(q)) \subseteq ToSet(q) /\ Rest(q) \in Seq(S)
BY TailToSet DEF First, Rest

-----------------------------------------------------------------------------
(* The messages under way about UE i.                                        *)

InRlc(i) == RlcToks(duToRlcDl, duToRlc, ueDelTmr, udxReq, udxCfm, rlcToDu, i)
InMac(i) == MacToks(duToMac, macToDu, i)

One(S) == \A s, t \in S : s = t
OnePerEv(S) == \A s, t \in S : s.ev = t.ev => s = t

\* The layers have nothing of UE i.
RlcEmpty(i) == i \notin rlcUlUe /\ rlcUlRb[i] = {} /\ rlcDlRb[i] = {}
MacEmpty(i) == macUe[i] = "NONE" /\ schUe[i] = "NONE" /\ macLc[i] = {} /\ schLc[i] = {}
NoRa(i) == i \notin macRaCb /\ i \notin msg4Pdu
NoCfra(i) == i \notin macCfra /\ i \notin schPreamble

Unused(i) ==
    /\ ueCb[i] = NoUeCb /\ RlcEmpty(i) /\ MacEmpty(i) /\ NoRa(i) /\ NoCfra(i)
    /\ InRlc(i) = {} /\ InMac(i) = {}

-----------------------------------------------------------------------------
(* What there is of UE i in each phase of its life.                          *)

New(i) ==
    /\ ueCb[i] = NoUeCb /\ RlcEmpty(i) /\ MacEmpty(i) /\ NoCfra(i)
    /\ i \in macRaCb /\ i \notin msg4Pdu /\ i \notin schMsg4Done
    /\ InRlc(i) = {}

Accessing(i) ==
    /\ New(i)
    /\ One(InMac(i)) /\ \A t \in InMac(i) : t.at = "macToDu" /\ t.ev = "UL_CCCH"

Initial(i) == New(i) /\ InMac(i) = {}

\* The DU application awaits nothing.
Idle(i, st) == ueCb[i].state = st /\ ueCb[i].db = NoDb

\* The UE is created in RLC and in MAC while MSG4 is sent.
Connecting(i) ==
    /\ Idle(i, "ACTIVE") /\ NoCfra(i) /\ macUe[i] # "HANDIN"
    /\ One(InRlc(i))
    /\ \A t \in InRlc(i) : t.ev = "CREATE" /\ (rlcUlRb[i] # {} => t.at = "rlcToDu")
    /\ OnePerEv(InMac(i))
    /\ \A t \in InMac(i) :
        /\ t.ev \in {"DL_CCCH", "CREATE"}
        /\ t.ev = "DL_CCCH" => t.at = "duToMac" /\ i \in macRaCb /\ i \notin msg4Pdu
        /\ t.ev = "CREATE" /\ t.at = "duToMac" => macUe[i] = "NONE"
    /\ IF i \in macRaCb THEN i \notin schMsg4Done ELSE macUe[i] = "ACTIVE" /\ i \notin msg4Pdu

\* MAC's response to the creation may still be under way.
Late(i) == One(InMac(i)) /\ \A t \in InMac(i) : t.ev = "CREATE" /\ t.at = "macToDu"
Est(i) == NoCfra(i) /\ NoRa(i) /\ macUe[i] # "HANDIN"

Completing(i) ==
    /\ Est(i) /\ Idle(i, "ACTIVE") /\ Late(i)
    /\ OnePerEv(InRlc(i)) /\ \A t \in InRlc(i) : t.at = "rlcToDu" /\ t.ev \in {"CREATE", "UL_RRC"}

Connected(i) == Est(i) /\ Idle(i, "ACTIVE") /\ Late(i) /\ InRlc(i) = {}

\* An RRC message is sent first.
Waiting(i) ==
    /\ Late(i) /\ One(InRlc(i))
    /\ \A t \in InRlc(i) : t.ev = "DL_RRC" /\ t.at \in {"duToRlcDl", "rlcToDu"}

Running(i) ==
    /\ One(InRlc(i)) /\ \A t \in InRlc(i) : t.ev = "RECONFIG"
    /\ OnePerEv(InMac(i))
    /\ \A t \in InMac(i) : t.ev \in {"CREATE", "RECONFIG"} /\ (t.ev = "CREATE" => t.at = "macToDu")
    /\ ueCb[i].rlc = "RECFG_COMPLETE" => InRlc(i) = {}
    /\ ueCb[i].mac = "RECFG_COMPLETE" => InMac(i) = {}

Asked(i) ==
    /\ Est(i) /\ ueCb[i].state = "ACTIVE"
    /\ ueCb[i].db.act \in {"SETUP", "MOD"} /\ ueCb[i].db.op # "STOP"
    /\ Waiting(i) \/ Running(i)

Ready(i) == Est(i) /\ Idle(i, "ACTIVE") /\ InRlc(i) = {} /\ InMac(i) = {}

DeletingInRlc(i) ==
    /\ ueCb[i].state = "DELETION" /\ Late(i) /\ One(InRlc(i))
    /\ \A t \in InRlc(i) :
        /\ t.ev = "DELETE"
        /\ t.at = "ueDelTmr" => i \in rlcUlUe
        /\ t.at \in {"udxReq", "udxCfm"} => t.ok
        /\ t.at = "udxCfm" => rlcDlRb[i] = {}
        /\ t.at = "rlcToDu" /\ t.ok => RlcEmpty(i)

DeletingInMac(i) ==
    /\ ueCb[i].state = "DELETION" /\ ueCb[i].rlc = "DELETE_COMPLETE"
    /\ RlcEmpty(i) /\ InRlc(i) = {}
    /\ OnePerEv(InMac(i))
    /\ \A t \in InMac(i) :
        /\ t.ev \in {"CREATE", "DELETE"}
        /\ t.ev = "CREATE" => t.at = "macToDu"
        /\ t.ev = "DELETE" /\ t.at = "macToDu" /\ t.ok => MacEmpty(i)

Releasing(i) ==
    /\ Est(i)
    /\ \/ Waiting(i) /\ ueCb[i].state = "ACTIVE" /\ ueCb[i].db.act = "RELEASE"
       \/ DeletingInRlc(i)
       \/ DeletingInMac(i)

Hand(i) ==
    /\ NoRa(i) /\ macUe[i] # "ACTIVE"
    /\ i \in macCfra <=> i \in schPreamble
    /\ i \in macCfra => macUe[i] # "NONE"

Creating(i) ==
    /\ One(InRlc(i)) /\ \A t \in InRlc(i) : t.ev = "CREATE"
    /\ One(InMac(i)) /\ \A t \in InMac(i) : t.ev = "CREATE"
    /\ ueCb[i].rlc = "CREATE_COMPLETE" => InRlc(i) = {} /\ ueCb[i].mac # "CREATE_COMPLETE"
    /\ ueCb[i].mac = "CREATE_COMPLETE" => InMac(i) = {}

Preambles(i) ==
    /\ InRlc(i) = {} /\ One(InMac(i))
    /\ \A t \in InMac(i) : \/ t.at = "duToMac" /\ t.ev = "RACH_REQ"
                           \/ t.at = "macToDu" /\ t.ev = "RACH"

HandingIn(i) ==
    /\ Hand(i) /\ ueCb[i].state = "HANDIN" /\ ueCb[i].db.act = "SETUP"
    /\ Creating(i) \/ Preambles(i)

Arriving(i) == Hand(i) /\ Idle(i, "HANDIN") /\ InRlc(i) = {} /\ InMac(i) = {}

Arrived(i) ==
    /\ Hand(i) /\ Idle(i, "HANDIN") /\ InMac(i) = {}
    /\ One(InRlc(i)) /\ \A t \in InRlc(i) : t.ev = "UL_RRC" /\ t.at = "rlcToDu"

HandedIn(i) ==
    /\ Hand(i) /\ Idle(i, "ACTIVE") /\ InRlc(i) = {}
    /\ One(InMac(i)) /\ \A t \in InMac(i) : t.ev = "RACH_REL" /\ t.at = "duToMac"
    /\ InMac(i) = {} => NoCfra(i)

Phase == {"idle", "access", "initial", "connecting", "completing", "connected", "asked",
          "ready", "releasing", "handin", "arriving"}

InPhase(c, ph, i) ==
    /\ ph \in {"access", "initial", "connected", "asked", "releasing"} => c \in Access
    /\ ph \in {"handin", "arriving"} => c \in HandIn
    /\ ph \notin {"idle", "access", "initial"} => ueCb[i].cu = c
    /\ ph = "access" => Accessing(i)
    /\ ph = "initial" => Initial(i)
    /\ ph = "connecting" => IF c \in Access THEN Connecting(i) ELSE Arriving(i)
    /\ ph = "completing" => IF c \in Access THEN Completing(i) ELSE Arrived(i)
    /\ ph = "connected" => Connected(i)
    /\ ph = "asked" => Asked(i)
    /\ ph = "ready" => IF c \in Access THEN Ready(i) ELSE HandedIn(i)
    /\ ph = "releasing" => Releasing(i)
    /\ ph = "handin" => HandingIn(i)
    /\ ph = "arriving" => Arriving(i)

-----------------------------------------------------------------------------
(* The inductive invariant.                                                  *)

RspMsg(evs) == [ev : evs, ue : Id, ok : BOOLEAN]
DuToMac == [ev : {"DL_CCCH", "CREATE", "RECONFIG", "DELETE", "RACH_REQ", "RACH_REL"}, ue : Id,
            op : {"ADD", "MODIFY", "DEL"}, lcs : SUBSET Rb]
MacToDu == RspMsg({"UL_CCCH", "CREATE", "RECONFIG", "DELETE", "RACH"})
RlcToDu == RspMsg(RlcEvent \union {"DL_RRC", "UL_RRC"})
UdxReq == [req : RlcReq, ueOk : BOOLEAN, valid : SUBSET Rb]
UdxCfm == [req : RlcReq, ueOk : BOOLEAN, done : SUBSET Rb]

RlcTypes ==
    /\ duToRlc \in Seq(RlcReq) /\ \A m \in ToSet(duToRlc) : m.op # "DEL_UE"
    /\ udxReq \in Seq(UdxReq) /\ udxCfm \in Seq(UdxCfm)
    /\ rlcToDu \in Seq(RlcToDu) /\ duToRlcDl \in Seq(Id)
    /\ rlcUlUe \subseteq Id /\ ueDelTmr \subseteq Id
    /\ rlcUlRb \in [Id -> SUBSET Rb] /\ rlcDlRb \in [Id -> SUBSET Rb]
    /\ rlcUlUdxEventType \in RlcEvent

MacTypes ==
    /\ duToMac \in Seq(DuToMac) /\ macToDu \in Seq(MacToDu)
    /\ macUe \in [Id -> {"NONE", "ACTIVE", "HANDIN"}]
    /\ schUe \in [Id -> {"NONE", "ACTIVE", "HANDIN"}]
    /\ macLc \in [Id -> SUBSET Rb] /\ schLc \in [Id -> SUBSET Rb]
    /\ UNION {ueBitMap, macRaCb, msg4Pdu, macCfra, schTcrnti, schMsg4Done, schPreamble} \subseteq Id

DuTypes ==
    /\ ueCb \in [Id -> UeCb]
    /\ ueCcchCtxt \in [0 .. MaxNumUe - 1 -> Id \union {0}]
    /\ cuUe \in [CuUe -> [ph : Phase, id : Id \union {0}, rbs : SUBSET Rb]]

Types == RlcTypes /\ MacTypes /\ DuTypes

Queues ==
    /\ Distinct(duToRlc) /\ Distinct(rlcToDu) /\ Distinct(duToMac) /\ Distinct(macToDu)
    /\ UdxDistinct(udxReq) /\ UdxDistinct(udxCfm) /\ IsInjective(duToRlcDl)
    /\ CreateFirst(macToDu) /\ UlRrcLast(rlcToDu)

\* One kind of request at a time is between the halves of RLC.
Events ==
    \A u \in ToSet(udxReq) \union ToSet(udxCfm) :
        /\ u.req.ev = rlcUlUdxEventType
        /\ u.req.ev = "DELETE" <=> u.req.op = "DEL_UE"

\* At most one UE awaits its RRC Setup, and ueCcchCtxt knows it.
Ccch ==
    /\ \A c, d \in CuUe :
        cuUe[c].ph \in {"access", "initial"} /\ cuUe[d].ph \in {"access", "initial"} => c = d
    /\ numUe \in {0, 1}
    /\ numUe = 1 => \E c \in CuUe : cuUe[c].ph = "initial"
    /\ \A c \in CuUe : cuUe[c].ph = "initial" => numUe = 1 /\ ueCcchCtxt[0] = cuUe[c].id

\* Who has which id.
Owners ==
    /\ \A c, d \in CuUe : cuUe[c].id = cuUe[d].id /\ cuUe[c].id # 0 => c = d
    /\ \A i \in ueBitMap : \E c \in CuUe : cuUe[c].id = i
    /\ \A c \in CuUe : cuUe[c].ph = "idle" <=> cuUe[c].id = 0
    /\ \A c \in CuUe : cuUe[c].id # 0 => cuUe[c].id \in ueBitMap

Lives ==
    /\ \A i \in Id \ ueBitMap : Unused(i)
    /\ \A c \in CuUe : InPhase(c, cuUe[c].ph, cuUe[c].id)

Core == Types /\ Queues /\ Events /\ Ccch /\ Owners /\ Lives /\ ~nullDb

DuInv == Core /\ ActvUesAreCounted

-----------------------------------------------------------------------------
(* A step that leaves alone what there is of UE i.                           *)

SameRlc(i) ==
    /\ InRlc(i)' = InRlc(i)
    /\ (i \in rlcUlUe') = (i \in rlcUlUe)
    /\ rlcUlRb'[i] = rlcUlRb[i] /\ rlcDlRb'[i] = rlcDlRb[i]
SameMac(i) ==
    /\ InMac(i)' = InMac(i)
    /\ macUe'[i] = macUe[i] /\ schUe'[i] = schUe[i]
    /\ macLc'[i] = macLc[i] /\ schLc'[i] = schLc[i]
    /\ (i \in macRaCb') = (i \in macRaCb) /\ (i \in msg4Pdu') = (i \in msg4Pdu)
    /\ (i \in schMsg4Done') = (i \in schMsg4Done)
    /\ (i \in macCfra') = (i \in macCfra) /\ (i \in schPreamble') = (i \in schPreamble)
Same(i) == SameRlc(i) /\ SameMac(i) /\ ueCb'[i] = ueCb[i]

LEMMA RlcUnchanged == UNCHANGED <<rlcVars, duToRlcDl>> => \A i : SameRlc(i)
BY DEF rlcVars, SameRlc, InRlc

LEMMA MacUnchanged == UNCHANGED macVars => \A i : SameMac(i)
BY DEF macVars, raVars, macUeVars, SameMac, InMac

LEMMA UnusedFrame ==
    ASSUME NEW i, Same(i), Unused(i)
    PROVE  Unused(i)'
BY DEF Same, SameRlc, SameMac, Unused, RlcEmpty, MacEmpty, NoRa, NoCfra

LEMMA Frame ==
    ASSUME NEW c, NEW ph, NEW i, Same(i), InPhase(c, ph, i)
    PROVE  InPhase(c, ph, i)'
<1> USE DEF Same, SameRlc, SameMac, One, OnePerEv, RlcEmpty, MacEmpty, NoRa, NoCfra, Idle, Est, Late, Hand
<1>1. New(i) => New(i)'
  BY DEF New
<1>2. Accessing(i) => Accessing(i)'
  BY <1>1 DEF Accessing
<1>3. Initial(i) => Initial(i)'
  BY <1>1 DEF Initial
<1>4. Connecting(i) => Connecting(i)'
  BY DEF Connecting
<1>5. Completing(i) => Completing(i)'
  BY DEF Completing
<1>6. Connected(i) => Connected(i)'
  BY DEF Connected
<1>7. Asked(i) => Asked(i)'
  BY DEF Asked, Waiting, Running
<1>8. Ready(i) => Ready(i)'
  BY DEF Ready
<1>9. Releasing(i) => Releasing(i)'
  <2>1. DeletingInRlc(i) => DeletingInRlc(i)'
    BY DEF DeletingInRlc
  <2>2. DeletingInMac(i) => DeletingInMac(i)'
    BY DEF DeletingInMac
  <2>3. QED
    BY <2>1, <2>2 DEF Releasing, Waiting
<1>10. HandingIn(i) => HandingIn(i)'
  BY DEF HandingIn, Creating, Preambles
<1>11. Arriving(i) => Arriving(i)'
  BY DEF Arriving
<1>12. Arrived(i) => Arrived(i)'
  BY DEF Arrived
<1>13. HandedIn(i) => HandedIn(i)'
  BY DEF HandedIn
<1>14. ueCb[i].cu = ueCb'[i].cu
  BY DEF Same
<1> HIDE DEF Same, SameRlc, SameMac, One, OnePerEv, RlcEmpty, MacEmpty, NoRa, NoCfra, Idle, Est, Late, Hand
<1>15. QED
  BY <1>1, <1>2, <1>3, <1>4, <1>5, <1>6, <1>7, <1>8, <1>9, <1>10, <1>11, <1>12, <1>13, <1>14
     DEF InPhase

\* A UE that there is anything of has an owner.
LEMMA Owner ==
    ASSUME Core, NEW i \in Id, ~Unused(i)
    PROVE  /\ i \in ueBitMap
           /\ \E c \in CuUe : /\ cuUe[c].id = i /\ cuUe[c].ph # "idle" /\ cuUe[c].ph \in Phase
                              /\ InPhase(c, cuUe[c].ph, i)
                              /\ \A d \in CuUe : cuUe[d].id = i => d = c
<1>1. i \in ueBitMap
  BY DEF Core, Lives
<1>2. PICK c \in CuUe : cuUe[c].id = i
  BY <1>1 DEF Core, Owners
<1>3. i # 0
  BY MaxNumUeAssumption, SMT DEF Id
<1>4. cuUe[c].ph # "idle" /\ \A d \in CuUe : cuUe[d].id = i => d = c
  BY <1>2, <1>3 DEF Core, Owners
<1>5. cuUe[c].ph \in Phase
  BY DEF Core, Types, DuTypes
<1>6. InPhase(c, cuUe[c].ph, i)
  BY <1>2 DEF Core, Lives
<1>7. QED
  BY <1>1, <1>2, <1>4, <1>5, <1>6

\* A step that is only about UE i, which is c's.
AtOne(c, i) ==
    /\ cuUe[c].id = i /\ i \in Id
    /\ cuUe'[c].id = i /\ cuUe'[c].ph # "idle"
    /\ \A d \in CuUe \ {c} : cuUe'[d] = cuUe[d]
    /\ ueBitMap' = ueBitMap
    /\ \A j \in Id \ {i} : Same(j)

LEMMA OwnersAtOne ==
    ASSUME Core, NEW c \in CuUe, NEW i, AtOne(c, i), InPhase(c, cuUe[c].ph, i)'
    PROVE  Owners' /\ Lives'
<1>1. i \in Id /\ i # 0 /\ i \in ueBitMap /\ ueBitMap \subseteq Id
  BY MaxNumUeAssumption, SMT DEF Id, AtOne, Core, Owners, Types, MacTypes
<1>2. \A d \in CuUe : cuUe'[d].id = cuUe[d].id /\ (cuUe'[d].ph = "idle" <=> cuUe[d].ph = "idle")
  BY <1>1 DEF AtOne, Core, Owners
<1>3. Owners'
  BY <1>2 DEF Owners, Core, AtOne
<1>4. ASSUME NEW j \in Id \ ueBitMap'
      PROVE  Unused(j)'
  BY <1>1, UnusedFrame DEF AtOne, Core, Lives
<1>5. ASSUME NEW d \in CuUe
      PROVE  InPhase(d, cuUe[d].ph, cuUe[d].id)'
  <2>1. CASE d = c
    BY <2>1 DEF AtOne
  <2>2. CASE d # c
    <3>1. cuUe'[d] = cuUe[d] /\ cuUe[d].id # i
      BY <1>1, <2>2 DEF AtOne, Core, Owners
    <3>2. CASE cuUe[d].id \in Id
      <4>1. Same(cuUe[d].id) /\ InPhase(d, cuUe[d].ph, cuUe[d].id)
        BY <3>1, <3>2 DEF AtOne, Core, Lives
      <4>2. QED
        BY <3>1, <4>1, Frame
    <3>3. CASE cuUe[d].id \notin Id
      <4>1. cuUe[d].ph = "idle"
        BY <3>3, <1>1 DEF Core, Owners
      <4>2. QED
        BY <3>1, <4>1 DEF InPhase
    <3>4. QED
      BY <3>2, <3>3
  <2>3. QED
    BY <2>1, <2>2
<1>6. QED
  BY <1>3, <1>4, <1>5 DEF Lives

-----------------------------------------------------------------------------
(* Which phase a message belongs to.                                         *)

LEMMA MacPlaces == \A i : \A t \in InMac(i) : t.at \in {"duToMac", "macToDu"}
BY Places DEF InMac, MacToks

LEMMA RlcPlaces ==
    \A i : \A t \in InRlc(i) :
        t.at \in {"duToRlcDl", "duToRlc", "ueDelTmr", "udxReq", "udxCfm", "rlcToDu"}
BY Places DEF InRlc, RlcToks

LEMMA OnePer ==
    ASSUME NEW c, NEW ph \in Phase, NEW i, ph # "idle", InPhase(c, ph, i)
    PROVE  OnePerEv(InRlc(i)) /\ OnePerEv(InMac(i))
<1> USE DEF One, OnePerEv
<1>1. CASE ph = "access"
  BY <1>1 DEF InPhase, Accessing, New
<1>2. CASE ph = "initial"
  BY <1>2 DEF InPhase, Initial, New
<1>3. CASE ph = "connecting"
  BY <1>3 DEF InPhase, Connecting, Arriving
<1>4. CASE ph = "completing"
  BY <1>4 DEF InPhase, Completing, Arrived, Late
<1>5. CASE ph = "connected"
  BY <1>5 DEF InPhase, Connected, Late
<1>6. CASE ph = "asked"
  BY <1>6 DEF InPhase, Asked, Waiting, Running, Late
<1>7. CASE ph = "ready"
  BY <1>7 DEF InPhase, Ready, HandedIn
<1>8. CASE ph = "releasing"
  BY <1>8 DEF InPhase, Releasing, DeletingInRlc, DeletingInMac, Waiting, Late
<1>9. CASE ph = "handin"
  BY <1>9 DEF InPhase, HandingIn, Creating, Preambles
<1>10. CASE ph = "arriving"
  BY <1>10 DEF InPhase, Arriving
<1>11. QED
  BY <1>1, <1>2, <1>3, <1>4, <1>5, <1>6, <1>7, <1>8, <1>9, <1>10 DEF Phase

LEMMA MacWho ==
    ASSUME NEW c, NEW ph \in Phase, NEW i, ph # "idle", InPhase(c, ph, i), NEW t \in InMac(i)
    PROVE  \/ t.ev = "UL_CCCH" /\ t.at = "macToDu" /\ ph = "access"
           \/ t.ev = "DL_CCCH" /\ ph = "connecting" /\ c \in Access /\ Connecting(i)
           \/ /\ t.ev = "CREATE"
              /\ \/ ph = "connecting" /\ c \in Access /\ Connecting(i)
                 \/ /\ t.at = "macToDu"
                    /\ \/ ph = "completing" /\ c \in Access
                       \/ ph \in {"connected", "asked", "releasing"}
                 \/ ph = "handin" /\ Creating(i)
           \/ t.ev = "RECONFIG" /\ ph = "asked" /\ Running(i)
           \/ t.ev = "DELETE" /\ ph = "releasing" /\ DeletingInMac(i)
           \/ t.ev = "RACH_REQ" /\ t.at = "duToMac" /\ ph = "handin" /\ Preambles(i)
           \/ t.ev = "RACH" /\ t.at = "macToDu" /\ ph = "handin" /\ Preambles(i)
           \/ t.ev = "RACH_REL" /\ t.at = "duToMac" /\ ph = "ready" /\ HandedIn(i)
<1>1. CASE ph = "access"
  BY <1>1 DEF InPhase, Accessing
<1>2. CASE ph = "initial"
  BY <1>2 DEF InPhase, Initial
<1>3. CASE ph = "connecting"
  <2>1. IF c \in Access THEN Connecting(i) ELSE Arriving(i)
    BY <1>3 DEF InPhase
  <2>2. QED
    BY <1>3, <2>1 DEF Connecting, Arriving
<1>4. CASE ph = "completing"
  BY <1>4 DEF InPhase, Completing, Arrived, Late
<1>5. CASE ph = "connected"
  BY <1>5 DEF InPhase, Connected, Late
<1>6. CASE ph = "asked"
  BY <1>6 DEF InPhase, Asked, Waiting, Running, Late
<1>7. CASE ph = "ready"
  <2>1. IF c \in Access THEN Ready(i) ELSE HandedIn(i)
    BY <1>7 DEF InPhase
  <2>2. QED
    BY <1>7, <2>1 DEF Ready, HandedIn
<1>8. CASE ph = "releasing"
  <2>1. Releasing(i)
    BY <1>8 DEF InPhase
  <2>2. CASE DeletingInMac(i)
    BY <1>8, <2>2 DEF DeletingInMac
  <2>3. CASE ~DeletingInMac(i)
    BY <1>8, <2>1, <2>3 DEF Releasing, DeletingInRlc, Waiting, Late
  <2>4. QED
    BY <2>2, <2>3
<1>9. CASE ph = "handin"
  <2>1. HandingIn(i)
    BY <1>9 DEF InPhase
  <2>2. QED
    BY <1>9, <2>1 DEF HandingIn, Creating, Preambles
<1>10. CASE ph = "arriving"
  BY <1>10 DEF InPhase, Arriving
<1>11. QED
  BY <1>1, <1>2, <1>3, <1>4, <1>5, <1>6, <1>7, <1>8, <1>9, <1>10 DEF Phase

LEMMA RlcWho ==
    ASSUME NEW c, NEW ph \in Phase, NEW i, ph # "idle", InPhase(c, ph, i), NEW t \in InRlc(i)
    PROVE  \/ t.ev = "UL_RRC" /\ t.at = "rlcToDu" /\ ph = "completing"
           \/ /\ t.ev = "DL_RRC" /\ t.at \in {"duToRlcDl", "rlcToDu"}
              /\ ph \in {"asked", "releasing"} /\ Waiting(i)
           \/ /\ t.ev = "CREATE"
              /\ \/ ph = "connecting" /\ c \in Access /\ Connecting(i)
                 \/ ph = "completing" /\ c \in Access /\ t.at = "rlcToDu"
                 \/ ph = "handin" /\ Creating(i)
           \/ t.ev = "RECONFIG" /\ ph = "asked" /\ Running(i)
           \/ t.ev = "DELETE" /\ ph = "releasing" /\ DeletingInRlc(i)
<1>1. CASE ph = "access"
  BY <1>1 DEF InPhase, Accessing, New
<1>2. CASE ph = "initial"
  BY <1>2 DEF InPhase, Initial, New
<1>3. CASE ph = "connecting"
  <2>1. IF c \in Access THEN Connecting(i) ELSE Arriving(i)
    BY <1>3 DEF InPhase
  <2>2. QED
    BY <1>3, <2>1 DEF Connecting, Arriving
<1>4. CASE ph = "completing"
  BY <1>4 DEF InPhase, Completing, Arrived
<1>5. CASE ph = "connected"
  BY <1>5 DEF InPhase, Connected
<1>6. CASE ph = "asked"
  <2>1. Asked(i)
    BY <1>6 DEF InPhase
  <2>2. CASE Running(i)
    BY <1>6, <2>2 DEF Running
  <2>3. CASE ~Running(i)
    BY <1>6, <2>1, <2>3 DEF Asked, Waiting
  <2>4. QED
    BY <2>2, <2>3
<1>7. CASE ph = "ready"
  <2>1. IF c \in Access THEN Ready(i) ELSE HandedIn(i)
    BY <1>7 DEF InPhase
  <2>2. QED
    BY <1>7, <2>1 DEF Ready, HandedIn
<1>8. CASE ph = "releasing"
  <2>1. Releasing(i)
    BY <1>8 DEF InPhase
  <2>2. CASE DeletingInRlc(i)
    BY <1>8, <2>2 DEF DeletingInRlc
  <2>3. CASE ~DeletingInRlc(i)
    BY <1>8, <2>1, <2>3 DEF Releasing, DeletingInMac, Waiting
  <2>4. QED
    BY <2>2, <2>3
<1>9. CASE ph = "handin"
  <2>1. HandingIn(i)
    BY <1>9 DEF InPhase
  <2>2. QED
    BY <1>9, <2>1 DEF HandingIn, Creating, Preambles
<1>10. CASE ph = "arriving"
  BY <1>10 DEF InPhase, Arriving
<1>11. QED
  BY <1>1, <1>2, <1>3, <1>4, <1>5, <1>6, <1>7, <1>8, <1>9, <1>10 DEF Phase

\* The owner of what a message is about.
LEMMA MsgOwner ==
    ASSUME Core, NEW i \in Id, InRlc(i) # {} \/ InMac(i) # {}
    PROVE  /\ i \in ueBitMap
           /\ \E c \in CuUe : /\ cuUe[c].id = i /\ cuUe[c].ph # "idle" /\ cuUe[c].ph \in Phase
                              /\ InPhase(c, cuUe[c].ph, i)
                              /\ \A d \in CuUe : cuUe[d].id = i => d = c
BY Owner DEF Unused

\* What a step has to keep besides the counts.
Keeps == Types' /\ Queues' /\ Events' /\ Ccch' /\ Owners' /\ Lives' /\ ~nullDb'

CcchKept ==
    /\ numUe' = numUe /\ ueCcchCtxt' = ueCcchCtxt
    /\ \A c \in CuUe :
        /\ cuUe'[c].ph = "access" <=> cuUe[c].ph = "access"
        /\ cuUe'[c].ph = "initial" <=> cuUe[c].ph = "initial"
        /\ cuUe[c].ph = "initial" => cuUe'[c].id = cuUe[c].id

LEMMA CcchFrame == Core /\ CcchKept => Ccch'
BY DEF Core, CcchKept, Ccch

-----------------------------------------------------------------------------
(* The threads of RLC.                                                       *)

\* What RLC is at work on is all it has about the UE.
LEMMA RlcAlone ==
    ASSUME NEW c, NEW ph \in Phase, NEW i, ph # "idle", InPhase(c, ph, i),
           NEW t \in InRlc(i), t.at \notin {"rlcToDu", "duToRlcDl"} \/ t.ev = "DL_RRC"
    PROVE  InRlc(i) = {t}
<1>1. One(InRlc(i))
  BY RlcWho DEF Connecting, Creating, Running, DeletingInRlc, Waiting
<1>2. QED
  BY <1>1 DEF One

\* What is to be shown of each message of a deletion.
DeletesRlc(t, i) ==
    /\ t.ev = "DELETE"
    /\ t.at = "ueDelTmr" => i \in rlcUlUe
    /\ t.at \in {"udxReq", "udxCfm"} => t.ok
    /\ t.at = "udxCfm" => rlcDlRb[i] = {}
    /\ t.at = "rlcToDu" /\ t.ok => RlcEmpty(i)

LEMMA RlcMoves ==
    ASSUME Core, ByRlc, NEW i \in Id, \A j \in Id \ {i} : SameRlc(j),
           NEW t \in InRlc(i), t.at \notin {"rlcToDu", "duToRlcDl"},
           NEW n, n.ev = t.ev, InRlc(i)' \subseteq {n},
           \/ rlcUlRb'[i] = {} \/ rlcUlRb[i] # {} \/ InRlc(i)' = {} \/ n.at = "rlcToDu",
           t.ev = "DELETE" => \A x \in InRlc(i)' : DeletesRlc(x, i)'
    PROVE  Owners' /\ Lives' /\ Ccch' /\ ~nullDb'
<1>1. PICK c \in CuUe : /\ cuUe[c].id = i /\ cuUe[c].ph # "idle" /\ cuUe[c].ph \in Phase
                        /\ InPhase(c, cuUe[c].ph, i)
                        /\ \A d \in CuUe : cuUe[d].id = i => d = c
  BY MsgOwner
<1>2. InRlc(i) = {t}
  BY <1>1, RlcAlone
<1>3. UNCHANGED macVars /\ UNCHANGED <<ueCb, ueCcchCtxt, numUe, numActvUes, nullDb>> /\ UNCHANGED cuUe
  BY DEF ByRlc, duVars
<1>4. \A j : SameMac(j)
  BY <1>3, MacUnchanged
<1>5. ueBitMap' = ueBitMap
  BY <1>3 DEF macVars, raVars
<1>6. AtOne(c, i)
  BY <1>1, <1>3, <1>4, <1>5 DEF AtOne, Same
<1>7. PICK ph : ph = cuUe[c].ph
  OBVIOUS
<1>8. InPhase(c, ph, i)'
  <2>0. \/ t.ev = "CREATE" /\ ph = "connecting" /\ c \in Access /\ Connecting(i)
        \/ t.ev = "CREATE" /\ ph = "handin" /\ Creating(i)
        \/ t.ev = "RECONFIG" /\ ph = "asked" /\ Running(i)
        \/ t.ev = "DELETE" /\ ph = "releasing" /\ DeletingInRlc(i)
    BY <1>1, <1>7, RlcWho
  <2> USE <1>1, <1>2, <1>3, <1>4, <1>7
  <2>1. CASE t.ev = "CREATE" /\ ph = "connecting" /\ c \in Access /\ Connecting(i)
    <3>1. Connecting(i)'
      BY <2>1 DEF Connecting, SameMac, One, Idle, NoCfra, OnePerEv
    <3>2. QED
      BY <2>1, <3>1 DEF InPhase
  <2>2. CASE t.ev = "CREATE" /\ ph = "handin" /\ Creating(i)
    <3>1. HandingIn(i)'
      BY <2>2 DEF InPhase, HandingIn, Creating, SameMac, One, Hand, NoRa
    <3>2. QED
      BY <2>2, <3>1 DEF InPhase
  <2>3. CASE t.ev = "RECONFIG" /\ ph = "asked" /\ Running(i)
    <3>1. Asked(i)'
      BY <2>3 DEF InPhase, Asked, Running, SameMac, One, OnePerEv, Est, NoRa, NoCfra
    <3>2. QED
      BY <2>3, <3>1 DEF InPhase
  <2>4. CASE t.ev = "DELETE" /\ ph = "releasing" /\ DeletingInRlc(i)
    <3>1. DeletingInRlc(i)'
      BY <2>4 DEF DeletingInRlc, DeletesRlc, SameMac, One, Late
    <3>2. Releasing(i)'
      BY <2>4, <3>1 DEF InPhase, Releasing, SameMac, Est, NoRa, NoCfra
    <3>3. QED
      BY <2>4, <3>2 DEF InPhase
  <2>5. QED
    BY <2>0, <2>1, <2>2, <2>3, <2>4
<1>9. Owners' /\ Lives'
  BY <1>1, <1>3, <1>6, <1>7, <1>8, OwnersAtOne
<1>10. CcchKept
  BY <1>3 DEF CcchKept
<1>11. QED
  BY <1>3, <1>9, <1>10, CcchFrame DEF Core

LEMMA ValidRbsType ==
    \A op \in RlcOp : \A rbs, present : ValidRbs(op, rbs, present) \subseteq rbs
BY DEF ValidRbs, RlcOp

LEMMA AppliedType ==
    \A op \in RlcOp : \A rbs, present \in SUBSET Rb : Applied(op, rbs, present) \in SUBSET Rb
BY DEF Applied, RlcOp

LEMMA InRlcIs == \A j : InRlc(j) = RlcToks(duToRlcDl, duToRlc, ueDelTmr, udxReq, udxCfm, rlcToDu, j)
BY DEF InRlc

LEMMA InMacIs == \A j : InMac(j) = MacToks(duToMac, macToDu, j)
BY DEF InMac

\* RLC takes the one message that is under way about UE i and lets at most one
\* follow it, of the same event; nothing changes for the others.
RlcStep(i, from, to) ==
    /\ i \in Id /\ \A j \in Id \ {i} : SameRlc(j)
    /\ \E t, n : /\ InRlc(i) = {t} /\ t.at = from
                 /\ InRlc(i)' \subseteq {n} /\ n.at = to /\ n.ev = t.ev
                 /\ to \in {"udxReq", "udxCfm"} => InRlc(i)' = {n}

LEMMA UeCfgReqKeeps ==
    ASSUME Core, ~Overlap, ByRlc, RlcUeCfgReq
    PROVE  Keeps /\ RlcStep(Head(duToRlc).ue, "duToRlc", "udxReq")
<1>1. PICK r, i, t, ueOk, u, n :
        /\ r = First(duToRlc) /\ i = r.ue /\ t = ReqTok("duToRlc", r.ev)
        /\ ueOk = (i \in rlcUlUe)
        /\ u = [req |-> r, ueOk |-> ueOk, valid |-> ValidRbs(r.op, r.rbs, rlcUlRb[i])]
        /\ n = Tok("udxReq", r.ev, ueOk)
  OBVIOUS
<1> DEFINE Mid(j) == RlcToks(duToRlcDl, Rest(duToRlc), ueDelTmr, udxReq, udxCfm, rlcToDu, j)
<1>0. i = Ue(First(duToRlc)) /\ t = ReqTok("duToRlc", Ev(First(duToRlc)))
  BY <1>1 DEF Ue, Ev
<1>2. /\ duToRlc # <<>> /\ r.ev # "DELETE" /\ duToRlc' = Rest(duToRlc)
      /\ \A k \in DOMAIN udxReq : udxReq[k].req.ev = r.ev
      /\ \A k \in DOMAIN udxCfm : udxCfm[k].req.ev = r.ev
      /\ rlcUlUdxEventType' = r.ev
      /\ rlcUlUe' = IF r.op = "ADD" /\ r.rbs # {} THEN rlcUlUe \union {i} ELSE rlcUlUe
      /\ udxReq' = Put(udxReq, u)
      /\ UNCHANGED <<udxCfm, rlcUlRb, rlcDlRb, rlcToDu, ueDelTmr, duToRlcDl>>
  BY <1>1 DEF RlcUeCfgReq, RlcProcCfgReq, ByRlc, First, Rest, Put
<1>3. /\ RlcTypes /\ Distinct(duToRlc) /\ UdxDistinct(udxReq)
      /\ duToRlc \in Seq(RlcReq) /\ udxReq \in Seq(UdxReq)
  BY DEF Core, Types, Queues, RlcTypes
<1>4. r \in RlcReq /\ Rest(duToRlc) \in Seq(RlcReq) /\ r.op # "DEL_UE"
      /\ \A m \in ToSet(Rest(duToRlc)) : m.op # "DEL_UE"
  BY <1>1, <1>2, <1>3, RestToSet DEF RlcTypes
<1>5. i \in Id /\ r.op \in RlcOp /\ r.ev \in RlcEvent /\ r.rbs \in SUBSET Rb
  BY <1>1, <1>4 DEF RlcReq
<1>6. u \in UdxReq /\ u.req = r /\ u.ueOk = ueOk
  <2>1. ValidRbs(r.op, r.rbs, rlcUlRb[i]) \in SUBSET Rb
    BY <1>5, ValidRbsType
  <2>2. QED
    BY <1>1, <1>4, <2>1 DEF UdxReq
<1>7. t.at = "duToRlc" /\ t.ev = r.ev /\ n.ev = r.ev /\ n.at = "udxReq"
  BY <1>1, Places
<1>8. Mid(i) = Without(InRlc(i), t) /\ t \in InRlc(i) /\ Distinct(Rest(duToRlc))
  BY <1>0, <1>2, <1>3, RlcTakeReq, InRlcIs
<1>9. \A j : j # i => Mid(j) = InRlc(j)
  BY <1>0, <1>2, <1>3, RlcTakeReqOthers, InRlcIs
<1>10. InRlc(i) = {t}
  BY <1>5, <1>7, <1>8, MsgOwner, RlcAlone
<1>11. \A j : InRlc(j)' = RlcToks(duToRlcDl, Rest(duToRlc), ueDelTmr, Put(udxReq, u), udxCfm, rlcToDu, j)
  BY <1>2 DEF InRlc
<1>12. i = UdxUe(u) /\ n = Tok("udxReq", UdxEv(u), UdxOk(u))
  BY <1>1, <1>6 DEF UdxUe, UdxEv, UdxOk
<1>13. Mid(i) = {}
  BY <1>8, <1>10 DEF Without
<1>14. InRlc(i)' = With(Mid(i), n) /\ Put(udxReq, u) \in Seq(UdxReq) /\ UdxDistinct(Put(udxReq, u))
  <2>1. InRlc(i)' = With(Mid(i), n)
    BY <1>3, <1>6, <1>11, <1>12, RlcPutUdxReq
  <2>2. \A x \in Mid(i) : x.at = "udxReq" => x.ev # UdxEv(u)
    BY <1>13
  <2>3. Put(udxReq, u) \in Seq(UdxReq)
    BY <1>3, <1>6, PutToSet
  <2>4. UdxDistinct(Put(udxReq, u))
    BY <1>3, <1>6, <1>12, <2>2, RlcPutUdxReq
  <2>5. QED
    BY <2>1, <2>3, <2>4
<1>15. \A j : j # i => InRlc(j)' = InRlc(j)
  BY <1>3, <1>6, <1>9, <1>11, <1>12, RlcPutUdxReqOthers
<1>16. InRlc(i)' = {n}
  BY <1>13, <1>14 DEF With
<1>17. \A j \in Id \ {i} : SameRlc(j)
  BY <1>2, <1>15 DEF SameRlc
<1>18. Owners' /\ Lives' /\ Ccch' /\ ~nullDb'
  BY <1>2, <1>5, <1>7, <1>8, <1>16, <1>17, RlcMoves
<1>19. Queues'
  BY <1>2, <1>8, <1>14 DEF Core, Queues, ByRlc, macVars
<1>20. Events'
  <2>1. ToSet(udxReq') = ToSet(udxReq) \union {u}
    <3>1. udxReq' = Put(udxReq, u)
      BY <1>2
    <3>2. ToSet(Put(udxReq, u)) = ToSet(udxReq) \union {u}
      BY <1>3, <1>6, PutToSet
    <3>3. QED
      BY <3>1, <3>2
  <2>2. \A x \in ToSet(udxReq) \union ToSet(udxCfm) : x.req.ev = r.ev
    BY <1>2 DEF ToSet
  <2>3. \A x \in ToSet(udxReq) \union ToSet(udxCfm) : x.req.ev = "DELETE" <=> x.req.op = "DEL_UE"
    BY DEF Core, Events
  <2>4. rlcUlUdxEventType' = r.ev /\ udxCfm' = udxCfm
    BY <1>2
  <2>5. u.req.ev = r.ev /\ (u.req.ev = "DELETE" <=> u.req.op = "DEL_UE")
    BY <1>2, <1>4, <1>6
  <2>6. QED
    BY <2>1, <2>2, <2>3, <2>4, <2>5 DEF Events
<1>21. Types'
  <2>1. RlcTypes'
    BY <1>2, <1>3, <1>4, <1>5, <1>14 DEF RlcTypes
  <2>2. QED
    BY <2>1 DEF Core, Types, MacTypes, DuTypes, ByRlc, macVars, raVars, macUeVars, duVars
<1>22. i = Head(duToRlc).ue
  BY <1>1 DEF First
<1>23. RlcStep(i, "duToRlc", "udxReq")
  BY <1>5, <1>7, <1>10, <1>16, <1>17 DEF RlcStep
<1>24. QED
  BY <1>18, <1>19, <1>20, <1>21, <1>22, <1>23 DEF Keeps

LEMMA RlcDeletes ==
    ASSUME Core, NEW i \in Id, NEW t \in InRlc(i), t.ev = "DELETE"
    PROVE  DeletesRlc(t, i)
<1>1. DeletingInRlc(i)
  BY MsgOwner, RlcWho
<1>2. QED
  BY <1>1 DEF DeletingInRlc, DeletesRlc

LEMMA DlUdxCfgReqKeeps ==
    ASSUME Core, ByRlc, RlcDlUdxCfgReq
    PROVE  Keeps /\ RlcStep(Head(udxReq).req.ue, "udxReq", "udxCfm")
<1>1. PICK u, i, t, done, f, n :
        /\ u = First(udxReq) /\ i = u.req.ue /\ t = Tok("udxReq", u.req.ev, u.ueOk)
        /\ done = ValidRbs(u.req.op, u.valid, rlcDlRb[i])
        /\ f = [req |-> u.req, ueOk |-> u.ueOk, done |-> done]
        /\ n = Tok("udxCfm", u.req.ev, u.ueOk)
  OBVIOUS
<1> DEFINE Mid(j) == RlcToks(duToRlcDl, duToRlc, ueDelTmr, Rest(udxReq), udxCfm, rlcToDu, j)
<1>0. i = UdxUe(First(udxReq)) /\ t = Tok("udxReq", UdxEv(First(udxReq)), UdxOk(First(udxReq)))
  BY <1>1 DEF UdxUe, UdxEv, UdxOk
<1>2. /\ udxReq # <<>> /\ udxReq' = Rest(udxReq) /\ udxCfm' = Put(udxCfm, f)
      /\ rlcDlRb' = [rlcDlRb EXCEPT ![i] = Applied(u.req.op, done, @)]
      /\ UNCHANGED <<duToRlc, rlcToDu, rlcUlUe, rlcUlRb, ueDelTmr, rlcUlUdxEventType, duToRlcDl>>
  BY <1>1 DEF RlcDlUdxCfgReq, ByRlc, First, Rest, Put
<1>3. /\ RlcTypes /\ UdxDistinct(udxReq) /\ UdxDistinct(udxCfm)
      /\ udxReq \in Seq(UdxReq) /\ udxCfm \in Seq(UdxCfm)
  BY DEF Core, Types, Queues, RlcTypes
<1>4. u \in UdxReq /\ u \in ToSet(udxReq) /\ Rest(udxReq) \in Seq(UdxReq)
      /\ ToSet(Rest(udxReq)) \subseteq ToSet(udxReq)
  BY <1>1, <1>2, <1>3, RestToSet
<1>5. i \in Id /\ u.req \in RlcReq /\ u.req.op \in RlcOp /\ u.ueOk \in BOOLEAN /\ u.valid \in SUBSET Rb
  BY <1>1, <1>4 DEF RlcReq, UdxReq
<1>6. /\ done \in SUBSET Rb /\ f \in UdxCfm
      /\ rlcDlRb' \in [Id -> SUBSET Rb] /\ rlcDlRb'[i] = Applied(u.req.op, done, rlcDlRb[i])
      /\ \A j \in Id \ {i} : rlcDlRb'[j] = rlcDlRb[j]
  <2>1. done \in SUBSET Rb
    BY <1>1, <1>5, ValidRbsType
  <2>2. f \in UdxCfm
    BY <1>1, <1>5, <2>1 DEF UdxCfm
  <2>3. rlcDlRb \in [Id -> SUBSET Rb]
    BY <1>3 DEF RlcTypes
  <2>4. Applied(u.req.op, done, rlcDlRb[i]) \in SUBSET Rb
    BY <1>5, <2>1, <2>3, AppliedType
  <2>5. QED
    BY <1>2, <1>5, <2>1, <2>2, <2>3, <2>4
<1>7. /\ t.at = "udxReq" /\ t.ev = u.req.ev /\ t.ok = u.ueOk
      /\ n.ev = u.req.ev /\ n.at = "udxCfm" /\ n.ok = u.ueOk
  BY <1>1, Places
<1>8. i = UdxUe(f) /\ n = Tok("udxCfm", UdxEv(f), UdxOk(f))
  BY <1>1 DEF UdxUe, UdxEv, UdxOk
<1>9. Mid(i) = Without(InRlc(i), t) /\ t \in InRlc(i) /\ UdxDistinct(Rest(udxReq))
  <2>1. udxReq # <<>> /\ UdxDistinct(udxReq) /\ udxReq \in Seq(UdxReq)
    BY <1>2, <1>3
  <2>2. /\ Mid(UdxUe(First(udxReq))) =
             Without(RlcToks(duToRlcDl, duToRlc, ueDelTmr, udxReq, udxCfm, rlcToDu, UdxUe(First(udxReq))),
                     Tok("udxReq", UdxEv(First(udxReq)), UdxOk(First(udxReq))))
        /\ Tok("udxReq", UdxEv(First(udxReq)), UdxOk(First(udxReq)))
             \in RlcToks(duToRlcDl, duToRlc, ueDelTmr, udxReq, udxCfm, rlcToDu, UdxUe(First(udxReq)))
    BY <2>1, RlcTakeUdxReq
  <2>3. UdxDistinct(Rest(udxReq))
    BY <2>1, RlcTakeUdxReq
  <2>4. QED
    BY <1>0, <2>2, <2>3, InRlcIs
<1>10. \A j : j # i => Mid(j) = InRlc(j)
  BY <1>0, <1>2, <1>3, RlcTakeUdxReqOthers, InRlcIs
<1>11. Mid(i) = {} /\ InRlc(i) = {t}
  <2>1. InRlc(i) = {t}
    BY <1>5, <1>7, <1>9, MsgOwner, RlcAlone
  <2>2. QED
    BY <1>9, <2>1 DEF Without
<1>12. \A j : InRlc(j)' = RlcToks(duToRlcDl, duToRlc, ueDelTmr, Rest(udxReq), Put(udxCfm, f), rlcToDu, j)
  BY <1>2 DEF InRlc
<1>13. InRlc(i)' = {n}
  <2>1. InRlc(i)' = With(Mid(i), n)
    BY <1>3, <1>6, <1>8, <1>12, RlcPutUdxCfm
  <2>2. QED
    BY <1>11, <2>1 DEF With
<1>14. UdxDistinct(Put(udxCfm, f)) /\ Put(udxCfm, f) \in Seq(UdxCfm)
  <2>1. \A x \in Mid(i) : x.at = "udxCfm" => x.ev # UdxEv(f)
    BY <1>11
  <2>2. UdxDistinct(Put(udxCfm, f))
    BY <1>3, <1>6, <1>8, <2>1, RlcPutUdxCfm
  <2>3. QED
    BY <1>3, <1>6, <2>2, PutToSet
<1>15. \A j : j # i => InRlc(j)' = InRlc(j)
  BY <1>3, <1>6, <1>8, <1>10, <1>12, RlcPutUdxCfmOthers
<1>16. \A j \in Id \ {i} : SameRlc(j)
  BY <1>2, <1>6, <1>15 DEF SameRlc
<1>17. t.ev = "DELETE" => DeletesRlc(n, i)'
  <2>1. SUFFICES ASSUME t.ev = "DELETE"
                 PROVE  n.ok /\ rlcDlRb'[i] = {}
    BY <1>7 DEF DeletesRlc
  <2>2. DeletesRlc(t, i)
    BY <1>5, <1>9, <2>1, RlcDeletes
  <2>3. u.req.op = "DEL_UE"
    BY <1>4, <1>7, <2>1 DEF Core, Events
  <2>4. Applied(u.req.op, done, rlcDlRb[i]) = {}
    BY <2>3 DEF Applied
  <2>5. QED
    BY <1>6, <1>7, <2>2, <2>4 DEF DeletesRlc
<1>18. Owners' /\ Lives' /\ Ccch' /\ ~nullDb'
  <2>1. rlcUlRb'[i] = rlcUlRb[i]
    BY <1>2
  <2>2. InRlc(i)' \subseteq {n} /\ (t.ev = "DELETE" => \A x \in InRlc(i)' : DeletesRlc(x, i)')
    BY <1>13, <1>17
  <2>3. \/ rlcUlRb'[i] = {} \/ rlcUlRb[i] # {} \/ InRlc(i)' = {} \/ n.at = "rlcToDu"
    BY <2>1
  <2>4. t.at \notin {"rlcToDu", "duToRlcDl"}
    BY <1>7
  <2>5. QED
    BY <1>5, <1>7, <1>9, <1>16, <2>2, <2>3, <2>4, RlcMoves
<1>19. Queues'
  BY <1>2, <1>9, <1>14 DEF Core, Queues, ByRlc, macVars
<1>20. Events'
  <2>1. ToSet(udxCfm') = ToSet(udxCfm) \union {f}
    <3>1. udxCfm' = Put(udxCfm, f)
      BY <1>2
    <3>2. ToSet(Put(udxCfm, f)) = ToSet(udxCfm) \union {f}
      BY <1>3, <1>6, PutToSet
    <3>3. QED
      BY <3>1, <3>2
  <2>2. f.req = u.req
    BY <1>1
  <2>3. Events /\ ToSet(udxReq') \subseteq ToSet(udxReq) /\ u \in ToSet(udxReq)
    BY <1>2, <1>4 DEF Core
  <2>4. rlcUlUdxEventType' = rlcUlUdxEventType
    BY <1>2
  <2>5. QED
    BY <2>1, <2>2, <2>3, <2>4 DEF Events
<1>21. Types'
  <2>1. RlcTypes'
    BY <1>2, <1>3, <1>4, <1>6, <1>14 DEF RlcTypes
  <2>2. QED
    BY <2>1 DEF Core, Types, MacTypes, DuTypes, ByRlc, macVars, raVars, macUeVars, duVars
<1>22. i = Head(udxReq).req.ue
  BY <1>1 DEF First
<1>23. RlcStep(i, "udxReq", "udxCfm")
  BY <1>5, <1>7, <1>11, <1>13, <1>16 DEF RlcStep
<1>24. QED
  BY <1>18, <1>19, <1>20, <1>21, <1>22, <1>23 DEF Keeps

LEMMA UlUdxCfgCfmKeeps ==
    ASSUME Core, ByRlc, RlcUlUdxCfgCfm
    PROVE  Keeps /\ RlcStep(Head(udxCfm).req.ue, "udxCfm", "rlcToDu")
<1>1. PICK u, i, t, m, n, deletes :
        /\ u = First(udxCfm) /\ i = u.req.ue /\ t = Tok("udxCfm", u.req.ev, u.ueOk)
        /\ m = [ev |-> rlcUlUdxEventType, ue |-> i, ok |-> TRUE]
        /\ n = Tok("rlcToDu", rlcUlUdxEventType, TRUE)
        /\ deletes = (u.req.op = "DEL_UE" /\ u.ueOk)
  OBVIOUS
<1> DEFINE Mid(j) == RlcToks(duToRlcDl, duToRlc, ueDelTmr, udxReq, Rest(udxCfm), rlcToDu, j)
<1>0. i = UdxUe(First(udxCfm)) /\ t = Tok("udxCfm", UdxEv(First(udxCfm)), UdxOk(First(udxCfm)))
  BY <1>1 DEF UdxUe, UdxEv, UdxOk
<1>2. /\ udxCfm # <<>> /\ udxCfm' = Rest(udxCfm)
      /\ rlcUlRb' = [rlcUlRb EXCEPT ![i] = IF deletes THEN {} ELSE Applied(u.req.op, u.done, @)]
      /\ rlcUlUe' = IF deletes THEN rlcUlUe \ {i} ELSE rlcUlUe
      /\ rlcToDu' = rlcToDu \/ rlcToDu' = Put(rlcToDu, m)
      /\ UNCHANGED <<duToRlc, udxReq, rlcDlRb, ueDelTmr, rlcUlUdxEventType, duToRlcDl>>
  BY <1>1 DEF RlcUlUdxCfgCfm, ByRlc, First, Rest, Put
<1>3. /\ RlcTypes /\ UdxDistinct(udxCfm) /\ Distinct(rlcToDu) /\ UlRrcLast(rlcToDu)
      /\ udxCfm \in Seq(UdxCfm) /\ rlcToDu \in Seq(RlcToDu)
  BY DEF Core, Types, Queues, RlcTypes
<1>4. u \in UdxCfm /\ u \in ToSet(udxCfm) /\ Rest(udxCfm) \in Seq(UdxCfm)
      /\ ToSet(Rest(udxCfm)) \subseteq ToSet(udxCfm)
  BY <1>1, <1>2, <1>3, RestToSet
<1>5. i \in Id /\ u.req \in RlcReq /\ u.req.op \in RlcOp /\ u.ueOk \in BOOLEAN /\ u.done \in SUBSET Rb
  BY <1>1, <1>4 DEF RlcReq, UdxCfm
<1>6. /\ rlcUlRb' \in [Id -> SUBSET Rb] /\ (deletes => rlcUlRb'[i] = {})
      /\ \A j \in Id \ {i} : rlcUlRb'[j] = rlcUlRb[j]
  <2>1. rlcUlRb \in [Id -> SUBSET Rb]
    BY <1>3 DEF RlcTypes
  <2>2. Applied(u.req.op, u.done, rlcUlRb[i]) \in SUBSET Rb
    BY <1>5, <2>1, AppliedType
  <2>3. QED
    BY <1>2, <1>5, <2>1, <2>2
<1>7. /\ t.at = "udxCfm" /\ t.ev = u.req.ev /\ t.ok = u.ueOk
      /\ n.ev = u.req.ev /\ n.at = "rlcToDu"
  <2>1. u.req.ev = rlcUlUdxEventType
    BY <1>4 DEF Core, Events
  <2>2. QED
    BY <1>1, <2>1 DEF Tok
<1>8. /\ m \in RlcToDu /\ i = Ue(m) /\ n = Tok("rlcToDu", Ev(m), Ok(m)) /\ Ev(m) # "UL_RRC"
  <2>1. m \in RlcToDu /\ m.ev # "UL_RRC"
    BY <1>1, <1>3, <1>5 DEF RlcToDu, RspMsg, RlcTypes, RlcEvent
  <2>2. QED
    BY <1>1, <2>1 DEF Ue, Ev, Ok
<1>9. Mid(i) = Without(InRlc(i), t) /\ t \in InRlc(i) /\ UdxDistinct(Rest(udxCfm))
  <2>1. udxCfm # <<>> /\ udxCfm \in Seq(UdxCfm) /\ UdxDistinct(udxCfm)
    BY <1>2, <1>3
  <2>2. Mid(i) = Without(InRlc(i), t) /\ t \in InRlc(i)
    BY <1>0, <2>1, RlcTakeUdxCfm, InRlcIs
  <2>3. UdxDistinct(Rest(udxCfm))
    BY <1>0, <2>1, RlcTakeUdxCfm
  <2>4. QED
    BY <2>2, <2>3
<1>10. \A j : j # i => Mid(j) = InRlc(j)
  BY <1>0, <1>2, <1>3, RlcTakeUdxCfmOthers, InRlcIs
<1>11. Mid(i) = {} /\ InRlc(i) = {t}
  <2>1. InRlc(i) = {t}
    BY <1>5, <1>7, <1>9, MsgOwner, RlcAlone
  <2>2. QED
    BY <1>9, <2>1 DEF Without
<1>12. /\ InRlc(i)' \subseteq {n} /\ \A j : j # i => InRlc(j)' = InRlc(j)
       /\ rlcToDu' \in Seq(RlcToDu) /\ Distinct(rlcToDu') /\ UlRrcLast(rlcToDu')
  <2>1. CASE rlcToDu' = rlcToDu
    <3>1. \A j : InRlc(j)' = Mid(j)
      BY <1>2, <2>1 DEF InRlc
    <3>2. QED
      BY <1>3, <1>10, <1>11, <2>1, <3>1
  <2>2. CASE rlcToDu' = Put(rlcToDu, m)
    <3>1. \A j : InRlc(j)' = RlcToks(duToRlcDl, duToRlc, ueDelTmr, udxReq, Rest(udxCfm), Put(rlcToDu, m), j)
      BY <1>2, <2>2 DEF InRlc
    <3>2. InRlc(i)' = With(Mid(i), n)
      BY <1>3, <1>8, <3>1, RlcPutRsp
    <3>3. /\ \A x \in Mid(i) : x.at = "rlcToDu" => x.ev # Ev(m)
          /\ \A x \in Mid(i) : x.at = "rlcToDu" => x.ev # "UL_RRC"
      BY <1>11
    <3>4. Distinct(Put(rlcToDu, m)) /\ UlRrcLast(Put(rlcToDu, m))
      BY <1>3, <1>8, <3>3, RlcPutRsp
    <3>5. \A j : j # i => InRlc(j)' = InRlc(j)
      BY <1>3, <1>8, <1>10, <3>1, RlcPutRspOthers
    <3>6. Put(rlcToDu, m) \in Seq(RlcToDu)
      BY <1>3, <1>8, PutToSet
    <3>7. InRlc(i)' \subseteq {n}
      BY <1>11, <3>2 DEF With
    <3>8. QED
      BY <2>2, <3>4, <3>5, <3>6, <3>7
  <2>3. QED
    BY <1>2, <2>1, <2>2
<1>13. \A j \in Id \ {i} : SameRlc(j)
  BY <1>2, <1>6, <1>12 DEF SameRlc
<1>14. t.ev = "DELETE" => DeletesRlc(n, i)'
  <2>1. SUFFICES ASSUME t.ev = "DELETE"
                 PROVE  RlcEmpty(i)'
    BY <1>7 DEF DeletesRlc
  <2>2. DeletesRlc(t, i)
    BY <1>5, <1>9, <2>1, RlcDeletes
  <2>3. u.req.op = "DEL_UE"
    BY <1>4, <1>7, <2>1 DEF Core, Events
  <2>4. deletes /\ rlcDlRb[i] = {}
    BY <1>1, <1>7, <2>2, <2>3 DEF DeletesRlc
  <2>5. QED
    BY <1>2, <1>6, <2>4 DEF RlcEmpty
<1>15. Owners' /\ Lives' /\ Ccch' /\ ~nullDb'
  <2>1. t.ev = "DELETE" => \A x \in InRlc(i)' : DeletesRlc(x, i)'
    BY <1>12, <1>14
  <2>2. t.at \notin {"rlcToDu", "duToRlcDl"} /\ n.ev = t.ev
    BY <1>7
  <2>3. \/ rlcUlRb'[i] = {} \/ rlcUlRb[i] # {} \/ InRlc(i)' = {} \/ n.at = "rlcToDu"
    BY <1>7
  <2>4. QED
    BY <1>5, <1>9, <1>12, <1>13, <2>1, <2>2, <2>3, RlcMoves
<1>16. Queues'
  BY <1>2, <1>9, <1>12 DEF Core, Queues, ByRlc, macVars
<1>17. Events'
  BY <1>2, <1>4 DEF Core, Events
<1>18. Types'
  <2>1. rlcUlUe' \subseteq Id
    BY <1>2, <1>3 DEF RlcTypes
  <2>2. RlcTypes'
    BY <1>2, <1>3, <1>4, <1>6, <1>12, <2>1 DEF RlcTypes
  <2>3. QED
    BY <2>2 DEF Core, Types, MacTypes, DuTypes, ByRlc, macVars, raVars, macUeVars, duVars
<1>19. i = Head(udxCfm).req.ue
  BY <1>1 DEF First
<1>20. RlcStep(i, "udxCfm", "rlcToDu")
  BY <1>5, <1>7, <1>11, <1>12, <1>13 DEF RlcStep
<1>21. QED
  BY <1>15, <1>16, <1>17, <1>18, <1>19, <1>20 DEF Keeps

-----------------------------------------------------------------------------
(* What a step makes of the messages, for the steps of MAC, of the CU and of *)
(* the DU application.                                                       *)

MacQ ==
    /\ duToMac \in Seq(DuToMac) /\ macToDu \in Seq(MacToDu)
    /\ Distinct(duToMac) /\ Distinct(macToDu) /\ CreateFirst(macToDu)

RlcQ ==
    /\ duToRlc \in Seq(RlcReq) /\ \A m \in ToSet(duToRlc) : m.op # "DEL_UE"
    /\ udxReq \in Seq(UdxReq) /\ udxCfm \in Seq(UdxCfm)
    /\ rlcToDu \in Seq(RlcToDu) /\ duToRlcDl \in Seq(Id)
    /\ Distinct(duToRlc) /\ Distinct(rlcToDu) /\ UlRrcLast(rlcToDu)
    /\ UdxDistinct(udxReq) /\ UdxDistinct(udxCfm) /\ IsInjective(duToRlcDl)

MacData ==
    /\ macUe \in [Id -> {"NONE", "ACTIVE", "HANDIN"}]
    /\ schUe \in [Id -> {"NONE", "ACTIVE", "HANDIN"}]
    /\ macLc \in [Id -> SUBSET Rb] /\ schLc \in [Id -> SUBSET Rb]
    /\ UNION {ueBitMap, macRaCb, msg4Pdu, macCfra, schTcrnti, schMsg4Done, schPreamble} \subseteq Id

RlcData ==
    /\ rlcUlUe \subseteq Id /\ ueDelTmr \subseteq Id
    /\ rlcUlRb \in [Id -> SUBSET Rb] /\ rlcDlRb \in [Id -> SUBSET Rb]
    /\ rlcUlUdxEventType \in RlcEvent

SameUdx == UNCHANGED <<udxReq, udxCfm, rlcUlUdxEventType>>

LEMMA CoreParts == Core => MacQ /\ RlcQ /\ MacData /\ RlcData /\ DuTypes
BY DEF Core, Types, Queues, MacQ, RlcQ, MacData, RlcData, RlcTypes, MacTypes

LEMMA StepKeeps ==
    ASSUME Core, NEW c \in CuUe, NEW i, AtOne(c, i), InPhase(c, cuUe[c].ph, i)',
           MacQ', RlcQ', MacData', RlcData', DuTypes', SameUdx, Ccch', ~nullDb'
    PROVE  Keeps
<1>1. Types' /\ Queues'
  BY DEF Types, Queues, MacQ, RlcQ, MacData, RlcData, RlcTypes, MacTypes
<1>2. Owners' /\ Lives'
  BY OwnersAtOne
<1>3. Events'
  BY DEF Core, Events, SameUdx
<1>4. QED
  BY <1>1, <1>2, <1>3 DEF Keeps

HasPhase(c, ph, i) == cuUe[c].ph = ph /\ cuUe[c].id = i

LEMMA PhaseOf ==
    ASSUME Core, NEW i \in Id, InRlc(i) # {} \/ InMac(i) # {}
    PROVE  \E c \in CuUe, ph \in Phase : HasPhase(c, ph, i) /\ ph # "idle" /\ InPhase(c, ph, i)
BY MsgOwner DEF HasPhase

LEMMA RlcStill ==
    ASSUME Core, UNCHANGED <<rlcVars, duToRlcDl>>
    PROVE  RlcQ' /\ RlcData' /\ SameUdx /\ \A j : SameRlc(j)
BY CoreParts, RlcUnchanged DEF RlcQ, RlcData, SameUdx, rlcVars

LEMMA MacStill ==
    ASSUME Core, UNCHANGED macVars
    PROVE  MacQ' /\ MacData' /\ \A j : SameMac(j)
BY CoreParts, MacUnchanged DEF MacQ, MacData, macVars, raVars, macUeVars

LEMMA DuStill ==
    ASSUME Core, UNCHANGED duVars, UNCHANGED cuUe
    PROVE  DuTypes' /\ Ccch' /\ ~nullDb'
<1>1. CcchKept
  BY DEF CcchKept, duVars
<1>2. QED
  BY <1>1, CcchFrame DEF Core, Types, DuTypes, duVars

LEMMA MacFirst ==
    ASSUME Core, NEW ev, Request(ev), NEW i, i = Head(duToMac).ue
    PROVE  /\ i \in Id /\ Head(duToMac) \in DuToMac
           /\ ReqTok("duToMac", ev) \in InMac(i)
<1>1. /\ duToMac # <<>> /\ duToMac \in Seq(DuToMac) /\ Distinct(duToMac)
      /\ Ev(First(duToMac)) = ev /\ i = Ue(First(duToMac))
  BY CoreParts DEF MacQ, Request, First, Ev, Ue
<1>2. First(duToMac) \in DuToMac
  BY <1>1, MacTakeReq
<1>3. i \in Id
  BY <1>1, <1>2 DEF DuToMac, Ue
<1>4. ReqTok("duToMac", ev) \in InMac(i)
  BY <1>1, MacTakeReq, InMacIs
<1>5. QED
  BY <1>2, <1>3, <1>4 DEF First

\* MAC takes a request,
LEMMA MacTakes ==
    ASSUME Core, NEW ev, Request(ev), NEW i, i = Head(duToMac).ue, UNCHANGED macToDu
    PROVE  /\ i \in Id /\ Head(duToMac) \in DuToMac
           /\ ReqTok("duToMac", ev) \in InMac(i)
           /\ InMac(i)' = Without(InMac(i), ReqTok("duToMac", ev))
           /\ \A j : j # i => InMac(j)' = InMac(j)
           /\ MacQ'
<1>1. /\ MacQ /\ duToMac # <<>> /\ duToMac \in Seq(DuToMac) /\ Distinct(duToMac)
      /\ Ev(First(duToMac)) = ev /\ i = Ue(First(duToMac)) /\ duToMac' = Rest(duToMac)
  BY CoreParts DEF MacQ, Request, First, Ev, Ue, Rest
<1>2. First(duToMac) \in DuToMac /\ Rest(duToMac) \in Seq(DuToMac) /\ Distinct(Rest(duToMac))
  BY <1>1, MacTakeReq
<1>3. i \in Id
  BY <1>1, <1>2 DEF DuToMac, Ue
<1>4. /\ MacToks(Rest(duToMac), macToDu, i) = Without(MacToks(duToMac, macToDu, i), ReqTok("duToMac", ev))
      /\ ReqTok("duToMac", ev) \in MacToks(duToMac, macToDu, i)
  BY <1>1, MacTakeReq
<1>5. \A j : j # i => MacToks(Rest(duToMac), macToDu, j) = MacToks(duToMac, macToDu, j)
  BY <1>1, MacTakeReqOthers
<1>6. MacQ'
  BY <1>1, <1>2 DEF MacQ
<1>7. \A j : InMac(j)' = MacToks(Rest(duToMac), macToDu, j) /\ InMac(j) = MacToks(duToMac, macToDu, j)
  BY <1>1 DEF InMac
<1>8. QED
  BY <1>2, <1>3, <1>4, <1>5, <1>6, <1>7 DEF First

\* and answers it.
LEMMA MacAnswers ==
    ASSUME Core, NEW ev, Request(ev), NEW i, i = Head(duToMac).ue,
           NEW e, NEW ok \in BOOLEAN, ToDu(e, i, ok),
           e \in {"UL_CCCH", "CREATE", "RECONFIG", "DELETE", "RACH"},
           \A x \in InMac(i) : x.at = "macToDu" => x.ev # e,
           e = "CREATE" => \A x \in InMac(i) : x.at # "macToDu"
    PROVE  /\ i \in Id /\ Head(duToMac) \in DuToMac
           /\ ReqTok("duToMac", ev) \in InMac(i)
           /\ InMac(i)' = With(Without(InMac(i), ReqTok("duToMac", ev)), Tok("macToDu", e, ok))
           /\ \A j : j # i => InMac(j)' = InMac(j)
           /\ MacQ'
<1> DEFINE m == [ev |-> e, ue |-> i, ok |-> ok]
           Mid(j) == MacToks(Rest(duToMac), macToDu, j)
<1>1. /\ MacQ /\ duToMac # <<>> /\ duToMac \in Seq(DuToMac) /\ Distinct(duToMac)
      /\ Ev(First(duToMac)) = ev /\ i = Ue(First(duToMac)) /\ duToMac' = Rest(duToMac)
      /\ macToDu' = Put(macToDu, m) /\ macToDu \in Seq(MacToDu)
  BY CoreParts DEF MacQ, Request, ToDu, First, Ev, Ue, Rest, Put
<1>2. First(duToMac) \in DuToMac /\ Rest(duToMac) \in Seq(DuToMac) /\ Distinct(Rest(duToMac))
  BY <1>1, MacTakeReq
<1>3. i \in Id
  BY <1>1, <1>2 DEF DuToMac, Ue
<1>4. m \in MacToDu /\ i = Ue(m) /\ e = Ev(m) /\ ok = Ok(m)
  BY <1>3 DEF MacToDu, RspMsg, Ue, Ev, Ok
<1> HIDE DEF m
<1>5. Mid(i) = Without(InMac(i), ReqTok("duToMac", ev)) /\ ReqTok("duToMac", ev) \in InMac(i)
  BY <1>1, MacTakeReq, InMacIs
<1>6. \A j : j # i => Mid(j) = InMac(j)
  BY <1>1, MacTakeReqOthers, InMacIs
<1>7. \A j : InMac(j)' = MacToks(Rest(duToMac), Put(macToDu, m), j)
  BY <1>1 DEF InMac
<1>8. InMac(i)' = With(Mid(i), Tok("macToDu", e, ok))
  BY <1>1, <1>4, <1>7, MacPutRsp
<1>9. \A j : j # i => InMac(j)' = Mid(j)
  BY <1>1, <1>4, <1>7, MacPutRspOthers
<1>10. \A x \in Mid(i) : x \in InMac(i)
  BY <1>5 DEF Without
<1>11. Put(macToDu, m) \in Seq(MacToDu)
  BY <1>1, <1>4, PutToSet
<1>12. Distinct(Put(macToDu, m))
  <2>1. Distinct(macToDu) /\ \A x \in Mid(i) : x.at = "macToDu" => x.ev # Ev(m)
    BY <1>1, <1>4, <1>10 DEF MacQ
  <2>2. QED
    BY <1>1, <1>4, <2>1, MacPutRsp
<1>13. CreateFirst(Put(macToDu, m))
  <2>1. CreateFirst(macToDu) /\ (Ev(m) = "CREATE" => \A x \in Mid(i) : x.at # "macToDu")
    BY <1>1, <1>4, <1>10 DEF MacQ
  <2>2. QED
    BY <1>1, <1>4, <2>1, MacPutRsp
<1>14. MacQ'
  BY <1>1, <1>2, <1>11, <1>12, <1>13 DEF MacQ
<1>15. QED
  BY <1>2, <1>3, <1>5, <1>6, <1>8, <1>9, <1>14 DEF First

-----------------------------------------------------------------------------
(* The thread of MAC and SCH.                                                *)

LEMMA MacMoves ==
    ASSUME Core, ByMac, NEW i \in Id, NEW c \in CuUe, NEW ph,
           HasPhase(c, ph, i), ph # "idle", InPhase(c, ph, i)',
           ueBitMap' = ueBitMap, \A j \in Id \ {i} : SameMac(j), MacQ', MacData'
    PROVE  Keeps
<1>1. UNCHANGED <<rlcVars, duToRlcDl>> /\ UNCHANGED duVars /\ UNCHANGED cuUe /\ UNCHANGED ueCb
  BY DEF ByMac, duVars
<1>2. RlcQ' /\ RlcData' /\ SameUdx /\ \A j : SameRlc(j)
  BY <1>1, RlcStill
<1>3. DuTypes' /\ Ccch' /\ ~nullDb'
  BY <1>1, DuStill
<1>4. AtOne(c, i)
  BY <1>1, <1>2 DEF AtOne, Same, HasPhase
<1>5. InPhase(c, cuUe[c].ph, i)'
  BY <1>1 DEF HasPhase
<1>6. QED
  BY <1>2, <1>3, <1>4, <1>5, StepKeeps

\* MAC takes the first request, which has event ev, and answers nothing, or may
\* answer it with rsp; nothing changes for the other UEs.
MacQuiet(ev) ==
    \E i \in Id :
        /\ i = Head(duToMac).ue /\ ReqTok("duToMac", ev) \in InMac(i)
        /\ \A j \in Id \ {i} : SameMac(j)
        /\ InMac(i)' = Without(InMac(i), ReqTok("duToMac", ev))
MacTold(ev, rsp) ==
    \E i \in Id : \E ok :
        /\ i = Head(duToMac).ue /\ ReqTok("duToMac", ev) \in InMac(i)
        /\ \A j \in Id \ {i} : SameMac(j)
        /\ InMac(i)' \subseteq With(Without(InMac(i), ReqTok("duToMac", ev)), Tok("macToDu", rsp, ok))

LEMMA DlCcchIndKeeps ==
    ASSUME Core, ByMac, MacProcDlCcchInd
    PROVE  Keeps /\ MacQuiet("DL_CCCH")
<1>1. PICK i, t : i = Head(duToMac).ue /\ t = ReqTok("duToMac", "DL_CCCH")
  OBVIOUS
<1>2. /\ Request("DL_CCCH") /\ msg4Pdu' = msg4Pdu \union ({i} \intersect macRaCb)
      /\ UNCHANGED <<macToDu, ueBitMap, macRaCb, macCfra, schTcrnti, schMsg4Done, schPreamble, macUeVars>>
  BY <1>1 DEF MacProcDlCcchInd
<1>3. /\ i \in Id /\ t \in InMac(i) /\ InMac(i)' = Without(InMac(i), t)
      /\ (\A j : j # i => InMac(j)' = InMac(j)) /\ MacQ'
  BY <1>1, <1>2, MacTakes
<1>4. t.ev = "DL_CCCH" /\ t.at = "duToMac"
  BY <1>1, Places
<1>5. PICK c \in CuUe, ph \in Phase :
        HasPhase(c, ph, i) /\ ph # "idle" /\ InPhase(c, ph, i)
  BY <1>3, PhaseOf
<1>7. ph = "connecting" /\ c \in Access /\ Connecting(i)
  BY <1>3, <1>4, <1>5, MacWho
<1>8. MacData'
  BY <1>2, <1>3, CoreParts DEF MacData, macUeVars
<1>9. \A j \in Id \ {i} : SameMac(j)
  BY <1>2, <1>3 DEF SameMac, macUeVars
<1>10. \A j : SameRlc(j)
  BY RlcUnchanged DEF ByMac
<1>11. Connecting(i)'
  <2>1. \A x \in InMac(i)' : x \in InMac(i) /\ x.ev # "DL_CCCH"
    BY <1>3, <1>4, <1>7 DEF Connecting, OnePerEv, Without
  <2>2. OnePerEv(InMac(i)')
    BY <1>7, <2>1 DEF Connecting, OnePerEv
  <2>3. i \in macRaCb
    BY <1>3, <1>4, <1>7 DEF Connecting
  <2>4. UNCHANGED ueCb /\ UNCHANGED macUe
    BY <1>2 DEF ByMac, duVars, macUeVars
  <2>5. QED
    BY <1>2, <1>7, <1>10, <2>1, <2>2, <2>3, <2>4 DEF Connecting, SameRlc, Idle, NoCfra
<1>12. InPhase(c, ph, i)'
  BY <1>5, <1>7, <1>11 DEF InPhase, ByMac, duVars
<1>13. UNCHANGED cuUe
  BY DEF ByMac
<1>14. Keeps
  BY <1>2, <1>3, <1>5, <1>8, <1>9, <1>12, <1>13, MacMoves
<1>15. MacQuiet("DL_CCCH")
  BY <1>1, <1>3, <1>9 DEF MacQuiet
<1>16. QED
  BY <1>14, <1>15

LEMMA MacUeCreateReqKeeps ==
    ASSUME Core, ByMac, MacProcUeCreateReq
    PROVE  Keeps /\ MacTold("CREATE", "CREATE")
<1>1. PICK i, t, ok : i = Head(duToMac).ue /\ t = ReqTok("duToMac", "CREATE")
                      /\ ok = (macUe[i] # "ACTIVE" /\ ~(macNumActvUe > MaxNumUe))
  OBVIOUS
<1>2. Request("CREATE") /\ ToDu("CREATE", i, ok) /\ ok \in BOOLEAN /\ UNCHANGED raVars
  BY <1>1 DEF MacProcUeCreateReq
<1>3. i \in Id /\ Head(duToMac) \in DuToMac /\ t \in InMac(i) /\ t.ev = "CREATE" /\ t.at = "duToMac"
  BY <1>1, <1>2, MacFirst, Places
<1>4. PICK c \in CuUe, ph \in Phase :
        HasPhase(c, ph, i) /\ ph # "idle" /\ InPhase(c, ph, i)
  BY <1>3, PhaseOf
<1>6. \/ ph = "connecting" /\ c \in Access /\ Connecting(i)
      \/ ph = "handin" /\ Creating(i) /\ HandingIn(i)
  <2>1. \/ ph = "connecting" /\ c \in Access /\ Connecting(i)
        \/ ph = "handin" /\ Creating(i)
    BY <1>3, <1>4, MacWho
  <2>2. QED
    BY <1>4, <2>1 DEF InPhase
<1>7. OnePerEv(InMac(i))
  BY <1>4, OnePer
<1>8. \A x \in InMac(i) : x.ev = "CREATE" => x = t
  BY <1>3, <1>7 DEF OnePerEv
<1>9. \A x \in InMac(i) : x.at = "macToDu" => FALSE
  <2>1. \A x \in InMac(i) : x.at = "macToDu" => x.ev = "CREATE"
    BY <1>6 DEF Connecting, Creating
  <2>2. QED
    BY <1>3, <1>8, <2>1
<1>10. /\ InMac(i)' = With(Without(InMac(i), t), Tok("macToDu", "CREATE", ok))
       /\ (\A j : j # i => InMac(j)' = InMac(j)) /\ MacQ'
  BY <1>1, <1>2, <1>9, MacAnswers
<1>11. PICK n : n = Tok("macToDu", "CREATE", ok)
  OBVIOUS
<1>12. n.at = "macToDu" /\ n.ev = "CREATE" /\ n.ok = ok
  BY <1>11, Places
<1>13. /\ \A x \in InMac(i)' : x = n \/ (x \in InMac(i) /\ x.ev # "CREATE")
       /\ \A x \in InMac(i) : x.ev # "CREATE" => x \in InMac(i)'
  BY <1>3, <1>8, <1>10, <1>11 DEF With, Without
<1>14. OnePerEv(InMac(i)')
  BY <1>7, <1>12, <1>13 DEF OnePerEv
<1>15. macUe[i] \in {"NONE", "ACTIVE", "HANDIN"} /\ Head(duToMac).lcs \in SUBSET Rb
  BY <1>3, CoreParts DEF MacData, DuToMac
<1>16. /\ macUe' = IF ok THEN [macUe EXCEPT ![i] = IF i \in macRaCb THEN "ACTIVE" ELSE "HANDIN"] ELSE macUe
       /\ macLc' = IF ok THEN [macLc EXCEPT ![i] = Head(duToMac).lcs] ELSE macLc
       /\ schUe' = IF schUe[i] = "ACTIVE" THEN schUe
                   ELSE [schUe EXCEPT ![i] = IF i \in schTcrnti THEN "ACTIVE" ELSE "HANDIN"]
       /\ schLc' = IF schUe[i] = "ACTIVE" THEN schLc ELSE [schLc EXCEPT ![i] = Head(duToMac).lcs]
  BY <1>1 DEF MacProcUeCreateReq, CreateUeCb
<1>17. MacData'
  BY <1>2, <1>3, <1>15, <1>16, CoreParts DEF MacData, raVars
<1>18. \A j \in Id \ {i} : SameMac(j)
  <2>1. MacData
    BY CoreParts
  <2>2. QED
    BY <1>2, <1>10, <1>16, <2>1 DEF SameMac, raVars, MacData
<1>19. /\ \A j : SameRlc(j)
       /\ UNCHANGED ueCb /\ UNCHANGED cuUe
  BY RlcUnchanged DEF ByMac, duVars
<1>20. macUe'[i] = IF ok THEN IF i \in macRaCb THEN "ACTIVE" ELSE "HANDIN" ELSE macUe[i]
  BY <1>3, <1>16, CoreParts DEF MacData
<1>21. InPhase(c, ph, i)'
  <2>1. CASE ph = "connecting" /\ c \in Access /\ Connecting(i)
    <3>1. macUe[i] = "NONE" /\ i \in macRaCb
      BY <1>3, <2>1 DEF Connecting
    <3>2. Connecting(i)'
      BY <1>2, <1>12, <1>13, <1>14, <1>19, <1>20, <2>1, <3>1 DEF Connecting, SameRlc, Idle, NoCfra, raVars
    <3>3. QED
      BY <1>4, <1>19, <2>1, <3>2 DEF InPhase
  <2>2. CASE ph = "handin" /\ Creating(i) /\ HandingIn(i)
    <3>1. \A x \in InMac(i)' : x = n
      BY <1>13, <2>2 DEF Creating
    <3>2. ueCb[i].mac # "CREATE_COMPLETE"
      BY <1>3, <2>2 DEF Creating
    <3>3. Creating(i)'
      BY <1>12, <1>19, <2>2, <3>1, <3>2 DEF Creating, One, SameRlc
    <3>4. i \notin macRaCb /\ macUe[i] # "ACTIVE"
      BY <2>2 DEF HandingIn, Hand, NoRa
    <3>5. Hand(i)'
      BY <1>2, <1>20, <2>2, <3>4 DEF HandingIn, Hand, NoRa, raVars
    <3>6. HandingIn(i)'
      BY <1>19, <2>2, <3>3, <3>5 DEF HandingIn
    <3>7. QED
      BY <1>4, <1>19, <2>2, <3>6 DEF InPhase
  <2>3. QED
    BY <1>6, <2>1, <2>2
<1>22. Keeps
  BY <1>2, <1>3, <1>4, <1>10, <1>17, <1>18, <1>19, <1>21, MacMoves DEF raVars
<1>23. MacTold("CREATE", "CREATE")
  BY <1>1, <1>3, <1>10, <1>18 DEF MacTold
<1>24. QED
  BY <1>22, <1>23

LEMMA MacUeReconfigReqKeeps ==
    ASSUME Core, ByMac, MacProcUeReconfigReq
    PROVE  Keeps /\ MacTold("RECONFIG", "RECONFIG")
<1>1. PICK i, t, r : i = Head(duToMac).ue /\ t = ReqTok("duToMac", "RECONFIG") /\ r = Head(duToMac)
  OBVIOUS
<1> DEFINE ok == macUe[i] = "ACTIVE" /\ macNumActvUe <= MaxNumUe
<1>2. /\ Request("RECONFIG") /\ ok \in BOOLEAN /\ UNCHANGED <<raVars, macUe, schUe>>
      /\ ToDu("RECONFIG", i, ok) \/ UNCHANGED macToDu
      /\ schLc' = schLc \/ schLc' = [schLc EXCEPT ![i] = WithLcs(r.op, r.lcs, @)]
      /\ macLc' = macLc \/ macLc' = [macLc EXCEPT ![i] = WithLcs(r.op, r.lcs, @)]
  BY <1>1 DEF MacProcUeReconfigReq
<1> HIDE DEF ok
<1>3. i \in Id /\ r \in DuToMac /\ t \in InMac(i) /\ t.ev = "RECONFIG" /\ t.at = "duToMac"
  BY <1>1, <1>2, MacFirst, Places
<1>4. PICK c \in CuUe, ph \in Phase :
        HasPhase(c, ph, i) /\ ph # "idle" /\ InPhase(c, ph, i)
  BY <1>3, PhaseOf
<1>5. ph = "asked" /\ Running(i)
  BY <1>3, <1>4, MacWho
<1>6. \A x \in InMac(i) : x.at = "macToDu" => x.ev # "RECONFIG"
  BY <1>3, <1>5 DEF Running, OnePerEv
<1>7. PICK n : n = Tok("macToDu", "RECONFIG", ok)
  OBVIOUS
<1>8. /\ InMac(i)' \subseteq With(Without(InMac(i), t), n)
      /\ (\A j : j # i => InMac(j)' = InMac(j)) /\ MacQ'
  <2>1. CASE ToDu("RECONFIG", i, ok)
    BY <1>1, <1>2, <1>6, <1>7, <2>1, MacAnswers
  <2>2. CASE UNCHANGED macToDu
    BY <1>1, <1>2, <2>2, MacTakes DEF With
  <2>3. QED
    BY <1>2, <2>1, <2>2
<1>9. n.at = "macToDu" /\ n.ev = "RECONFIG"
  BY <1>7, Places
<1>10. \A x \in InMac(i)' : x = n \/ x \in InMac(i) \ {t}
  BY <1>8 DEF With, Without
<1>11. MacData'
  <2>1. MacData
    BY CoreParts
  <2>2. WithLcs(r.op, r.lcs, schLc[i]) \in SUBSET Rb /\ WithLcs(r.op, r.lcs, macLc[i]) \in SUBSET Rb
    BY <1>3, <2>1 DEF WithLcs, DuToMac, MacData
  <2>3. QED
    BY <1>2, <1>3, <2>1, <2>2 DEF MacData, raVars
<1>12. \A j \in Id \ {i} : SameMac(j)
  <2>1. MacData
    BY CoreParts
  <2>2. QED
    BY <1>2, <1>8, <2>1 DEF SameMac, raVars, MacData
<1>13. (\A j : SameRlc(j)) /\ UNCHANGED ueCb /\ UNCHANGED cuUe
  BY RlcUnchanged DEF ByMac, duVars
<1>14. InPhase(c, ph, i)'
  <2>1. Running(i)'
    <3>1. OnePerEv(InMac(i)')
      BY <1>3, <1>5, <1>9, <1>10 DEF Running, OnePerEv
    <3>2. \A x \in InMac(i)' : x.ev \in {"CREATE", "RECONFIG"} /\ (x.ev = "CREATE" => x.at = "macToDu")
      BY <1>5, <1>9, <1>10 DEF Running
    <3>3. ueCb[i].mac # "RECFG_COMPLETE"
      BY <1>3, <1>5 DEF Running
    <3>4. QED
      BY <1>5, <1>13, <3>1, <3>2, <3>3 DEF Running, SameRlc
  <2>2. Asked(i)'
    BY <1>2, <1>4, <1>5, <1>13, <2>1 DEF InPhase, Asked, Est, NoRa, NoCfra, raVars
  <2>3. QED
    BY <1>4, <1>5, <1>13, <2>2 DEF InPhase
<1>15. Keeps
  BY <1>2, <1>3, <1>4, <1>8, <1>11, <1>12, <1>13, <1>14, MacMoves DEF raVars
<1>16. MacTold("RECONFIG", "RECONFIG")
  BY <1>1, <1>3, <1>7, <1>8, <1>9, <1>10, <1>11, <1>12 DEF MacTold
<1>17. QED
  BY <1>15, <1>16

LEMMA MacUeDeleteReqKeeps ==
    ASSUME Core, ByMac, MacProcUeDeleteReq
    PROVE  Keeps /\ MacTold("DELETE", "DELETE")
<1>1. PICK i, t : i = Head(duToMac).ue /\ t = ReqTok("duToMac", "DELETE")
  OBVIOUS
<1> DEFINE ok == macUe[i] # "NONE" /\ schUe[i] = "ACTIVE"
<1>2. /\ Request("DELETE") /\ ok \in BOOLEAN /\ ToDu("DELETE", i, ok)
      /\ UNCHANGED <<ueBitMap, macRaCb, msg4Pdu, schTcrnti, schMsg4Done, schPreamble>>
      /\ schUe' = IF ok THEN [schUe EXCEPT ![i] = "NONE"] ELSE schUe
      /\ schLc' = IF ok THEN [schLc EXCEPT ![i] = {}] ELSE schLc
      /\ macUe' = IF ok THEN [macUe EXCEPT ![i] = "NONE"] ELSE macUe
      /\ macLc' = IF ok THEN [macLc EXCEPT ![i] = {}] ELSE macLc
      /\ macCfra' = IF ok THEN macCfra \ {i} ELSE macCfra
  BY <1>1 DEF MacProcUeDeleteReq, macUeVars
<1> HIDE DEF ok
<1>3. i \in Id /\ t \in InMac(i) /\ t.ev = "DELETE" /\ t.at = "duToMac"
  BY <1>1, <1>2, MacFirst, Places
<1>4. PICK c \in CuUe, ph \in Phase :
        HasPhase(c, ph, i) /\ ph # "idle" /\ InPhase(c, ph, i)
  BY <1>3, PhaseOf
<1>5. ph = "releasing" /\ DeletingInMac(i)
  BY <1>3, <1>4, MacWho
<1>6. \A x \in InMac(i) : x.at = "macToDu" => x.ev # "DELETE"
  BY <1>3, <1>5 DEF DeletingInMac, OnePerEv
<1>7. PICK n : n = Tok("macToDu", "DELETE", ok)
  OBVIOUS
<1>8. /\ InMac(i)' = With(Without(InMac(i), t), n)
      /\ (\A j : j # i => InMac(j)' = InMac(j)) /\ MacQ'
  BY <1>1, <1>2, <1>6, <1>7, MacAnswers
<1>9. n.at = "macToDu" /\ n.ev = "DELETE" /\ n.ok = ok
  BY <1>7, Places
<1>10. \A x \in InMac(i)' : x = n \/ x \in InMac(i) \ {t}
  BY <1>8 DEF With, Without
<1>11. MacData
  BY CoreParts
<1>12. MacData'
  <2>1. UNION {ueBitMap', macRaCb', msg4Pdu', macCfra', schTcrnti', schMsg4Done', schPreamble'} \subseteq Id
    BY <1>2, <1>11 DEF MacData
  <2>2. macUe' \in [Id -> {"NONE", "ACTIVE", "HANDIN"}] /\ schUe' \in [Id -> {"NONE", "ACTIVE", "HANDIN"}]
    BY <1>2, <1>11 DEF MacData
  <2>3. macLc' \in [Id -> SUBSET Rb] /\ schLc' \in [Id -> SUBSET Rb]
    BY <1>2, <1>11 DEF MacData
  <2>4. QED
    BY <2>1, <2>2, <2>3 DEF MacData
<1>13. \A j \in Id \ {i} : SameMac(j)
  BY <1>2, <1>8, <1>11 DEF SameMac, MacData
<1>14. (\A j : SameRlc(j)) /\ UNCHANGED ueCb /\ UNCHANGED cuUe
  BY RlcUnchanged DEF ByMac, duVars
<1>15. ok => MacEmpty(i)'
  BY <1>2, <1>3, <1>11 DEF MacEmpty, MacData
<1>16. InPhase(c, ph, i)'
  <2>1. DeletingInMac(i)'
    <3>1. OnePerEv(InMac(i)')
      BY <1>3, <1>5, <1>9, <1>10 DEF DeletingInMac, OnePerEv
    <3>2. ASSUME NEW x \in InMac(i)'
          PROVE  /\ x.ev \in {"CREATE", "DELETE"}
                 /\ x.ev = "CREATE" => x.at = "macToDu"
                 /\ x.ev = "DELETE" /\ x.at = "macToDu" /\ x.ok => MacEmpty(i)'
      <4>1. CASE x = n
        BY <1>9, <1>15, <4>1
      <4>2. CASE x # n
        BY <1>3, <1>5, <1>10, <4>2 DEF DeletingInMac, OnePerEv
      <4>3. QED
        BY <4>1, <4>2
    <3>3. RlcEmpty(i)' /\ InRlc(i)' = {}
      BY <1>5, <1>14 DEF DeletingInMac, SameRlc, RlcEmpty
    <3>4. QED
      BY <1>5, <1>14, <3>1, <3>2, <3>3 DEF DeletingInMac
  <2>2. macUe'[i] # "HANDIN"
    BY <1>2, <1>3, <1>4, <1>5, <1>11 DEF InPhase, Releasing, Est, MacData
  <2>3. Releasing(i)'
    BY <1>2, <1>4, <1>5, <2>1, <2>2 DEF InPhase, Releasing, Est, NoRa, NoCfra
  <2>4. QED
    BY <1>4, <1>5, <1>14, <2>3 DEF InPhase
<1>17. Keeps
  BY <1>2, <1>3, <1>4, <1>8, <1>12, <1>13, <1>14, <1>16, MacMoves
<1>18. MacTold("DELETE", "DELETE")
  BY <1>1, <1>3, <1>7, <1>8, <1>13 DEF MacTold
<1>19. QED
  BY <1>17, <1>18

LEMMA MacRachRsrcReqKeeps ==
    ASSUME Core, ByMac, MacProcRachRsrcReq
    PROVE  Keeps /\ MacTold("RACH_REQ", "RACH")
<1>1. PICK i, t : i = Head(duToMac).ue /\ t = ReqTok("duToMac", "RACH_REQ")
  OBVIOUS
<1> DEFINE ok == SchFinds(i)
<1>2. /\ Request("RACH_REQ") /\ ok \in BOOLEAN
      /\ \/ ToDu("RACH", i, ok) /\ macUe[i] # "NONE"
         \/ UNCHANGED <<macToDu, macCfra, schPreamble>>
      /\ \/ macCfra' = macCfra /\ schPreamble' = schPreamble
         \/ macUe[i] # "NONE" /\ macCfra' = macCfra \union {i} /\ schPreamble' = schPreamble \union {i}
      /\ UNCHANGED <<ueBitMap, macRaCb, msg4Pdu, schTcrnti, schMsg4Done, macUeVars>>
  BY <1>1 DEF MacProcRachRsrcReq, SchFinds
<1> HIDE DEF ok
<1>3. i \in Id /\ t \in InMac(i) /\ t.ev = "RACH_REQ" /\ t.at = "duToMac"
  BY <1>1, <1>2, MacFirst, Places
<1>4. PICK c \in CuUe, ph \in Phase :
        HasPhase(c, ph, i) /\ ph # "idle" /\ InPhase(c, ph, i)
  BY <1>3, PhaseOf
<1>5. ph = "handin" /\ Preambles(i) /\ HandingIn(i)
  <2>1. ph = "handin" /\ Preambles(i)
    BY <1>3, <1>4, MacWho
  <2>2. QED
    BY <1>4, <2>1 DEF InPhase
<1>6. \A x \in InMac(i) : x = t
  BY <1>3, <1>5 DEF Preambles, One
<1>7. PICK n : n = Tok("macToDu", "RACH", ok)
  OBVIOUS
<1>8. /\ InMac(i)' \subseteq With(Without(InMac(i), t), n)
      /\ (\A j : j # i => InMac(j)' = InMac(j)) /\ MacQ'
  <2>1. CASE ToDu("RACH", i, ok)
    <3>1. \A x \in InMac(i) : x.at # "macToDu"
      BY <1>3, <1>6
    <3>2. QED
      BY <1>1, <1>2, <1>7, <2>1, <3>1, MacAnswers
  <2>2. CASE UNCHANGED macToDu
    BY <1>1, <1>2, <2>2, MacTakes DEF With
  <2>3. QED
    BY <1>2, <2>1, <2>2
<1>9. n.at = "macToDu" /\ n.ev = "RACH"
  BY <1>7, Places
<1>10. \A x \in InMac(i)' : x = n
  BY <1>6, <1>8 DEF With, Without
<1>11. MacData
  BY CoreParts
<1>12. MacData'
  BY <1>2, <1>3, <1>11 DEF MacData, macUeVars
<1>13. \A j \in Id \ {i} : SameMac(j)
  BY <1>2, <1>8, <1>11 DEF SameMac, macUeVars
<1>14. (\A j : SameRlc(j)) /\ UNCHANGED ueCb /\ UNCHANGED cuUe
  BY RlcUnchanged DEF ByMac, duVars
<1>15. InPhase(c, ph, i)'
  <2>1. Preambles(i)'
    BY <1>5, <1>9, <1>10, <1>14 DEF Preambles, One, SameRlc
  <2>2. Hand(i)'
    BY <1>2, <1>5 DEF HandingIn, Hand, NoRa, macUeVars
  <2>3. HandingIn(i)'
    BY <1>5, <1>14, <2>1, <2>2 DEF HandingIn
  <2>4. QED
    BY <1>4, <1>5, <1>14, <2>3 DEF InPhase
<1>16. Keeps
  BY <1>2, <1>3, <1>4, <1>8, <1>12, <1>13, <1>14, <1>15, MacMoves
<1>17. MacTold("RACH_REQ", "RACH")
  BY <1>1, <1>3, <1>7, <1>8, <1>13 DEF MacTold
<1>18. QED
  BY <1>16, <1>17

LEMMA MacRachRsrcRelKeeps ==
    ASSUME Core, ByMac, MacProcRachRsrcRel
    PROVE  Keeps /\ MacQuiet("RACH_REL")
<1>1. PICK i, t : i = Head(duToMac).ue /\ t = ReqTok("duToMac", "RACH_REL")
  OBVIOUS
<1> DEFINE held == {k \in macCfra : k = i /\ macUe[k] # "NONE"}
<1>2. /\ Request("RACH_REL") /\ macCfra' = macCfra \ held /\ schPreamble' = schPreamble \ held
      /\ UNCHANGED <<macToDu, ueBitMap, macRaCb, msg4Pdu, schTcrnti, schMsg4Done, macUeVars>>
  BY <1>1 DEF MacProcRachRsrcRel, ReleaseCfra
<1>3. /\ i \in Id /\ t \in InMac(i) /\ InMac(i)' = Without(InMac(i), t)
      /\ (\A j : j # i => InMac(j)' = InMac(j)) /\ MacQ'
  BY <1>1, <1>2, MacTakes
<1>4. t.ev = "RACH_REL" /\ t.at = "duToMac"
  BY <1>1, Places
<1>5. PICK c \in CuUe, ph \in Phase :
        HasPhase(c, ph, i) /\ ph # "idle" /\ InPhase(c, ph, i)
  BY <1>3, PhaseOf
<1>6. ph = "ready" /\ HandedIn(i) /\ c \notin Access
  <2>1. ph = "ready" /\ HandedIn(i)
    BY <1>3, <1>4, <1>5, MacWho
  <2>2. CASE c \in Access
    <3>1. Ready(i)
      BY <1>5, <2>1, <2>2 DEF InPhase
    <3>2. QED
      BY <1>3, <3>1 DEF Ready
  <2>3. QED
    BY <2>1, <2>2
<1>7. InMac(i)' = {}
  BY <1>3, <1>6 DEF HandedIn, One, Without
<1>8. MacData'
  BY <1>2, CoreParts DEF MacData, macUeVars
<1>9. \A j \in Id \ {i} : SameMac(j)
  BY <1>2, <1>3 DEF SameMac, macUeVars
<1>10. (\A j : SameRlc(j)) /\ UNCHANGED ueCb /\ UNCHANGED cuUe
  BY RlcUnchanged DEF ByMac, duVars
<1>11. NoCfra(i)'
  BY <1>2, <1>6 DEF HandedIn, Hand, NoCfra
<1>12. HandedIn(i)'
  BY <1>2, <1>6, <1>7, <1>10, <1>11
     DEF HandedIn, Hand, NoRa, NoCfra, Idle, One, SameRlc, macUeVars
<1>13. InPhase(c, ph, i)'
  BY <1>5, <1>6, <1>10, <1>12 DEF InPhase
<1>14. Keeps
  BY <1>2, <1>3, <1>5, <1>8, <1>9, <1>10, <1>13, MacMoves
<1>15. MacQuiet("RACH_REL")
  BY <1>1, <1>3, <1>9 DEF MacQuiet
<1>16. QED
  BY <1>14, <1>15

LEMMA Msg4Keeps ==
    ASSUME Core, ByMac, NEW i \in Id, Msg4Acked(i)
    PROVE  Keeps
<1>1. i \in msg4Pdu /\ ~Unused(i)
  BY DEF Msg4Acked, Unused, NoRa
<1>2. PICK c \in CuUe, ph \in Phase :
        HasPhase(c, ph, i) /\ ph # "idle" /\ InPhase(c, ph, i)
  BY <1>1, Owner DEF HasPhase
<1>3. ph = "connecting" /\ c \in Access /\ Connecting(i)
  BY <1>1, <1>2 DEF InPhase, Phase, Accessing, Initial, New, Completing, Connected, Asked, Ready,
        Releasing, HandingIn, Arriving, Arrived, HandedIn, Est, Hand, NoRa
<1>4. /\ macRaCb' = macRaCb \ {i} /\ msg4Pdu' = msg4Pdu \ {i} /\ schMsg4Done' = schMsg4Done \union {i}
      /\ macUe[i] # "NONE"
      /\ UNCHANGED <<duToMac, macToDu, ueBitMap, macCfra, schTcrnti, schPreamble, macUeVars>>
  BY DEF Msg4Acked
<1>5. (\A j : InMac(j)' = InMac(j)) /\ MacQ'
  BY <1>4, CoreParts DEF InMac, MacQ
<1>6. MacData'
  BY <1>4, CoreParts DEF MacData, macUeVars
<1>7. \A j \in Id \ {i} : SameMac(j)
  BY <1>4, <1>5 DEF SameMac, macUeVars
<1>8. (\A j : SameRlc(j)) /\ UNCHANGED ueCb /\ UNCHANGED cuUe
  BY RlcUnchanged DEF ByMac, duVars
<1>9. macUe[i] = "ACTIVE"
  BY <1>3, <1>4, CoreParts DEF MacData, Connecting
<1>10. Connecting(i)'
  <2>1. \A x \in InMac(i) : x.ev # "DL_CCCH"
    BY <1>1, <1>3 DEF Connecting
  <2>2. QED
    BY <1>3, <1>4, <1>5, <1>8, <1>9, <2>1 DEF Connecting, SameRlc, Idle, NoCfra, macUeVars
<1>11. InPhase(c, ph, i)'
  BY <1>2, <1>3, <1>8, <1>10 DEF InPhase
<1>12. QED
  BY <1>2, <1>4, <1>5, <1>6, <1>7, <1>8, <1>11, MacMoves

-----------------------------------------------------------------------------
(* Steps in which the CU's view of the UE may move.                          *)

CuCb == [ph : Phase, id : Id \union {0}, rbs : SUBSET Rb]

CuMoves(c, i, x) ==
    /\ cuUe' \in [CuUe -> CuCb]
    /\ cuUe'[c].ph = x /\ cuUe'[c].id = i
    /\ \A d \in CuUe \ {c} : cuUe'[d] = cuUe[d]

LEMMA CuPh ==
    ASSUME Core, NEW c \in CuUe, NEW ph, NEW i, HasPhase(c, ph, i), NEW x \in Phase,
           cuUe' = [cuUe EXCEPT ![c].ph = x]
    PROVE  CuMoves(c, i, x)
BY CoreParts DEF DuTypes, CuMoves, CuCb, HasPhase

LEMMA CuPhRbs ==
    ASSUME Core, NEW c \in CuUe, NEW ph, NEW i, HasPhase(c, ph, i), NEW x \in Phase, NEW rbs \in SUBSET Rb,
           cuUe' = [cuUe EXCEPT ![c].ph = x, ![c].rbs = rbs]
    PROVE  CuMoves(c, i, x)
BY CoreParts DEF DuTypes, CuMoves, CuCb, HasPhase

LEMMA CuStays ==
    ASSUME Core, NEW c \in CuUe, NEW ph, NEW i, HasPhase(c, ph, i), UNCHANGED cuUe
    PROVE  CuMoves(c, i, ph)
BY CoreParts DEF DuTypes, CuMoves, CuCb, HasPhase

LEMMA CcchAt ==
    ASSUME Core, NEW c \in CuUe, NEW ph, NEW i, HasPhase(c, ph, i), NEW x, CuMoves(c, i, x),
           ph \notin {"access", "initial"}, x \notin {"access", "initial"},
           UNCHANGED <<ueCcchCtxt, numUe>>
    PROVE  Ccch'
<1>1. CcchKept
  <2>1. \A d \in CuUe : d = c \/ cuUe'[d] = cuUe[d]
    BY DEF CuMoves
  <2>2. QED
    BY <2>1 DEF CcchKept, CuMoves, HasPhase
<1>2. QED
  BY <1>1, CcchFrame

LEMMA MovesAt ==
    ASSUME Core, NEW c \in CuUe, NEW ph, NEW x, NEW i \in Id, HasPhase(c, ph, i),
           CuMoves(c, i, x), x # "idle", InPhase(c, x, i)', ueBitMap' = ueBitMap,
           \A j \in Id \ {i} : Same(j), MacQ', RlcQ', MacData', RlcData', SameUdx,
           ueCb' \in [Id -> UeCb], ueCcchCtxt' \in [0 .. MaxNumUe - 1 -> Id \union {0}],
           Ccch', ~nullDb'
    PROVE  Keeps
<1>1. AtOne(c, i)
  BY DEF AtOne, CuMoves, HasPhase
<1>2. InPhase(c, cuUe[c].ph, i)'
  BY DEF CuMoves
<1>3. DuTypes'
  BY DEF DuTypes, CuMoves, CuCb
<1>4. QED
  BY <1>1, <1>2, <1>3, StepKeeps

-----------------------------------------------------------------------------
(* The UEs.                                                                  *)

LEMMA PhaseIs ==
    ASSUME Core, NEW c \in CuUe, cuUe[c].ph # "idle"
    PROVE  /\ cuUe[c].id \in Id /\ cuUe[c].id \in ueBitMap
           /\ HasPhase(c, cuUe[c].ph, cuUe[c].id)
           /\ InPhase(c, cuUe[c].ph, cuUe[c].id)
           /\ cuUe[c].ph \in Phase
           /\ \A d \in CuUe : cuUe[d].id = cuUe[c].id => d = c
BY DEF Core, Owners, Lives, HasPhase, Types, MacTypes, DuTypes

LEMMA UeHandInKeeps ==
    ASSUME Core, NEW c \in CuUe, UeHandIn(c)
    PROVE  Keeps
<1>1. PICK i : i = cuUe[c].id
  OBVIOUS
<1>2. /\ cuUe[c].ph = "arriving" /\ RachCfra(i)
      /\ cuUe' = [cuUe EXCEPT ![c].ph = "connecting"]
      /\ UNCHANGED <<rlcVars, duVars, duToRlcDl>>
  BY <1>1 DEF UeHandIn, UeStep
<1>3. i \in Id /\ HasPhase(c, "arriving", i) /\ InPhase(c, "arriving", i)
  BY <1>1, <1>2, PhaseIs
<1>4. Arriving(i) /\ c \notin Access
  BY <1>3, DuUeAssumption DEF InPhase
<1>5. /\ schUe' = schUe \/ schUe' = [schUe EXCEPT ![i] = "ACTIVE"]
      /\ schTcrnti' = schTcrnti \/ schTcrnti' = schTcrnti \union {i}
      /\ schMsg4Done' = schMsg4Done \union {i} \/ schMsg4Done' = schMsg4Done \ {i}
      /\ UNCHANGED <<duToMac, macToDu, ueBitMap, macRaCb, msg4Pdu, macCfra, schPreamble,
                     macUe, macLc, macNumActvUe, schLc>>
  BY <1>2 DEF RachCfra
<1>6. MacQ' /\ \A j : InMac(j)' = InMac(j)
  BY <1>5, CoreParts DEF MacQ, InMac
<1>7. MacData'
  <2>1. MacData
    BY CoreParts
  <2>2. schUe' \in [Id -> {"NONE", "ACTIVE", "HANDIN"}]
    BY <1>5, <2>1 DEF MacData
  <2>3. UNION {ueBitMap', macRaCb', msg4Pdu', macCfra', schTcrnti', schMsg4Done', schPreamble'} \subseteq Id
    BY <1>3, <1>5, <2>1 DEF MacData
  <2>4. QED
    BY <1>5, <2>1, <2>2, <2>3 DEF MacData
<1>8. \A j \in Id \ {i} : SameMac(j)
  BY <1>5, <1>6, CoreParts DEF SameMac, MacData
<1>9. RlcQ' /\ RlcData' /\ SameUdx /\ \A j : SameRlc(j)
  BY <1>2, RlcStill
<1>10. UNCHANGED <<ueCb, ueCcchCtxt, numUe, nullDb>> /\ ~nullDb'
  BY <1>2 DEF duVars, Core
<1>11. CuMoves(c, i, "connecting")
  BY <1>2, <1>3, CuPh DEF Phase
<1>12. Arriving(i)'
  BY <1>4, <1>5, <1>6, <1>9, <1>10 DEF Arriving, Hand, NoRa, Idle, SameRlc
<1>13. InPhase(c, "connecting", i)'
  BY <1>3, <1>4, <1>10, <1>12 DEF InPhase
<1>14. Ccch'
  BY <1>3, <1>10, <1>11, CcchAt
<1>15. \A j \in Id \ {i} : Same(j)
  BY <1>8, <1>9, <1>10 DEF Same
<1>16. ueCb' \in [Id -> UeCb] /\ ueCcchCtxt' \in [0 .. MaxNumUe - 1 -> Id \union {0}]
  BY <1>10, CoreParts DEF DuTypes
<1>17. QED
  BY <1>3, <1>5, <1>6, <1>7, <1>9, <1>10, <1>11, <1>13, <1>14, <1>15, <1>16, MovesAt

\* RLC sends an RRC message to the DU application.
LEMMA RlcSends ==
    ASSUME Core, NEW i \in Id, NEW e \in {"UL_RRC", "DL_RRC"},
           rlcToDu' = Append(rlcToDu, [ev |-> e, ue |-> i, ok |-> TRUE]),
           UNCHANGED <<duToRlc, udxReq, udxCfm, ueDelTmr, duToRlcDl>>,
           \A x \in InRlc(i) : x.at = "rlcToDu" => x.ev \notin {e, "UL_RRC"}
    PROVE  /\ InRlc(i)' = With(InRlc(i), Tok("rlcToDu", e, TRUE))
           /\ \A j : j # i => InRlc(j)' = InRlc(j)
           /\ RlcQ'
<1> DEFINE m == [ev |-> e, ue |-> i, ok |-> TRUE]
<1>1. /\ RlcQ /\ rlcToDu \in Seq(RlcToDu) /\ rlcToDu' = Put(rlcToDu, m)
      /\ Distinct(rlcToDu) /\ UlRrcLast(rlcToDu)
  BY CoreParts DEF RlcQ, Put
<1>2. /\ m \in RlcToDu /\ i = Ue(m) /\ e = Ev(m)
      /\ Tok("rlcToDu", e, TRUE) = Tok("rlcToDu", Ev(m), Ok(m))
  BY DEF RlcToDu, RspMsg, Ue, Ev, Ok
<1> HIDE DEF m
<1>3. \A j : InRlc(j)' = RlcToks(duToRlcDl, duToRlc, ueDelTmr, udxReq, udxCfm, Put(rlcToDu, m), j)
  BY <1>1 DEF InRlc
<1>4. InRlc(i)' = With(InRlc(i), Tok("rlcToDu", e, TRUE))
  <2>1. RlcToks(duToRlcDl, duToRlc, ueDelTmr, udxReq, udxCfm, Put(rlcToDu, m), i) =
            With(RlcToks(duToRlcDl, duToRlc, ueDelTmr, udxReq, udxCfm, rlcToDu, i),
                 Tok("rlcToDu", Ev(m), Ok(m)))
    BY <1>1, <1>2, RlcPutRsp
  <2>2. QED
    BY <1>2, <1>3, <2>1, InRlcIs
<1>5. \A j : j # i => InRlc(j)' = InRlc(j)
  BY <1>1, <1>2, <1>3, RlcPutRspOthers, InRlcIs
<1>6. Put(rlcToDu, m) \in Seq(RlcToDu)
  BY <1>1, <1>2, PutToSet
<1>7. Distinct(Put(rlcToDu, m)) /\ UlRrcLast(Put(rlcToDu, m))
  <2>1. \A x \in RlcToks(duToRlcDl, duToRlc, ueDelTmr, udxReq, udxCfm, rlcToDu, Ue(m)) :
            x.at = "rlcToDu" => x.ev # Ev(m) /\ x.ev # "UL_RRC"
    BY <1>2, InRlcIs
  <2>2. QED
    BY <1>1, <1>2, <2>1, RlcPutRsp
<1>8. RlcQ'
  BY <1>1, <1>6, <1>7 DEF RlcQ
<1>9. QED
  BY <1>4, <1>5, <1>8

LEMMA UeRrcKeeps ==
    ASSUME Core, NEW c \in CuUe, UeRrc(c)
    PROVE  Keeps
<1>1. PICK i, n : i = cuUe[c].id /\ n = Tok("rlcToDu", "UL_RRC", TRUE)
  OBVIOUS
<1>2. /\ cuUe[c].ph = "connecting" /\ i \in schMsg4Done /\ Srb1 \in rlcUlRb[i]
      /\ cuUe' = [cuUe EXCEPT ![c].ph = "completing"]
      /\ rlcToDu' = Append(rlcToDu, [ev |-> "UL_RRC", ue |-> i, ok |-> TRUE])
      /\ UNCHANGED <<duToRlc, rlcOwnVars, macVars, duVars, duToRlcDl>>
  BY <1>1 DEF UeRrc
<1>3. i \in Id /\ HasPhase(c, "connecting", i) /\ InPhase(c, "connecting", i)
  BY <1>1, <1>2, PhaseIs
<1>4. IF c \in Access THEN Connecting(i) ELSE Arriving(i)
  BY <1>3 DEF InPhase
<1>5. \A x \in InRlc(i) : x.ev = "CREATE"
  BY <1>4 DEF Connecting, Arriving
<1>6. /\ InRlc(i)' = With(InRlc(i), n)
      /\ (\A j : j # i => InRlc(j)' = InRlc(j)) /\ RlcQ'
  BY <1>1, <1>2, <1>3, <1>5, RlcSends DEF rlcOwnVars
<1>7. n.at = "rlcToDu" /\ n.ev = "UL_RRC"
  BY <1>1 DEF Tok
<1>8. MacQ' /\ MacData' /\ \A j : SameMac(j)
  BY <1>2, MacStill
<1>9. UNCHANGED <<ueCb, ueCcchCtxt, numUe, nullDb>> /\ ~nullDb'
  BY <1>2 DEF duVars, Core
<1>10. RlcData' /\ SameUdx
  BY <1>2, CoreParts DEF RlcData, SameUdx, rlcOwnVars
<1>11. \A j \in Id \ {i} : Same(j)
  BY <1>2, <1>6, <1>8, <1>9 DEF Same, SameRlc, rlcOwnVars
<1>12. CuMoves(c, i, "completing")
  BY <1>2, <1>3, CuPh DEF Phase
<1>13. Ccch'
  BY <1>3, <1>9, <1>12, CcchAt
<1>14. InPhase(c, "completing", i)'
  <2>1. CASE c \in Access
    <3>1. Connecting(i)
      BY <1>4, <2>1
    <3>2. i \notin macRaCb /\ macUe[i] = "ACTIVE" /\ i \notin msg4Pdu
      BY <1>2, <3>1 DEF Connecting
    <3>3. \A x \in InMac(i) : x.ev = "CREATE" /\ x.at = "macToDu"
      BY <3>1, <3>2, MacPlaces DEF Connecting
    <3>4. Late(i)
      BY <3>1, <3>3 DEF Late, One, OnePerEv, Connecting
    <3>5. \A x \in InRlc(i) : x.ev = "CREATE" /\ x.at = "rlcToDu"
      BY <1>2, <3>1 DEF Connecting
    <3>6. OnePerEv(InRlc(i)') /\ \A x \in InRlc(i)' : x.at = "rlcToDu" /\ x.ev \in {"CREATE", "UL_RRC"}
      BY <1>6, <1>7, <3>1, <3>5 DEF With, OnePerEv, One, Connecting
    <3>7. Completing(i)'
      BY <1>8, <1>9, <3>1, <3>2, <3>4, <3>6 DEF Completing, Connecting, Est, NoCfra, NoRa, Idle, Late, SameMac
    <3>8. QED
      BY <1>3, <1>9, <2>1, <3>7 DEF InPhase
  <2>2. CASE c \notin Access
    <3>1. Arriving(i)
      BY <1>4, <2>2
    <3>2. InRlc(i)' = {n}
      BY <1>6, <3>1 DEF Arriving, With
    <3>3. Arrived(i)'
      BY <1>7, <1>8, <1>9, <3>1, <3>2 DEF Arriving, Arrived, Hand, NoRa, Idle, One, SameMac
    <3>4. QED
      BY <1>3, <1>9, <2>2, <3>3 DEF InPhase
  <2>3. QED
    BY <2>1, <2>2
<1>15. ueCb' \in [Id -> UeCb] /\ ueCcchCtxt' \in [0 .. MaxNumUe - 1 -> Id \union {0}]
  BY <1>9, CoreParts DEF DuTypes
<1>16. ueBitMap' = ueBitMap
  BY <1>2 DEF macVars, raVars
<1>17. QED
  BY <1>3, <1>6, <1>8, <1>9, <1>10, <1>11, <1>12, <1>13, <1>14, <1>15, <1>16, MovesAt

-----------------------------------------------------------------------------
(* The other steps of RLC.                                                   *)

LEMMA RlcKeeps ==
    ASSUME Core, ByRlc, RlcQ', RlcData', Events', Owners', Lives', Ccch', ~nullDb'
    PROVE  Keeps
<1>1. MacQ' /\ MacData'
  BY MacStill DEF ByRlc
<1>2. DuTypes'
  BY CoreParts DEF DuTypes, ByRlc, duVars
<1>3. QED
  BY <1>1, <1>2 DEF Keeps, Types, Queues, MacQ, RlcQ, MacData, RlcData, RlcTypes, MacTypes

LEMMA RlcProcUeDeleteReqKeeps ==
    ASSUME Core, ByRlc, RlcProcUeDeleteReq
    PROVE  Keeps /\ \E to : RlcStep(Head(duToRlc).ue, "duToRlc", to)
<1>1. PICK r, i, t : r = First(duToRlc) /\ i = r.ue /\ t = ReqTok("duToRlc", "DELETE")
  OBVIOUS
<1> DEFINE Mid(j) == RlcToks(duToRlcDl, Rest(duToRlc), ueDelTmr, udxReq, udxCfm, rlcToDu, j)
           m == [ev |-> "DELETE", ue |-> i, ok |-> FALSE]
<1>2. /\ duToRlc # <<>> /\ Ev(First(duToRlc)) = "DELETE" /\ i = Ue(First(duToRlc))
      /\ duToRlc' = Rest(duToRlc)
      /\ \/ i \in rlcUlUe /\ ueDelTmr' = With(ueDelTmr, i) /\ UNCHANGED rlcToDu
         \/ i \notin rlcUlUe /\ rlcToDu' = Put(rlcToDu, m) /\ UNCHANGED ueDelTmr
      /\ UNCHANGED <<udxReq, udxCfm, rlcUlUe, rlcUlRb, rlcDlRb, rlcUlUdxEventType, duToRlcDl>>
  BY <1>1 DEF RlcProcUeDeleteReq, ByRlc, First, Rest, Put, With, Ev, Ue
<1>3. /\ RlcQ /\ Distinct(duToRlc) /\ duToRlc \in Seq(RlcReq) /\ rlcToDu \in Seq(RlcToDu)
      /\ Distinct(rlcToDu) /\ UlRrcLast(rlcToDu)
  BY CoreParts DEF RlcQ
<1>4. /\ First(duToRlc) \in RlcReq /\ Rest(duToRlc) \in Seq(RlcReq)
      /\ \A x \in ToSet(Rest(duToRlc)) : x.op # "DEL_UE"
  BY <1>2, <1>3, RestToSet DEF RlcQ
<1>5. i \in Id
  BY <1>1, <1>4 DEF RlcReq
<1>6. t.at = "duToRlc" /\ t.ev = "DELETE"
  BY <1>1 DEF ReqTok
<1>7. t \in InRlc(i) /\ Mid(i) = Without(InRlc(i), t) /\ Distinct(Rest(duToRlc))
  <2>1. t = ReqTok("duToRlc", Ev(First(duToRlc)))
    BY <1>1, <1>2
  <2>2. QED
    BY <1>2, <1>3, <2>1, RlcTakeReq, InRlcIs
<1>8. \A j : j # i => Mid(j) = InRlc(j)
  BY <1>2, <1>3, RlcTakeReqOthers, InRlcIs
<1>9. Mid(i) = {} /\ InRlc(i) = {t}
  <2>1. InRlc(i) = {t}
    BY <1>5, <1>6, <1>7, MsgOwner, RlcAlone
  <2>2. QED
    BY <1>7, <2>1 DEF Without
<1>10. \E n : /\ n.ev = "DELETE" /\ InRlc(i)' = {n} /\ \A j : j # i => InRlc(j)' = InRlc(j)
              /\ DeletesRlc(n, i)' /\ RlcQ' /\ ueDelTmr' \subseteq Id
  <2>0. ueDelTmr \subseteq Id
    BY CoreParts DEF RlcData
  <2>1. CASE i \in rlcUlUe /\ ueDelTmr' = With(ueDelTmr, i) /\ UNCHANGED rlcToDu
    <3>1. PICK n : n = ReqTok("ueDelTmr", "DELETE")
      OBVIOUS
    <3>2. n.ev = "DELETE" /\ n.at = "ueDelTmr"
      BY <3>1 DEF ReqTok
    <3>3. \A j : InRlc(j)' = RlcToks(duToRlcDl, Rest(duToRlc), With(ueDelTmr, i), udxReq, udxCfm, rlcToDu, j)
      BY <1>2, <2>1 DEF InRlc
    <3>4. InRlc(i)' = With(Mid(i), n) /\ \A j : j # i => InRlc(j)' = Mid(j)
      <4>1. InRlc(i)' = With(Mid(i), n)
        BY <3>1, <3>3, RlcSetTmr
      <4>2. \A j : j # i => InRlc(j)' = Mid(j)
        BY <3>3, RlcSetTmrOthers
      <4>3. QED
        BY <4>1, <4>2
    <3>5. InRlc(i)' = {n}
      BY <1>9, <3>4 DEF With
    <3>6. DeletesRlc(n, i)'
      BY <1>2, <2>1, <3>2 DEF DeletesRlc
    <3>7. RlcQ' /\ ueDelTmr' \subseteq Id
      BY <1>2, <1>3, <1>4, <1>5, <1>7, <2>0, <2>1 DEF RlcQ, With
    <3>8. QED
      BY <1>8, <3>2, <3>4, <3>5, <3>6, <3>7
  <2>2. CASE i \notin rlcUlUe /\ rlcToDu' = Put(rlcToDu, m) /\ UNCHANGED ueDelTmr
    <3>1. PICK n : n = Tok("rlcToDu", "DELETE", FALSE)
      BY Zenon
    <3>2. n.ev = "DELETE" /\ n.at = "rlcToDu" /\ ~n.ok
      BY <3>1 DEF Tok
    <3>3. m \in RlcToDu /\ i = Ue(m) /\ Ev(m) = "DELETE" /\ n = Tok("rlcToDu", Ev(m), Ok(m))
      BY <1>5, <3>1 DEF RlcToDu, RspMsg, RlcEvent, Ue, Ev, Ok
    <3> HIDE DEF m
    <3>4. \A j : InRlc(j)' = RlcToks(duToRlcDl, Rest(duToRlc), ueDelTmr, udxReq, udxCfm, Put(rlcToDu, m), j)
      BY <1>2, <2>2 DEF InRlc
    <3>5. InRlc(i)' = With(Mid(i), n)
      BY <1>3, <3>3, <3>4, RlcPutRsp
    <3>6. \A j : j # i => InRlc(j)' = Mid(j)
      BY <1>3, <3>3, <3>4, RlcPutRspOthers
    <3>7. InRlc(i)' = {n}
      BY <1>9, <3>5 DEF With
    <3>8. Put(rlcToDu, m) \in Seq(RlcToDu)
      BY <1>3, <3>3, PutToSet
    <3>9. Distinct(Put(rlcToDu, m)) /\ UlRrcLast(Put(rlcToDu, m))
      <4>1. /\ \A x \in Mid(i) : x.at = "rlcToDu" => x.ev # Ev(m)
            /\ \A x \in Mid(i) : x.at = "rlcToDu" => x.ev # "UL_RRC"
        BY <1>9
      <4>2. QED
        BY <1>3, <3>3, <4>1, RlcPutRsp
    <3>10. RlcQ' /\ ueDelTmr' \subseteq Id
      BY <1>2, <1>3, <1>4, <1>7, <2>0, <2>2, <3>8, <3>9 DEF RlcQ
    <3>11. DeletesRlc(n, i)'
      BY <3>2 DEF DeletesRlc
    <3>12. QED
      BY <1>8, <3>2, <3>6, <3>7, <3>10, <3>11
  <2>3. QED
    BY <1>2, <2>1, <2>2
<1>11. PICK n : /\ n.ev = "DELETE" /\ InRlc(i)' = {n} /\ \A j : j # i => InRlc(j)' = InRlc(j)
                /\ DeletesRlc(n, i)' /\ RlcQ' /\ ueDelTmr' \subseteq Id
  BY <1>10
<1>12. \A j \in Id \ {i} : SameRlc(j)
  BY <1>2, <1>11 DEF SameRlc
<1>13. Owners' /\ Lives' /\ Ccch' /\ ~nullDb'
  <2>1. /\ t.at \notin {"rlcToDu", "duToRlcDl"} /\ n.ev = t.ev /\ InRlc(i)' \subseteq {n}
        /\ t.ev = "DELETE" => \A x \in InRlc(i)' : DeletesRlc(x, i)'
    BY <1>6, <1>11
  <2>2. rlcUlRb'[i] = {} \/ rlcUlRb[i] # {}
    BY <1>2
  <2>3. QED
    BY <1>5, <1>7, <1>12, <2>1, <2>2, RlcMoves
<1>14. Events'
  BY <1>2 DEF Core, Events
<1>15. RlcData'
  BY <1>2, <1>11, CoreParts DEF RlcData
<1>16. Keeps
  BY <1>11, <1>13, <1>14, <1>15, RlcKeeps
<1>17. i = Head(duToRlc).ue
  BY <1>1 DEF First
<1>18. InRlc(i) = {t} /\ InRlc(i)' \subseteq {n} /\ n.ev = t.ev
  BY <1>6, <1>9, <1>11
<1>19. PICK to : n.at = to
  OBVIOUS
<1>20. RlcStep(i, "duToRlc", to)
  BY <1>5, <1>6, <1>11, <1>12, <1>18, <1>19 DEF RlcStep
<1>21. QED
  BY <1>16, <1>17, <1>20

LEMMA RlcTimerKeeps ==
    ASSUME Core, ~Overlap, NEW i \in Id, RlcTimer(i)
    PROVE  Keeps /\ RlcStep(i, "ueDelTmr", "udxReq")
<1> DEFINE r == [ev |-> "DELETE", ue |-> i, op |-> "DEL_UE", rbs |-> {}]
           u == [req |-> r, ueOk |-> i \in rlcUlUe, valid |-> ValidRbs("DEL_UE", {}, rlcUlRb[i])]
           Mid(j) == RlcToks(duToRlcDl, duToRlc, Without(ueDelTmr, i), udxReq, udxCfm, rlcToDu, j)
<1>1. PICK t, n : t = ReqTok("ueDelTmr", "DELETE") /\ n = Tok("udxReq", "DELETE", TRUE)
  OBVIOUS
<1>2. /\ i \in ueDelTmr /\ ueDelTmr' = Without(ueDelTmr, i)
      /\ \A k \in DOMAIN udxReq : udxReq[k].req.ev = "DELETE"
      /\ \A k \in DOMAIN udxCfm : udxCfm[k].req.ev = "DELETE"
      /\ rlcUlUdxEventType' = "DELETE" /\ rlcUlUe' = rlcUlUe
      /\ udxReq' = Put(udxReq, u)
      /\ UNCHANGED <<udxCfm, rlcUlRb, rlcDlRb, duToRlc, rlcToDu, duToRlcDl>>
      /\ ByRlc
  BY DEF RlcTimer, RlcUeDeleteTmrExpiry, RlcProcCfgReq, ByRlc, Put, Without
<1>3. RlcQ /\ UdxDistinct(udxReq) /\ udxReq \in Seq(UdxReq)
  BY CoreParts DEF RlcQ
<1>4. t.at = "ueDelTmr" /\ t.ev = "DELETE" /\ n.at = "udxReq" /\ n.ev = "DELETE" /\ n.ok
  BY <1>1 DEF Tok, ReqTok
<1>5. t \in InRlc(i) /\ Mid(i) = Without(InRlc(i), t) /\ \A j : j # i => Mid(j) = InRlc(j)
  <2>1. t \in InRlc(i) /\ Mid(i) = Without(InRlc(i), t)
    BY <1>1, <1>2, RlcSetTmr, InRlcIs
  <2>2. \A j : j # i => Mid(j) = InRlc(j)
    BY RlcStopTmrOthers, InRlcIs
  <2>3. QED
    BY <2>1, <2>2
<1>6. i \in rlcUlUe
  <2>1. DeletesRlc(t, i)
    BY <1>4, <1>5, RlcDeletes
  <2>2. QED
    BY <1>4, <2>1 DEF DeletesRlc
<1>7. Mid(i) = {} /\ InRlc(i) = {t}
  <2>1. InRlc(i) = {t}
    BY <1>4, <1>5, MsgOwner, RlcAlone
  <2>2. QED
    BY <1>5, <2>1 DEF Without
<1>8. /\ u \in UdxReq /\ i = UdxUe(u) /\ UdxEv(u) = "DELETE" /\ n = Tok("udxReq", UdxEv(u), UdxOk(u))
      /\ u.req.ev = "DELETE" /\ u.req.op = "DEL_UE"
  BY <1>1, <1>6 DEF UdxReq, RlcReq, RlcEvent, RlcOp, ValidRbs, UdxUe, UdxEv, UdxOk, Tok
<1> HIDE DEF u
<1>9. \A j : InRlc(j)' = RlcToks(duToRlcDl, duToRlc, Without(ueDelTmr, i), Put(udxReq, u), udxCfm, rlcToDu, j)
  BY <1>2 DEF InRlc
<1>10. InRlc(i)' = With(Mid(i), n)
  BY <1>3, <1>8, <1>9, RlcPutUdxReq
<1>11. \A j : j # i => InRlc(j)' = Mid(j)
  BY <1>3, <1>8, <1>9, RlcPutUdxReqOthers
<1>12. Put(udxReq, u) \in Seq(UdxReq) /\ ToSet(Put(udxReq, u)) = ToSet(udxReq) \union {u}
  BY <1>3, <1>8, PutToSet
<1>13. UdxDistinct(Put(udxReq, u))
  <2>1. \A x \in Mid(i) : x.at = "udxReq" => x.ev # UdxEv(u)
    BY <1>7
  <2>2. QED
    BY <1>3, <1>8, <2>1, RlcPutUdxReq
<1>14. InRlc(i)' = {n}
  BY <1>7, <1>10 DEF With
<1>15. \A j \in Id \ {i} : SameRlc(j)
  BY <1>2, <1>5, <1>11 DEF SameRlc
<1>16. DeletesRlc(n, i)'
  BY <1>4 DEF DeletesRlc
<1>17. Owners' /\ Lives' /\ Ccch' /\ ~nullDb'
  <2>1. /\ t.at \notin {"rlcToDu", "duToRlcDl"} /\ n.ev = t.ev /\ InRlc(i)' \subseteq {n}
        /\ t.ev = "DELETE" => \A x \in InRlc(i)' : DeletesRlc(x, i)'
    BY <1>4, <1>14, <1>16
  <2>2. rlcUlRb'[i] = {} \/ rlcUlRb[i] # {}
    BY <1>2
  <2>3. QED
    BY <1>2, <1>5, <1>15, <2>1, <2>2, RlcMoves
<1>18. RlcQ'
  BY <1>2, <1>3, <1>12, <1>13 DEF RlcQ
<1>19. RlcData'
  BY <1>2, CoreParts DEF RlcData, RlcEvent, Without
<1>20. Events'
  <2>1. \A x \in ToSet(udxReq) \union ToSet(udxCfm) : x.req.ev = "DELETE"
    BY <1>2 DEF ToSet
  <2>2. QED
    BY <1>2, <1>8, <1>12, <2>1 DEF Core, Events
<1>21. Keeps
  BY <1>2, <1>17, <1>18, <1>19, <1>20, RlcKeeps
<1>22. QED
  BY <1>4, <1>7, <1>14, <1>15, <1>21 DEF RlcStep

LEMMA DlRrcMsgTransferKeeps ==
    ASSUME Core, RlcProcDlRrcMsgTransfer
    PROVE  /\ Keeps /\ RlcStep(Head(duToRlcDl), "duToRlcDl", "rlcToDu")
           /\ \A j \in Id \ {Head(duToRlcDl)} : Same(j)
<1>1. PICK i, t, n : /\ i = First(duToRlcDl) /\ t = ReqTok("duToRlcDl", "DL_RRC")
                     /\ n = Tok("rlcToDu", "DL_RRC", TRUE)
  BY Zenon
<1> DEFINE m == [ev |-> "DL_RRC", ue |-> i, ok |-> TRUE]
           Mid(j) == RlcToks(Rest(duToRlcDl), duToRlc, ueDelTmr, udxReq, udxCfm, rlcToDu, j)
<1>2. /\ duToRlcDl # <<>> /\ duToRlcDl' = Rest(duToRlcDl)
      /\ rlcToDu' = rlcToDu \/ rlcToDu' = Put(rlcToDu, m)
      /\ UNCHANGED <<duToRlc, rlcOwnVars, macVars, duVars, cuUe>>
  BY <1>1 DEF RlcProcDlRrcMsgTransfer, First, Rest, Put
<1>3. /\ RlcQ /\ duToRlcDl \in Seq(Id) /\ IsInjective(duToRlcDl)
      /\ rlcToDu \in Seq(RlcToDu) /\ Distinct(rlcToDu) /\ UlRrcLast(rlcToDu)
  BY CoreParts DEF RlcQ
<1>4. t.at = "duToRlcDl" /\ t.ev = "DL_RRC" /\ n.at = "rlcToDu" /\ n.ev = "DL_RRC"
  BY <1>1 DEF Tok, ReqTok
<1>5. /\ i \in Id /\ t \in InRlc(i) /\ Mid(i) = Without(InRlc(i), t)
      /\ \A j : j # i => Mid(j) = InRlc(j)
  BY <1>1, <1>2, <1>3, RlcTakeDl, InRlcIs
<1>6. Rest(duToRlcDl) \in Seq(Id) /\ IsInjective(Rest(duToRlcDl))
  BY <1>2, <1>3, RlcTakeDl
<1>7. PICK c \in CuUe, ph \in Phase :
        HasPhase(c, ph, i) /\ ph # "idle" /\ InPhase(c, ph, i)
  BY <1>5, PhaseOf
<1>8. ph \in {"asked", "releasing"} /\ Waiting(i)
  BY <1>4, <1>5, <1>7, RlcWho
<1>9. Mid(i) = {} /\ InRlc(i) = {t}
  BY <1>5, <1>8 DEF Waiting, One, Without
<1>10. /\ InRlc(i)' \subseteq {n} /\ (\A j : j # i => InRlc(j)' = InRlc(j))
       /\ rlcToDu' \in Seq(RlcToDu) /\ Distinct(rlcToDu') /\ UlRrcLast(rlcToDu')
  <2>1. CASE rlcToDu' = rlcToDu
    <3>1. \A j : InRlc(j)' = Mid(j)
      BY <1>2, <2>1 DEF InRlc, rlcOwnVars
    <3>2. QED
      BY <1>3, <1>5, <1>9, <2>1, <3>1
  <2>2. CASE rlcToDu' = Put(rlcToDu, m)
    <3>1. m \in RlcToDu /\ i = Ue(m) /\ Ev(m) = "DL_RRC" /\ n = Tok("rlcToDu", Ev(m), Ok(m))
      BY <1>1, <1>5 DEF RlcToDu, RspMsg, Ue, Ev, Ok
    <3> HIDE DEF m
    <3>2. \A j : InRlc(j)' = RlcToks(Rest(duToRlcDl), duToRlc, ueDelTmr, udxReq, udxCfm, Put(rlcToDu, m), j)
      BY <1>2, <2>2 DEF InRlc, rlcOwnVars
    <3>3. InRlc(i)' = With(Mid(i), n)
      BY <1>3, <3>1, <3>2, RlcPutRsp
    <3>4. \A j : j # i => InRlc(j)' = Mid(j)
      BY <1>3, <3>1, <3>2, RlcPutRspOthers
    <3>5. Put(rlcToDu, m) \in Seq(RlcToDu)
      BY <1>3, <3>1, PutToSet
    <3>6. Distinct(Put(rlcToDu, m)) /\ UlRrcLast(Put(rlcToDu, m))
      <4>1. /\ \A x \in Mid(i) : x.at = "rlcToDu" => x.ev # Ev(m)
            /\ \A x \in Mid(i) : x.at = "rlcToDu" => x.ev # "UL_RRC"
        BY <1>9
      <4>2. QED
        BY <1>3, <3>1, <4>1, RlcPutRsp
    <3>7. InRlc(i)' \subseteq {n}
      BY <1>9, <3>3 DEF With
    <3>8. QED
      BY <1>5, <2>2, <3>4, <3>5, <3>6, <3>7
  <2>3. QED
    BY <1>2, <2>1, <2>2
<1>11. RlcQ'
  BY <1>2, <1>3, <1>6, <1>10 DEF RlcQ, rlcOwnVars
<1>12. RlcData' /\ SameUdx
  BY <1>2, CoreParts DEF RlcData, SameUdx, rlcOwnVars
<1>13. MacQ' /\ MacData' /\ \A j : SameMac(j)
  BY <1>2, MacStill
<1>14. DuTypes' /\ Ccch' /\ ~nullDb'
  BY <1>2, DuStill
<1>15. UNCHANGED ueCb /\ UNCHANGED cuUe /\ UNCHANGED ueBitMap
  BY <1>2 DEF duVars, macVars, raVars
<1>16. \A j \in Id \ {i} : Same(j)
  BY <1>2, <1>10, <1>13, <1>15 DEF Same, SameRlc, rlcOwnVars
<1>17. InPhase(c, ph, i)'
  <2>1. Waiting(i)'
    BY <1>4, <1>8, <1>10, <1>13 DEF Waiting, Late, One, SameMac
  <2>2. Est(i) => Est(i)'
    BY <1>13 DEF Est, NoCfra, NoRa, SameMac
  <2>3. CASE ph = "asked"
    <3>1. Asked(i)'
      BY <1>7, <1>15, <2>1, <2>2, <2>3 DEF InPhase, Asked
    <3>2. QED
      BY <1>7, <1>15, <2>3, <3>1 DEF InPhase
  <2>4. CASE ph = "releasing"
    <3>1. ~DeletingInRlc(i) /\ ~DeletingInMac(i)
      BY <1>4, <1>5 DEF DeletingInRlc, DeletingInMac
    <3>2. Releasing(i)'
      BY <1>7, <1>15, <2>1, <2>2, <2>4, <3>1 DEF InPhase, Releasing
    <3>3. QED
      BY <1>7, <1>15, <2>4, <3>2 DEF InPhase
  <2>5. QED
    BY <1>8, <2>3, <2>4
<1>18. CuMoves(c, i, ph)
  BY <1>7, <1>15, CuStays
<1>19. Keeps
  BY <1>5, <1>7, <1>11, <1>12, <1>13, <1>14, <1>15, <1>16, <1>17, <1>18, MovesAt DEF DuTypes
<1>20. i = Head(duToRlcDl)
  BY <1>1 DEF First
<1>21. \A j \in Id \ {i} : SameRlc(j)
  BY <1>16 DEF Same
<1>22. RlcStep(i, "duToRlcDl", "rlcToDu")
  BY <1>4, <1>5, <1>9, <1>10, <1>21 DEF RlcStep
<1>23. QED
  BY <1>16, <1>19, <1>20, <1>22

-----------------------------------------------------------------------------
(* What the DU application makes of the messages.                            *)

LEMMA NoDbType == NoDb \in Db
BY DEF NoDb, Db

LEMMA CfgOpType == \A db \in Db : CfgOp(db) \in {"ADD", "MODIFY", "DEL"}
BY DEF CfgOp, Db

\* A layer hears of bearers only.
LEMMA ConveyedType == \A i : \A db \in Db : Conveyed(i, db) \in SUBSET Rb
BY DEF Conveyed, Db

\* It takes a message of MAC.
LEMMA DuTakesMac ==
    ASSUME Core, NEW ev, FromMac(ev), NEW i, i = Head(macToDu).ue, UNCHANGED duToMac
    PROVE  /\ i \in Id
           /\ Tok("macToDu", ev, Ok(First(macToDu))) \in InMac(i)
           /\ InMac(i)' = Without(InMac(i), Tok("macToDu", ev, Ok(First(macToDu))))
           /\ \A j : j # i => InMac(j)' = InMac(j)
           /\ \A x \in InMac(i)' : x.at = "macToDu" => x.ev # "CREATE"
           /\ MacQ'
<1>1. /\ MacQ /\ macToDu # <<>> /\ macToDu \in Seq(MacToDu) /\ Distinct(macToDu) /\ CreateFirst(macToDu)
      /\ Ev(First(macToDu)) = ev /\ i = Ue(First(macToDu)) /\ macToDu' = Rest(macToDu)
  BY CoreParts DEF MacQ, FromMac, First, Ev, Ue, Rest
<1>2. First(macToDu) \in MacToDu /\ Rest(macToDu) \in Seq(MacToDu) /\ Distinct(Rest(macToDu))
  BY <1>1, MacTakeRsp
<1>3. i \in Id
  BY <1>1, <1>2 DEF MacToDu, RspMsg, Ue
<1>4. \A j : InMac(j)' = MacToks(duToMac, Rest(macToDu), j)
  BY <1>1 DEF InMac
<1>5. /\ InMac(i)' = Without(InMac(i), Tok("macToDu", ev, Ok(First(macToDu))))
      /\ Tok("macToDu", ev, Ok(First(macToDu))) \in InMac(i)
  BY <1>1, <1>4, MacTakeRsp, InMacIs
<1>6. \A j : j # i => InMac(j)' = InMac(j)
  BY <1>1, <1>4, MacTakeRspOthers, InMacIs
<1>7. CreateFirst(Rest(macToDu)) /\ \A x \in InMac(i)' : x.at = "macToDu" => x.ev # "CREATE"
  BY <1>1, <1>4, MacTakeRsp
<1>8. MacQ'
  BY <1>1, <1>2, <1>7 DEF MacQ
<1>9. QED
  BY <1>3, <1>5, <1>6, <1>7, <1>8

\* It sends a request to MAC.
LEMMA DuAsksMac ==
    ASSUME Core, NEW ev \in {"DL_CCCH", "CREATE", "RECONFIG", "DELETE", "RACH_REQ", "RACH_REL"},
           NEW i \in Id, NEW db \in Db, SendToMac(ev, i, db), UNCHANGED macToDu,
           \A x \in InMac(i) : x.at = "duToMac" => x.ev # ev
    PROVE  /\ InMac(i)' = With(InMac(i), ReqTok("duToMac", ev))
           /\ \A j : j # i => InMac(j)' = InMac(j)
           /\ MacQ'
<1> DEFINE m == MacReq(ev, i, db)
<1>1. /\ MacQ /\ duToMac \in Seq(DuToMac) /\ Distinct(duToMac) /\ duToMac' = Put(duToMac, m)
  BY CoreParts DEF MacQ, SendToMac, Put
<1>2. m \in DuToMac /\ i = Ue(m) /\ ev = Ev(m)
  BY CfgOpType, ConveyedType DEF MacReq, DuToMac, Db, Ue, Ev
<1> HIDE DEF m
<1>3. \A j : InMac(j)' = MacToks(Put(duToMac, m), macToDu, j)
  BY <1>1 DEF InMac
<1>4. InMac(i)' = With(InMac(i), ReqTok("duToMac", ev))
  BY <1>1, <1>2, <1>3, MacPutReq, InMacIs
<1>5. \A j : j # i => InMac(j)' = InMac(j)
  BY <1>1, <1>2, <1>3, MacPutReqOthers, InMacIs
<1>6. Put(duToMac, m) \in Seq(DuToMac)
  BY <1>1, <1>2, PutToSet
<1>7. Distinct(Put(duToMac, m))
  <2>1. \A x \in MacToks(duToMac, macToDu, Ue(m)) : x.at = "duToMac" => x.ev # Ev(m)
    BY <1>2, InMacIs
  <2>2. QED
    BY <1>1, <1>2, <2>1, MacPutReq
<1>8. MacQ'
  BY <1>1, <1>6, <1>7 DEF MacQ
<1>9. QED
  BY <1>4, <1>5, <1>8

\* It takes a message of MAC and sends it a request.
LEMMA DuTakesMacAsks ==
    ASSUME Core, NEW e, FromMac(e), NEW i, i = Head(macToDu).ue,
           NEW ev \in {"DL_CCCH", "CREATE", "RECONFIG", "DELETE", "RACH_REQ", "RACH_REL"},
           NEW db \in Db, SendToMac(ev, i, db),
           \A x \in InMac(i) : x.at = "duToMac" => x.ev # ev
    PROVE  /\ i \in Id
           /\ InMac(i)' = With(Without(InMac(i), Tok("macToDu", e, Ok(First(macToDu)))), ReqTok("duToMac", ev))
           /\ \A j : j # i => InMac(j)' = InMac(j)
           /\ MacQ'
<1> DEFINE m == MacReq(ev, i, db)
           Mid(j) == MacToks(duToMac, Rest(macToDu), j)
<1>1. /\ MacQ /\ duToMac \in Seq(DuToMac) /\ Distinct(duToMac) /\ duToMac' = Put(duToMac, m)
      /\ macToDu # <<>> /\ macToDu \in Seq(MacToDu) /\ Distinct(macToDu) /\ CreateFirst(macToDu)
      /\ Ev(First(macToDu)) = e /\ i = Ue(First(macToDu)) /\ macToDu' = Rest(macToDu)
  BY CoreParts DEF MacQ, FromMac, First, Ev, Ue, Rest, SendToMac, Put
<1>2. /\ First(macToDu) \in MacToDu /\ Rest(macToDu) \in Seq(MacToDu) /\ Distinct(Rest(macToDu))
      /\ CreateFirst(Rest(macToDu))
  BY <1>1, MacTakeRsp
<1>3. i \in Id
  BY <1>1, <1>2 DEF MacToDu, RspMsg, Ue
<1>4. m \in DuToMac /\ i = Ue(m) /\ ev = Ev(m)
  BY <1>3, CfgOpType, ConveyedType DEF MacReq, DuToMac, Db, Ue, Ev
<1> HIDE DEF m
<1>5. Mid(i) = Without(InMac(i), Tok("macToDu", e, Ok(First(macToDu))))
  BY <1>1, MacTakeRsp, InMacIs
<1>6. \A j : j # i => Mid(j) = InMac(j)
  BY <1>1, MacTakeRspOthers, InMacIs
<1>7. \A j : InMac(j)' = MacToks(Put(duToMac, m), Rest(macToDu), j)
  BY <1>1 DEF InMac
<1>8. InMac(i)' = With(Mid(i), ReqTok("duToMac", ev))
  BY <1>1, <1>4, <1>7, MacPutReq
<1>9. \A j : j # i => InMac(j)' = Mid(j)
  BY <1>1, <1>4, <1>7, MacPutReqOthers
<1>10. Put(duToMac, m) \in Seq(DuToMac)
  BY <1>1, <1>4, PutToSet
<1>11. Distinct(Put(duToMac, m))
  <2>1. \A x \in Mid(i) : x.at = "duToMac" => x.ev # Ev(m)
    BY <1>4, <1>5 DEF Without
  <2>2. QED
    BY <1>1, <1>4, <2>1, MacPutReq
<1>12. MacQ'
  BY <1>1, <1>2, <1>10, <1>11 DEF MacQ
<1>13. QED
  BY <1>3, <1>5, <1>6, <1>8, <1>9, <1>12

\* It takes a message of RLC.
LEMMA DuTakesRlc ==
    ASSUME Core, NEW ev, FromRlc(ev), NEW i, i = Head(rlcToDu).ue, UNCHANGED <<duToRlc, duToRlcDl>>
    PROVE  /\ i \in Id
           /\ Tok("rlcToDu", ev, Ok(First(rlcToDu))) \in InRlc(i)
           /\ InRlc(i)' = Without(InRlc(i), Tok("rlcToDu", ev, Ok(First(rlcToDu))))
           /\ \A j : j # i => InRlc(j)' = InRlc(j)
           /\ ev = "UL_RRC" => \A x \in InRlc(i)' : x.at # "rlcToDu"
           /\ RlcQ'
<1>1. /\ RlcQ /\ rlcToDu # <<>> /\ rlcToDu \in Seq(RlcToDu) /\ Distinct(rlcToDu) /\ UlRrcLast(rlcToDu)
      /\ Ev(First(rlcToDu)) = ev /\ i = Ue(First(rlcToDu)) /\ rlcToDu' = Rest(rlcToDu)
      /\ UNCHANGED <<udxReq, udxCfm, ueDelTmr>>
  BY CoreParts DEF RlcQ, FromRlc, First, Ev, Ue, Rest, rlcOwnVars
<1>2. First(rlcToDu) \in RlcToDu /\ Rest(rlcToDu) \in Seq(RlcToDu) /\ Distinct(Rest(rlcToDu))
  BY <1>1, RlcTakeRsp
<1>3. i \in Id
  BY <1>1, <1>2 DEF RlcToDu, RspMsg, Ue
<1>4. \A j : InRlc(j)' = RlcToks(duToRlcDl, duToRlc, ueDelTmr, udxReq, udxCfm, Rest(rlcToDu), j)
  BY <1>1 DEF InRlc
<1>5. /\ InRlc(i)' = Without(InRlc(i), Tok("rlcToDu", ev, Ok(First(rlcToDu))))
      /\ Tok("rlcToDu", ev, Ok(First(rlcToDu))) \in InRlc(i)
  BY <1>1, <1>4, RlcTakeRsp, InRlcIs
<1>6. \A j : j # i => InRlc(j)' = InRlc(j)
  BY <1>1, <1>4, RlcTakeRspOthers, InRlcIs
<1>7. UlRrcLast(Rest(rlcToDu)) /\ (ev = "UL_RRC" => \A x \in InRlc(i)' : x.at # "rlcToDu")
  <2>1. UlRrcLast(Rest(rlcToDu))
    BY <1>1, RlcTakeRsp
  <2>2. SUFFICES ASSUME ev = "UL_RRC"
                 PROVE  \A x \in InRlc(i)' : x.at # "rlcToDu"
    BY <2>1
  <2>3. Ev(First(rlcToDu)) = "UL_RRC"
    BY <1>1, <2>2
  <2>4. \A x \in RlcToks(duToRlcDl, duToRlc, ueDelTmr, udxReq, udxCfm, Rest(rlcToDu), Ue(First(rlcToDu))) :
            x.at # "rlcToDu"
    BY <1>1, <2>3, RlcTakeRsp
  <2>5. QED
    BY <1>1, <1>4, <2>4
<1>8. RlcQ'
  BY <1>1, <1>2, <1>7 DEF RlcQ
<1>9. QED
  BY <1>3, <1>5, <1>6, <1>7, <1>8

\* It sends a request to RLC.
LEMMA DuAsksRlc ==
    ASSUME Core, NEW ev \in RlcEvent, NEW i \in Id, NEW db \in Db, SendToRlc(ev, i, db),
           UNCHANGED <<rlcToDu, rlcOwnVars, duToRlcDl>>,
           \A x \in InRlc(i) : x.at = "duToRlc" => x.ev # ev
    PROVE  /\ InRlc(i)' = With(InRlc(i), ReqTok("duToRlc", ev))
           /\ \A j : j # i => InRlc(j)' = InRlc(j)
           /\ RlcQ'
<1> DEFINE m == [ev |-> ev, ue |-> i, op |-> CfgOp(db), rbs |-> Conveyed(i, db)]
<1>1. /\ RlcQ /\ duToRlc \in Seq(RlcReq) /\ Distinct(duToRlc) /\ duToRlc' = Put(duToRlc, m)
      /\ UNCHANGED <<udxReq, udxCfm, ueDelTmr>>
  BY CoreParts DEF RlcQ, SendToRlc, Put, rlcOwnVars
<1>2. m \in RlcReq /\ i = Ue(m) /\ ev = Ev(m) /\ m.op # "DEL_UE"
  BY CfgOpType, ConveyedType DEF RlcReq, RlcOp, Db, Ue, Ev
<1> HIDE DEF m
<1>3. \A j : InRlc(j)' = RlcToks(duToRlcDl, Put(duToRlc, m), ueDelTmr, udxReq, udxCfm, rlcToDu, j)
  BY <1>1 DEF InRlc
<1>4. InRlc(i)' = With(InRlc(i), ReqTok("duToRlc", ev))
  BY <1>1, <1>2, <1>3, RlcPutReq, InRlcIs
<1>5. \A j : j # i => InRlc(j)' = InRlc(j)
  BY <1>1, <1>2, <1>3, RlcPutReqOthers, InRlcIs
<1>6. Put(duToRlc, m) \in Seq(RlcReq) /\ ToSet(Put(duToRlc, m)) = ToSet(duToRlc) \union {m}
  BY <1>1, <1>2, PutToSet
<1>7. Distinct(Put(duToRlc, m))
  <2>1. \A x \in RlcToks(duToRlcDl, duToRlc, ueDelTmr, udxReq, udxCfm, rlcToDu, Ue(m)) :
            x.at = "duToRlc" => x.ev # Ev(m)
    BY <1>2, InRlcIs
  <2>2. duToRlc \in Seq(RlcReq) /\ m \in RlcReq /\ Distinct(duToRlc)
    BY <1>1, <1>2
  <2>3. QED
    BY <2>1, <2>2, RlcPutReq
<1>8. RlcQ'
  BY <1>1, <1>2, <1>6, <1>7 DEF RlcQ
<1>9. QED
  BY <1>4, <1>5, <1>8

\* It takes a message of RLC and sends it a request.
LEMMA DuTakesRlcAsks ==
    ASSUME Core, NEW e, FromRlc(e), NEW i, i = Head(rlcToDu).ue,
           NEW ev \in RlcEvent, NEW db \in Db, SendToRlc(ev, i, db), UNCHANGED duToRlcDl,
           \A x \in InRlc(i) : x.at = "duToRlc" => x.ev # ev
    PROVE  /\ i \in Id
           /\ InRlc(i)' = With(Without(InRlc(i), Tok("rlcToDu", e, Ok(First(rlcToDu)))), ReqTok("duToRlc", ev))
           /\ \A j : j # i => InRlc(j)' = InRlc(j)
           /\ RlcQ'
<1> DEFINE m == [ev |-> ev, ue |-> i, op |-> CfgOp(db), rbs |-> Conveyed(i, db)]
           Mid(j) == RlcToks(duToRlcDl, duToRlc, ueDelTmr, udxReq, udxCfm, Rest(rlcToDu), j)
<1>1. /\ RlcQ /\ rlcToDu # <<>> /\ rlcToDu \in Seq(RlcToDu) /\ Distinct(rlcToDu) /\ UlRrcLast(rlcToDu)
      /\ Ev(First(rlcToDu)) = e /\ i = Ue(First(rlcToDu)) /\ rlcToDu' = Rest(rlcToDu)
      /\ duToRlc \in Seq(RlcReq) /\ Distinct(duToRlc) /\ duToRlc' = Put(duToRlc, m)
      /\ UNCHANGED <<udxReq, udxCfm, ueDelTmr>>
  BY CoreParts DEF RlcQ, FromRlc, First, Ev, Ue, Rest, rlcOwnVars, SendToRlc, Put
<1>2. /\ First(rlcToDu) \in RlcToDu /\ Rest(rlcToDu) \in Seq(RlcToDu) /\ Distinct(Rest(rlcToDu))
      /\ UlRrcLast(Rest(rlcToDu))
  BY <1>1, RlcTakeRsp
<1>3. i \in Id
  BY <1>1, <1>2 DEF RlcToDu, RspMsg, Ue
<1>4. m \in RlcReq /\ i = Ue(m) /\ ev = Ev(m) /\ m.op # "DEL_UE"
  BY <1>3, CfgOpType, ConveyedType DEF RlcReq, RlcOp, Db, Ue, Ev
<1> HIDE DEF m
<1>5. Mid(i) = Without(InRlc(i), Tok("rlcToDu", e, Ok(First(rlcToDu))))
  BY <1>1, RlcTakeRsp, InRlcIs
<1>6. \A j : j # i => Mid(j) = InRlc(j)
  BY <1>1, RlcTakeRspOthers, InRlcIs
<1>7. \A j : InRlc(j)' = RlcToks(duToRlcDl, Put(duToRlc, m), ueDelTmr, udxReq, udxCfm, Rest(rlcToDu), j)
  BY <1>1 DEF InRlc
<1>8. InRlc(i)' = With(Mid(i), ReqTok("duToRlc", ev))
  BY <1>1, <1>4, <1>7, RlcPutReq
<1>9. \A j : j # i => InRlc(j)' = Mid(j)
  BY <1>1, <1>4, <1>7, RlcPutReqOthers
<1>10. Put(duToRlc, m) \in Seq(RlcReq) /\ ToSet(Put(duToRlc, m)) = ToSet(duToRlc) \union {m}
  <2>1. duToRlc \in Seq(RlcReq) /\ m \in RlcReq
    BY <1>1, <1>4
  <2>2. QED
    BY <2>1, PutToSet
<1>11. Distinct(Put(duToRlc, m))
  <2>1. \A x \in Mid(i) : x.at = "duToRlc" => x.ev # Ev(m)
    BY <1>4, <1>5 DEF Without
  <2>2. duToRlc \in Seq(RlcReq) /\ m \in RlcReq /\ Distinct(duToRlc)
    BY <1>1, <1>4
  <2>3. QED
    BY <2>1, <2>2, <1>4, RlcPutReq
<1>12. RlcQ'
  BY <1>1, <1>2, <1>4, <1>10, <1>11 DEF RlcQ
<1>13. QED
  BY <1>3, <1>5, <1>6, <1>8, <1>9, <1>12

\* It has RLC send an RRC message.
LEMMA DuAsksRrc ==
    ASSUME Core, NEW i \in Id, duToRlcDl' = Append(duToRlcDl, i),
           UNCHANGED <<duToRlc, rlcToDu, rlcOwnVars>>, \A x \in InRlc(i) : x.at # "duToRlcDl"
    PROVE  /\ InRlc(i)' = With(InRlc(i), ReqTok("duToRlcDl", "DL_RRC"))
           /\ \A j : j # i => InRlc(j)' = InRlc(j)
           /\ RlcQ'
<1>1. /\ RlcQ /\ duToRlcDl \in Seq(Id) /\ IsInjective(duToRlcDl) /\ duToRlcDl' = Put(duToRlcDl, i)
      /\ UNCHANGED <<udxReq, udxCfm, ueDelTmr>>
  BY CoreParts DEF RlcQ, Put, rlcOwnVars
<1>2. \A j : InRlc(j)' = RlcToks(Put(duToRlcDl, i), duToRlc, ueDelTmr, udxReq, udxCfm, rlcToDu, j)
  BY <1>1 DEF InRlc
<1>3. Put(duToRlcDl, i) \in Seq(Id) /\ IsInjective(Put(duToRlcDl, i))
  BY <1>1, RlcPutDl, InRlcIs
<1>4. InRlc(i)' = With(InRlc(i), ReqTok("duToRlcDl", "DL_RRC"))
  BY <1>1, <1>2, RlcPutDl, InRlcIs
<1>5. \A j : j # i => InRlc(j)' = InRlc(j)
  BY <1>1, <1>2, RlcPutDl, InRlcIs
<1>6. RlcQ'
  BY <1>1, <1>3 DEF RlcQ
<1>7. QED
  BY <1>4, <1>5, <1>6

-----------------------------------------------------------------------------
(* What MAC sends to the DU application.                                     *)

\* MAC and SCH keep what they have of UE i.
SameMacOwn(i) ==
    /\ macUe'[i] = macUe[i] /\ schUe'[i] = schUe[i]
    /\ macLc'[i] = macLc[i] /\ schLc'[i] = schLc[i]
    /\ (i \in macRaCb') = (i \in macRaCb) /\ (i \in msg4Pdu') = (i \in msg4Pdu)
    /\ (i \in schMsg4Done') = (i \in schMsg4Done)
    /\ (i \in macCfra') = (i \in macCfra) /\ (i \in schPreamble') = (i \in schPreamble)

LEMMA FromMacFrame ==
    ASSUME Core, NEW ev, FromMac(ev), UNCHANGED <<duToRlc, ueBitMap>>
    PROVE  /\ RlcQ' /\ RlcData' /\ SameUdx /\ MacData'
           /\ \A j : SameRlc(j)
           /\ \A j : SameMacOwn(j)
<1>1. UNCHANGED <<rlcVars, duToRlcDl>> /\ UNCHANGED macOwnVars
  BY DEF FromMac, rlcVars, rlcOwnVars
<1>2. \A j : SameMacOwn(j)
  BY <1>1 DEF SameMacOwn, macOwnVars, macUeVars
<1>3. MacData'
  BY <1>1, CoreParts DEF MacData, macOwnVars, macUeVars
<1>4. QED
  BY <1>1, <1>2, <1>3, RlcStill

LEMMA SameMacIs == \A i : InMac(i)' = InMac(i) /\ SameMacOwn(i) => SameMac(i)
BY DEF SameMac, SameMacOwn

LEMMA UlCcchIndKeeps ==
    ASSUME Core, DuProcUlCcchInd
    PROVE  Keeps
<1>1. PICK i, t : i = Head(macToDu).ue /\ t = Tok("macToDu", "UL_CCCH", Ok(First(macToDu)))
  BY Zenon
<1>2. /\ FromMac("UL_CCCH")
      /\ ueCcchCtxt' = [ueCcchCtxt EXCEPT ![numUe] = i] /\ numUe' = numUe + 1
      /\ cuUe' = [d \in CuUe |-> IF cuUe[d].ph = "access" /\ cuUe[d].id = i
                                 THEN [cuUe[d] EXCEPT !.ph = "initial"] ELSE cuUe[d]]
      /\ UNCHANGED <<ueCb, numActvUes, nullDb, duToRlc, duToMac, ueBitMap>>
  BY <1>1 DEF DuProcUlCcchInd
<1>3. t.at = "macToDu" /\ t.ev = "UL_CCCH"
  BY <1>1 DEF Tok
<1>4. /\ i \in Id /\ t \in InMac(i) /\ InMac(i)' = Without(InMac(i), t)
      /\ (\A j : j # i => InMac(j)' = InMac(j)) /\ MacQ'
  BY <1>1, <1>2, DuTakesMac
<1>5. PICK c \in CuUe, ph \in Phase :
        /\ HasPhase(c, ph, i) /\ ph # "idle" /\ InPhase(c, ph, i)
        /\ \A d \in CuUe : cuUe[d].id = i => d = c
  BY <1>4, MsgOwner DEF HasPhase
<1>6. ph = "access"
  BY <1>3, <1>4, <1>5, MacWho
<1>7. Accessing(i) /\ c \in Access
  BY <1>5, <1>6 DEF InPhase
<1>8. InMac(i)' = {}
  BY <1>4, <1>7 DEF Accessing, One, Without
<1>9. RlcQ' /\ RlcData' /\ SameUdx /\ MacData' /\ (\A j : SameRlc(j)) /\ (\A j : SameMacOwn(j))
  BY <1>2, FromMacFrame
<1>10. CuMoves(c, i, "initial")
  <2>1. cuUe \in [CuUe -> CuCb] /\ cuUe[c].ph = "access" /\ cuUe[c].id = i
    BY <1>5, <1>6, CoreParts DEF DuTypes, CuCb, HasPhase
  <2>2. cuUe'[c] = [cuUe[c] EXCEPT !.ph = "initial"]
    BY <1>2, <2>1
  <2>3. \A d \in CuUe \ {c} : cuUe'[d] = cuUe[d]
    BY <1>2, <1>5
  <2>4. cuUe[c] \in CuCb /\ cuUe'[c] \in CuCb /\ cuUe'[c].ph = "initial" /\ cuUe'[c].id = i
    BY <2>1, <2>2 DEF CuCb, Phase
  <2>5. DOMAIN cuUe' = CuUe /\ cuUe' = [d \in CuUe |-> cuUe'[d]]
    BY <1>2
  <2>6. \A d \in CuUe : cuUe'[d] \in CuCb
    BY <2>1, <2>3, <2>4
  <2>7. QED
    BY <2>3, <2>4, <2>5, <2>6 DEF CuMoves
<1>11. Initial(i)'
  BY <1>2, <1>7, <1>8, <1>9 DEF Initial, Accessing, New, RlcEmpty, MacEmpty, NoCfra, SameRlc, SameMacOwn
<1>12. InPhase(c, "initial", i)'
  BY <1>7, <1>11 DEF InPhase
<1>13. numUe = 0
  BY <1>5, <1>6 DEF Core, Ccch, HasPhase
<1>14. ueCcchCtxt' \in [0 .. MaxNumUe - 1 -> Id \union {0}] /\ ueCcchCtxt'[0] = i /\ numUe' = 1
  <2>1. 0 \in 0 .. MaxNumUe - 1
    BY MaxNumUeAssumption, SMT
  <2>2. ueCcchCtxt \in [0 .. MaxNumUe - 1 -> Id \union {0}]
    BY CoreParts DEF DuTypes
  <2>3. QED
    BY <1>2, <1>4, <1>13, <2>1, <2>2
<1>15. Ccch'
  <2>1. \A d \in CuUe : d # c => cuUe'[d] = cuUe[d] /\ cuUe[d].ph \notin {"access", "initial"}
    BY <1>5, <1>6, <1>10 DEF CuMoves, Core, Ccch, HasPhase
  <2>2. QED
    BY <1>10, <1>14, <2>1 DEF Ccch, CuMoves
<1>16. \A j \in Id \ {i} : Same(j)
  BY <1>2, <1>4, <1>9, SameMacIs DEF Same
<1>17. ueCb' \in [Id -> UeCb] /\ ~nullDb'
  BY <1>2, CoreParts DEF DuTypes, Core
<1>18. QED
  BY <1>2, <1>4, <1>5, <1>9, <1>10, <1>12, <1>14, <1>15, <1>16, <1>17, MovesAt

\* A late response to a creation is dropped, or noted.
LEMMA CreateDropped ==
    ASSUME NEW c, NEW ph \in Phase, NEW i, ph \notin {"idle", "handin"}, InPhase(c, ph, i),
           NEW t \in InMac(i), t.ev = "CREATE", InMac(i)' = Without(InMac(i), t),
           SameRlc(i), SameMacOwn(i),
           ueCb'[i].cu = ueCb[i].cu, ueCb'[i].state = ueCb[i].state, ueCb'[i].db = ueCb[i].db,
           ueCb'[i].rlc = ueCb[i].rlc, ueCb'[i].mac \in {ueCb[i].mac, "CREATE_COMPLETE"}
    PROVE  InPhase(c, ph, i)'
<1>1. /\ \A x \in InMac(i)' : x \in InMac(i)
      /\ OnePerEv(InMac(i)) => OnePerEv(InMac(i)')
      /\ Late(i) => Late(i)'
  BY DEF Without, OnePerEv, Late, One
<1>2. Est(i) => Est(i)'
  BY DEF Est, NoCfra, NoRa, SameMacOwn
<1>3. Waiting(i) => Waiting(i)'
  BY <1>1 DEF Waiting, SameRlc
<1>4. CASE ph = "connecting"
  <2>1. c \in Access /\ Connecting(i)
    BY <1>4, MacWho
  <2>2. Connecting(i)'
    BY <1>1, <2>1 DEF Connecting, SameRlc, SameMacOwn, Idle, NoCfra
  <2>3. QED
    BY <1>4, <2>1, <2>2 DEF InPhase
<1>5. CASE ph = "completing"
  <2>1. c \in Access
    BY <1>5, MacWho
  <2>2. Completing(i)'
    BY <1>1, <1>2, <1>5, <2>1 DEF InPhase, Completing, SameRlc, Idle
  <2>3. QED
    BY <1>5, <2>1, <2>2 DEF InPhase
<1>6. CASE ph = "connected"
  <2>1. Connected(i)'
    BY <1>1, <1>2, <1>6 DEF InPhase, Connected, SameRlc, Idle
  <2>2. QED
    BY <1>6, <2>1 DEF InPhase
<1>7. CASE ph = "asked"
  <2>1. Asked(i)
    BY <1>7 DEF InPhase
  <2>2. Running(i) => Running(i)'
    BY <1>1 DEF Running, SameRlc
  <2>3. Asked(i)'
    BY <1>2, <1>3, <2>1, <2>2 DEF Asked
  <2>4. QED
    BY <1>7, <2>3 DEF InPhase
<1>8. CASE ph = "releasing"
  <2>1. Releasing(i)
    BY <1>8 DEF InPhase
  <2>2. DeletingInRlc(i) => DeletingInRlc(i)'
    BY <1>1 DEF DeletingInRlc, SameRlc, RlcEmpty
  <2>3. DeletingInMac(i) => DeletingInMac(i)'
    BY <1>1 DEF DeletingInMac, SameRlc, SameMacOwn, RlcEmpty, MacEmpty
  <2>4. Releasing(i)'
    BY <1>2, <1>3, <2>1, <2>2, <2>3 DEF Releasing
  <2>5. QED
    BY <1>8, <2>4 DEF InPhase
<1>9. QED
  BY <1>4, <1>5, <1>6, <1>7, <1>8, MacWho

\* The entry of UE i becomes u.
LEMMA SetUeCb ==
    ASSUME Core, NEW i \in Id, NEW u \in UeCb, ueCb' = [ueCb EXCEPT ![i] = u]
    PROVE  /\ ueCb' \in [Id -> UeCb] /\ ueCb'[i] = u
           /\ \A j \in Id \ {i} : ueCb'[j] = ueCb[j]
BY CoreParts DEF DuTypes

LEMMA MacUeCreateRspKeeps ==
    ASSUME Core, DuProcMacUeCreateRsp
    PROVE  Keeps
<1>1. PICK i, t, u : /\ i = Head(macToDu).ue /\ t = Tok("macToDu", "CREATE", Ok(First(macToDu)))
                     /\ u = [ueCb[i] EXCEPT !.mac = "CREATE_COMPLETE"]
  BY Zenon
<1>2. FromMac("CREATE") /\ (CreateDone(i, u) \/ NoChange) /\ UNCHANGED <<ueCcchCtxt, numUe, numActvUes, ueBitMap>>
  BY <1>1 DEF DuProcMacUeCreateRsp
<1>3. t.at = "macToDu" /\ t.ev = "CREATE"
  BY <1>1 DEF Tok
<1>4. UNCHANGED <<duToRlc, cuUe>>
  BY <1>2 DEF CreateDone, NoChange
<1>5. i \in Id /\ t \in InMac(i)
  <2>1. /\ MacQ /\ macToDu # <<>> /\ macToDu \in Seq(MacToDu) /\ Distinct(macToDu)
        /\ Ev(First(macToDu)) = "CREATE" /\ i = Ue(First(macToDu))
    BY <1>1, <1>2, CoreParts DEF MacQ, FromMac, First, Ev, Ue
  <2>2. First(macToDu) \in MacToDu
    BY <2>1, MacTakeRsp
  <2>3. i \in Id
    BY <2>1, <2>2 DEF MacToDu, RspMsg, Ue
  <2>4. t \in InMac(i)
    BY <1>1, <2>1, MacTakeRsp, InMacIs
  <2>5. QED
    BY <2>3, <2>4
<1>6. PICK c \in CuUe, ph \in Phase :
        HasPhase(c, ph, i) /\ ph # "idle" /\ InPhase(c, ph, i)
  BY <1>5, PhaseOf
<1>7. RlcQ' /\ RlcData' /\ SameUdx /\ MacData' /\ (\A j : SameRlc(j)) /\ (\A j : SameMacOwn(j))
  BY <1>2, <1>4, FromMacFrame
<1>8. /\ u \in UeCb /\ u.cu = ueCb[i].cu /\ u.state = ueCb[i].state /\ u.db = ueCb[i].db
      /\ u.rlc = ueCb[i].rlc /\ u.mac = "CREATE_COMPLETE" /\ ueCb[i] \in UeCb
  <2>1. ueCb[i] \in UeCb
    BY <1>5, CoreParts DEF DuTypes
  <2>2. QED
    BY <1>1, <2>1 DEF UeCb, CfgState
<1>9. \A x \in InMac(i) : x.ev = "CREATE" => x = t
  BY <1>3, <1>5, <1>6, OnePer DEF OnePerEv
<1>10. ph = "handin" => Creating(i) /\ HandingIn(i) /\ InMac(i) = {t}
  <2>1. SUFFICES ASSUME ph = "handin"
                 PROVE  Creating(i) /\ HandingIn(i) /\ InMac(i) = {t}
    OBVIOUS
  <2>2. HandingIn(i) /\ Creating(i)
    <3>1. HandingIn(i)
      BY <1>6, <2>1 DEF InPhase
    <3>2. QED
      BY <1>3, <1>5, <3>1 DEF HandingIn, Preambles
  <2>3. QED
    BY <1>5, <2>2 DEF Creating, One
<1>11. ueCb[i].state = "HANDIN" => ph = "handin"
  <2>1. /\ ph \in {"connecting", "completing", "connected", "asked", "releasing", "handin"}
        /\ ph \in {"connecting", "completing"} => c \in Access
    BY <1>3, <1>5, <1>6, MacWho
  <2>2. CASE ph = "connecting"
    BY <1>6, <2>1, <2>2 DEF InPhase, Connecting, Idle
  <2>3. CASE ph = "completing"
    BY <1>6, <2>1, <2>3 DEF InPhase, Completing, Idle
  <2>4. CASE ph = "connected"
    BY <1>6, <2>4 DEF InPhase, Connected, Idle
  <2>5. CASE ph = "asked"
    BY <1>6, <2>5 DEF InPhase, Asked
  <2>6. CASE ph = "releasing"
    BY <1>6, <2>6 DEF InPhase, Releasing, DeletingInRlc, DeletingInMac
  <2>7. QED
    BY <2>1, <2>2, <2>3, <2>4, <2>5, <2>6
<1>12. /\ \A j : j # i => InMac(j)' = InMac(j)
       /\ MacQ' /\ ~nullDb' /\ InPhase(c, ph, i)'
       /\ ueCb' \in [Id -> UeCb] /\ \A j \in Id \ {i} : ueCb'[j] = ueCb[j]
  <2>1. CASE UNCHANGED <<ueCb, nullDb, duToMac>>
    <3>1. /\ InMac(i)' = Without(InMac(i), t)
          /\ (\A j : j # i => InMac(j)' = InMac(j)) /\ MacQ'
      BY <1>1, <1>2, <2>1, DuTakesMac
    <3>2. InPhase(c, ph, i)'
      <4>1. CASE ph # "handin"
        BY <1>3, <1>5, <1>6, <1>7, <2>1, <3>1, <4>1, CreateDropped
      <4>2. CASE ph = "handin"
        <5>1. InMac(i)' = {}
          BY <1>10, <3>1, <4>2 DEF Without
        <5>2. Creating(i)'
          BY <1>5, <1>7, <1>10, <2>1, <4>2, <5>1 DEF Creating, One, SameRlc
        <5>3. HandingIn(i)'
          BY <1>7, <1>10, <2>1, <4>2, <5>2 DEF HandingIn, Hand, NoRa, SameMacOwn
        <5>4. QED
          BY <1>6, <2>1, <4>2, <5>3 DEF InPhase
      <4>3. QED
        BY <4>1, <4>2
    <3>3. QED
      BY <2>1, <3>1, <3>2, CoreParts DEF Core, DuTypes
  <2>2. CASE CreateDone(i, u) /\ ~(u.state = "HANDIN" /\ u.rlc = "CREATE_COMPLETE")
    <3>1. ueCb' = [ueCb EXCEPT ![i] = u] /\ UNCHANGED <<nullDb, duToMac>>
      BY <2>2 DEF CreateDone
    <3>2. ueCb' \in [Id -> UeCb] /\ ueCb'[i] = u /\ \A j \in Id \ {i} : ueCb'[j] = ueCb[j]
      BY <1>5, <1>8, <3>1, SetUeCb
    <3>3. /\ InMac(i)' = Without(InMac(i), t)
          /\ (\A j : j # i => InMac(j)' = InMac(j)) /\ MacQ'
      BY <1>1, <1>2, <3>1, DuTakesMac
    <3>4. InPhase(c, ph, i)'
      <4>1. CASE ph # "handin"
        BY <1>3, <1>5, <1>6, <1>7, <1>8, <3>2, <3>3, <4>1, CreateDropped
      <4>2. CASE ph = "handin"
        <5>1. InMac(i)' = {}
          BY <1>10, <3>3, <4>2 DEF Without
        <5>2. u.rlc # "CREATE_COMPLETE"
          BY <1>8, <1>10, <2>2, <4>2 DEF HandingIn
        <5>3. Creating(i)'
          BY <1>7, <1>8, <1>10, <3>2, <4>2, <5>1, <5>2 DEF Creating, One, SameRlc
        <5>4. HandingIn(i)'
          BY <1>7, <1>8, <1>10, <3>2, <4>2, <5>3 DEF HandingIn, Hand, NoRa, SameMacOwn
        <5>5. QED
          BY <1>6, <1>8, <3>2, <4>2, <5>4 DEF InPhase
      <4>3. QED
        BY <4>1, <4>2
    <3>5. QED
      BY <3>1, <3>2, <3>3, <3>4 DEF Core
  <2>3. CASE CreateDone(i, u) /\ u.state = "HANDIN" /\ u.rlc = "CREATE_COMPLETE"
    <3>1. /\ ueCb' = [ueCb EXCEPT ![i] = u] /\ nullDb' = (nullDb \/ u.db = NoDb)
          /\ SendToMac("RACH_REQ", i, NoDb)
      BY <1>8, <2>3 DEF CreateDone
    <3>2. ueCb' \in [Id -> UeCb] /\ ueCb'[i] = u /\ \A j \in Id \ {i} : ueCb'[j] = ueCb[j]
      BY <1>5, <1>8, <3>1, SetUeCb
    <3>3. ph = "handin" /\ Creating(i) /\ HandingIn(i) /\ InMac(i) = {t}
      BY <1>8, <1>10, <1>11, <2>3
    <3>4. PICK n : n = ReqTok("duToMac", "RACH_REQ")
      BY Zenon
    <3>5. n.at = "duToMac" /\ n.ev = "RACH_REQ"
      BY <3>4 DEF ReqTok
    <3>6. /\ InMac(i)' = With(Without(InMac(i), t), n)
          /\ (\A j : j # i => InMac(j)' = InMac(j)) /\ MacQ'
      <4>1. \A x \in InMac(i) : x.at = "duToMac" => x.ev # "RACH_REQ"
        BY <1>3, <3>3
      <4>2. QED
        BY <1>1, <1>2, <3>1, <3>4, <4>1, NoDbType, DuTakesMacAsks
    <3>7. InMac(i)' = {n}
      BY <3>3, <3>6 DEF With, Without
    <3>8. u.db.act = "SETUP" /\ u.db # NoDb
      BY <1>8, <3>3 DEF HandingIn, NoDb
    <3>9. InRlc(i)' = {}
      BY <1>7, <1>8, <2>3, <3>3 DEF Creating, SameRlc
    <3>10. Preambles(i)'
      BY <3>5, <3>7, <3>9 DEF Preambles, One
    <3>11. HandingIn(i)'
      BY <1>7, <1>8, <3>2, <3>3, <3>10 DEF HandingIn, Hand, NoRa, SameMacOwn
    <3>12. InPhase(c, ph, i)'
      BY <1>6, <1>8, <3>2, <3>3, <3>11 DEF InPhase
    <3>13. QED
      BY <3>1, <3>2, <3>6, <3>8, <3>12 DEF Core
  <2>4. QED
    BY <1>2, <2>1, <2>2, <2>3 DEF NoChange
<1>13. \A j \in Id \ {i} : Same(j)
  BY <1>7, <1>12, SameMacIs DEF Same
<1>14. CuMoves(c, i, ph)
  BY <1>4, <1>6, CuStays
<1>15. Ccch' /\ ueCcchCtxt' \in [0 .. MaxNumUe - 1 -> Id \union {0}]
  <2>1. CcchKept
    BY <1>2, <1>4 DEF CcchKept
  <2>2. QED
    BY <1>2, <2>1, CcchFrame, CoreParts DEF DuTypes
<1>16. QED
  BY <1>2, <1>5, <1>6, <1>7, <1>12, <1>13, <1>14, <1>15, MovesAt

\* The message of MAC that the DU application takes, and its UE.
LEMMA DuHasMac ==
    ASSUME Core, NEW ev, FromMac(ev), NEW i, i = Head(macToDu).ue,
           NEW t, t = Tok("macToDu", ev, Ok(First(macToDu)))
    PROVE  /\ i \in Id /\ t \in InMac(i) /\ t.at = "macToDu" /\ t.ev = ev
           /\ \E c \in CuUe, ph \in Phase : HasPhase(c, ph, i) /\ ph # "idle" /\ InPhase(c, ph, i)
<1>1. /\ MacQ /\ macToDu # <<>> /\ macToDu \in Seq(MacToDu) /\ Distinct(macToDu)
      /\ Ev(First(macToDu)) = ev /\ i = Ue(First(macToDu))
  BY CoreParts DEF MacQ, FromMac, First, Ev, Ue
<1>2. First(macToDu) \in MacToDu
  BY <1>1, MacTakeRsp
<1>3. i \in Id
  BY <1>1, <1>2 DEF MacToDu, RspMsg, Ue
<1>4. t \in InMac(i)
  BY <1>1, MacTakeRsp, InMacIs
<1>5. t.at = "macToDu" /\ t.ev = ev
  BY DEF Tok
<1>6. QED
  BY <1>3, <1>4, <1>5, PhaseOf

\* The message of RLC that the DU application takes, and its UE.
LEMMA DuHasRlc ==
    ASSUME Core, NEW ev, FromRlc(ev), NEW i, i = Head(rlcToDu).ue,
           NEW t, t = Tok("rlcToDu", ev, Ok(First(rlcToDu)))
    PROVE  /\ i \in Id /\ t \in InRlc(i) /\ t.at = "rlcToDu" /\ t.ev = ev
           /\ \E c \in CuUe, ph \in Phase : HasPhase(c, ph, i) /\ ph # "idle" /\ InPhase(c, ph, i)
<1>1. /\ RlcQ /\ rlcToDu # <<>> /\ rlcToDu \in Seq(RlcToDu) /\ Distinct(rlcToDu)
      /\ Ev(First(rlcToDu)) = ev /\ i = Ue(First(rlcToDu))
  BY CoreParts DEF RlcQ, FromRlc, First, Ev, Ue
<1>2. First(rlcToDu) \in RlcToDu
  BY <1>1, RlcTakeRsp
<1>3. i \in Id
  BY <1>1, <1>2 DEF RlcToDu, RspMsg, Ue
<1>4. t \in InRlc(i)
  BY <1>1, RlcTakeRsp, InRlcIs
<1>5. t.at = "rlcToDu" /\ t.ev = ev
  BY DEF Tok
<1>6. QED
  BY <1>3, <1>4, <1>5, PhaseOf

\* A response to a reconfiguration is noted; with the last one the CU is answered.
LEMMA RecfgDoneMoves ==
    ASSUME Core, NEW c \in CuUe, NEW i \in Id, HasPhase(c, "asked", i), InPhase(c, "asked", i),
           Running(i), NEW u \in UeCb, u.cu = ueCb[i].cu, u.state = ueCb[i].state, u.db = ueCb[i].db,
           RecfgDone(i, u), InRlc(i)' \subseteq InRlc(i), InMac(i)' \subseteq InMac(i),
           u.rlc = "RECFG_COMPLETE" => InRlc(i)' = {}, u.mac = "RECFG_COMPLETE" => InMac(i)' = {},
           SameMacOwn(i)
    PROVE  /\ \E x \in {"asked", "ready"} : CuMoves(c, i, x) /\ InPhase(c, x, i)'
           /\ ueCb' \in [Id -> UeCb] /\ ~nullDb'
           /\ \A j \in Id \ {i} : ueCb'[j] = ueCb[j]
<1>1. Asked(i) /\ Est(i) /\ c \in Access /\ u.cu = c
  BY DEF InPhase, Asked
<1>2. Est(i)'
  BY <1>1 DEF Est, NoCfra, NoRa, SameMacOwn
<1>3. u.db.act \in {"SETUP", "MOD"} /\ u.db # NoDb /\ u.state = "ACTIVE"
  BY <1>1 DEF Asked, NoDb
<1>4. CASE u.mac = "RECFG_COMPLETE" /\ u.rlc = "RECFG_COMPLETE"
  <2>1. PICK v : v = [u EXCEPT !.db = NoDb]
    BY Zenon
  <2>2. v \in UeCb /\ v.state = "ACTIVE" /\ v.db = NoDb /\ v.cu = c
    BY <1>1, <1>3, <2>1, NoDbType DEF UeCb
  <2>3. /\ ueCb' = [ueCb EXCEPT ![i] = v] /\ nullDb' = (nullDb \/ u.db = NoDb)
        /\ cuUe' = [cuUe EXCEPT ![c].ph = IF @ = "handin" THEN "arriving" ELSE "ready"]
    BY <1>1, <1>3, <1>4, <2>1 DEF RecfgDone, CtxtRsp
  <2>4. ueCb' \in [Id -> UeCb] /\ ueCb'[i] = v /\ \A j \in Id \ {i} : ueCb'[j] = ueCb[j]
    BY <2>2, <2>3, SetUeCb
  <2>5. CuMoves(c, i, "ready")
    <3>1. cuUe' = [cuUe EXCEPT ![c].ph = "ready"]
      BY <2>3, CoreParts DEF HasPhase, DuTypes
    <3>2. "ready" \in Phase
      BY DEF Phase
    <3>3. QED
      BY <3>1, <3>2, CuPh
  <2>6. InPhase(c, "ready", i)'
    <3>1. Ready(i)'
      BY <1>2, <1>4, <2>2, <2>4 DEF Ready, Idle
    <3>2. QED
      BY <1>1, <2>2, <2>4, <3>1 DEF InPhase
  <2>7. ~nullDb'
    BY <1>3, <2>3 DEF Core
  <2>8. QED
    BY <2>4, <2>5, <2>6, <2>7
<1>5. CASE ~(u.mac = "RECFG_COMPLETE" /\ u.rlc = "RECFG_COMPLETE")
  <2>1. ueCb' = [ueCb EXCEPT ![i] = u] /\ UNCHANGED <<nullDb, cuUe>>
    BY <1>5 DEF RecfgDone
  <2>2. ueCb' \in [Id -> UeCb] /\ ueCb'[i] = u /\ \A j \in Id \ {i} : ueCb'[j] = ueCb[j]
    BY <2>1, SetUeCb
  <2>3. Running(i)'
    BY <2>2 DEF Running, One, OnePerEv
  <2>4. InPhase(c, "asked", i)'
    <3>1. Asked(i)'
      BY <1>1, <1>2, <1>3, <2>2, <2>3 DEF Asked
    <3>2. QED
      BY <1>1, <2>2, <3>1 DEF InPhase
  <2>5. CuMoves(c, i, "asked")
    BY <2>1, CuStays
  <2>6. QED
    BY <2>1, <2>2, <2>4, <2>5 DEF Core
<1>6. QED
  BY <1>4, <1>5

\* What is to be shown of a step that takes a message of MAC about UE i.
LEMMA FromMacMoves ==
    ASSUME Core, NEW ev, FromMac(ev), UNCHANGED <<duToRlc, ueBitMap, ueCcchCtxt, numUe>>,
           NEW i \in Id, NEW c \in CuUe, NEW ph, HasPhase(c, ph, i), NEW x, CuMoves(c, i, x),
           ph \notin {"access", "initial"}, x \notin {"idle", "access", "initial"},
           InPhase(c, x, i)', \A j : j # i => InMac(j)' = InMac(j), MacQ',
           ueCb' \in [Id -> UeCb], \A j \in Id \ {i} : ueCb'[j] = ueCb[j], ~nullDb'
    PROVE  Keeps
<1>1. RlcQ' /\ RlcData' /\ SameUdx /\ MacData' /\ (\A j : SameRlc(j)) /\ (\A j : SameMacOwn(j))
  BY FromMacFrame
<1>2. \A j \in Id \ {i} : Same(j)
  BY <1>1, SameMacIs DEF Same
<1>3. Ccch'
  BY CcchAt
<1>4. ueCcchCtxt' \in [0 .. MaxNumUe - 1 -> Id \union {0}]
  BY CoreParts DEF DuTypes
<1>5. QED
  BY <1>1, <1>2, <1>3, <1>4, MovesAt

LEMMA MacUeRecfgRspKeeps ==
    ASSUME Core, DuProcMacUeRecfgRsp
    PROVE  Keeps
<1>1. PICK i, t, u : /\ i = Head(macToDu).ue /\ t = Tok("macToDu", "RECONFIG", Ok(First(macToDu)))
                     /\ u = [ueCb[i] EXCEPT !.mac = "RECFG_COMPLETE"]
  BY Zenon
<1>2. FromMac("RECONFIG") /\ (RecfgDone(i, u) \/ NoChange) /\ UNCHANGED <<ueCcchCtxt, numUe, numActvUes, ueBitMap>>
  BY <1>1 DEF DuProcMacUeRecfgRsp
<1>3. i \in Id /\ t \in InMac(i) /\ t.at = "macToDu" /\ t.ev = "RECONFIG"
  BY <1>1, <1>2, DuHasMac
<1>4. PICK c \in CuUe, ph \in Phase : HasPhase(c, ph, i) /\ ph # "idle" /\ InPhase(c, ph, i)
  BY <1>1, <1>2, DuHasMac
<1>5. ph = "asked" /\ Running(i)
  BY <1>3, <1>4, MacWho
<1>6. UNCHANGED <<duToRlc, duToMac>>
  BY <1>2 DEF RecfgDone, NoChange
<1>7. /\ InMac(i)' = Without(InMac(i), t)
      /\ (\A j : j # i => InMac(j)' = InMac(j)) /\ MacQ'
      /\ \A x \in InMac(i)' : x.at = "macToDu" => x.ev # "CREATE"
  BY <1>1, <1>2, <1>6, DuTakesMac
<1>8. InMac(i)' = {} /\ InMac(i)' \subseteq InMac(i)
  <2>1. \A x \in InMac(i)' : x \in InMac(i) /\ x # t
    BY <1>7 DEF Without
  <2>2. \A x \in InMac(i)' : x.ev = "CREATE" /\ x.at = "macToDu"
    BY <1>3, <1>5, <2>1 DEF Running, OnePerEv
  <2>3. QED
    BY <1>7, <2>1, <2>2
<1>9. (\A j : SameRlc(j)) /\ (\A j : SameMacOwn(j))
  BY <1>2, <1>6, FromMacFrame
<1>10. InRlc(i)' = InRlc(i)
  BY <1>9 DEF SameRlc
<1>11. /\ u \in UeCb /\ u.cu = ueCb[i].cu /\ u.state = ueCb[i].state /\ u.db = ueCb[i].db
       /\ u.rlc = ueCb[i].rlc
  <2>1. ueCb[i] \in UeCb
    BY <1>3, CoreParts DEF DuTypes
  <2>2. QED
    BY <1>1, <2>1 DEF UeCb, CfgState
<1>12. /\ \E x \in {"asked", "ready"} : CuMoves(c, i, x) /\ InPhase(c, x, i)'
       /\ ueCb' \in [Id -> UeCb] /\ ~nullDb'
       /\ \A j \in Id \ {i} : ueCb'[j] = ueCb[j]
  <2>1. CASE RecfgDone(i, u)
    <3>1. u.rlc = "RECFG_COMPLETE" => InRlc(i)' = {}
      BY <1>5, <1>10, <1>11 DEF Running
    <3>2. HasPhase(c, "asked", i) /\ InPhase(c, "asked", i)
      BY <1>4, <1>5
    <3>3. InRlc(i)' \subseteq InRlc(i)
      BY <1>10
    <3>4. QED
      BY <1>3, <1>5, <1>8, <1>9, <1>11, <2>1, <3>1, <3>2, <3>3, RecfgDoneMoves
  <2>2. CASE NoChange
    <3>1. Asked(i) /\ c \in Access /\ ueCb[i].cu = c
      BY <1>4, <1>5 DEF InPhase
    <3>2. UNCHANGED ueCb /\ UNCHANGED <<nullDb, cuUe>>
      BY <2>2 DEF NoChange
    <3>3. Running(i)'
      BY <1>5, <1>8, <1>10, <3>2 DEF Running, One, OnePerEv
    <3>4. Asked(i)'
      BY <1>9, <3>1, <3>2, <3>3 DEF Asked, Est, NoCfra, NoRa, SameMacOwn
    <3>5. InPhase(c, "asked", i)'
      BY <3>1, <3>2, <3>4 DEF InPhase
    <3>6. CuMoves(c, i, "asked")
      BY <1>4, <1>5, <3>2, CuStays
    <3>7. QED
      BY <3>2, <3>5, <3>6, CoreParts DEF DuTypes, Core
  <2>3. QED
    BY <1>2, <2>1, <2>2
<1>13. PICK x \in {"asked", "ready"} : CuMoves(c, i, x) /\ InPhase(c, x, i)'
  BY <1>12
<1>14. ph \notin {"access", "initial"} /\ x \notin {"idle", "access", "initial"}
  BY <1>5
<1>15. QED
  BY <1>2, <1>3, <1>4, <1>6, <1>7, <1>12, <1>13, <1>14, FromMacMoves

\* The response about the preambles of a UE in handover.
LEMMA MacRachRsrcRspKeeps ==
    ASSUME Core, DuProcMacRachRsrcRsp
    PROVE  Keeps
<1>1. PICK i, t, u : /\ i = Head(macToDu).ue /\ t = Tok("macToDu", "RACH", Ok(First(macToDu)))
                     /\ u = ueCb[i]
  BY Zenon
<1>2. /\ FromMac("RACH") /\ UNCHANGED <<ueCcchCtxt, numUe, numActvUes, ueBitMap>>
      /\ (CtxtRsp(i, u) /\ UNCHANGED <<duToRlc, duToMac>>) \/ NoChange
  BY <1>1 DEF DuProcMacRachRsrcRsp
<1>3. i \in Id /\ t \in InMac(i) /\ t.at = "macToDu" /\ t.ev = "RACH"
  BY <1>1, <1>2, DuHasMac
<1>4. PICK c \in CuUe, ph \in Phase : HasPhase(c, ph, i) /\ ph # "idle" /\ InPhase(c, ph, i)
  BY <1>1, <1>2, DuHasMac
<1>5. ph = "handin" /\ Preambles(i)
  BY <1>3, <1>4, MacWho
<1>6. UNCHANGED <<duToRlc, duToMac>>
  BY <1>2 DEF NoChange
<1>7. /\ InMac(i)' = Without(InMac(i), t)
      /\ (\A j : j # i => InMac(j)' = InMac(j)) /\ MacQ'
  BY <1>1, <1>2, <1>6, DuTakesMac
<1>8. InMac(i)' = {}
  BY <1>3, <1>5, <1>7 DEF Preambles, One, Without
<1>9. (\A j : SameRlc(j)) /\ (\A j : SameMacOwn(j))
  BY <1>2, <1>6, FromMacFrame
<1>10. InRlc(i)' = {}
  BY <1>5, <1>9 DEF SameRlc, Preambles
<1>11. u \in UeCb /\ c \in HandIn /\ u.cu = c /\ Hand(i) /\ u.state = "HANDIN" /\ u.db.act = "SETUP"
  BY <1>1, <1>3, <1>4, <1>5, CoreParts DEF DuTypes, InPhase, HandingIn
<1>12. Hand(i)'
  BY <1>9, <1>11 DEF Hand, NoRa, SameMacOwn
<1>13. /\ \E x \in {"handin", "arriving"} : CuMoves(c, i, x) /\ InPhase(c, x, i)'
       /\ ueCb' \in [Id -> UeCb] /\ ~nullDb'
       /\ \A j \in Id \ {i} : ueCb'[j] = ueCb[j]
  <2>1. CASE CtxtRsp(i, u)
    <3>1. PICK v : v = [u EXCEPT !.db = NoDb]
      BY Zenon
    <3>2. v \in UeCb /\ v.state = "HANDIN" /\ v.db = NoDb /\ v.cu = c
      BY <1>11, <3>1, NoDbType DEF UeCb
    <3>3. /\ ueCb' = [ueCb EXCEPT ![i] = v] /\ nullDb' = (nullDb \/ u.db = NoDb)
          /\ cuUe' = [cuUe EXCEPT ![c].ph = IF @ = "handin" THEN "arriving" ELSE "ready"]
      BY <1>11, <2>1, <3>1 DEF CtxtRsp
    <3>4. ueCb' \in [Id -> UeCb] /\ ueCb'[i] = v /\ \A j \in Id \ {i} : ueCb'[j] = ueCb[j]
      BY <1>3, <3>2, <3>3, SetUeCb
    <3>5. CuMoves(c, i, "arriving")
      <4>1. cuUe' = [cuUe EXCEPT ![c].ph = "arriving"]
        BY <1>4, <1>5, <3>3, CoreParts DEF HasPhase, DuTypes
      <4>2. "arriving" \in Phase
        BY DEF Phase
      <4>3. QED
        BY <1>4, <4>1, <4>2, CuPh
    <3>6. Arriving(i)'
      BY <1>8, <1>10, <1>12, <3>2, <3>4 DEF Arriving, Idle
    <3>7. InPhase(c, "arriving", i)'
      BY <1>11, <3>2, <3>4, <3>6 DEF InPhase
    <3>8. ~nullDb'
      <4>1. u.db # NoDb
        BY <1>11 DEF NoDb
      <4>2. QED
        BY <3>3, <4>1 DEF Core
    <3>9. QED
      BY <3>4, <3>5, <3>7, <3>8
  <2>2. CASE NoChange
    <3>1. UNCHANGED ueCb /\ UNCHANGED <<nullDb, cuUe>>
      BY <2>2 DEF NoChange
    <3>2. Preambles(i)'
      BY <1>8, <1>10 DEF Preambles, One
    <3>3. HandingIn(i)'
      BY <1>1, <1>11, <1>12, <3>1, <3>2 DEF HandingIn
    <3>4. InPhase(c, "handin", i)'
      BY <1>1, <1>11, <3>1, <3>3 DEF InPhase
    <3>5. CuMoves(c, i, "handin")
      BY <1>4, <1>5, <3>1, CuStays
    <3>6. QED
      BY <3>1, <3>4, <3>5, CoreParts DEF DuTypes, Core
  <2>3. QED
    BY <1>2, <2>1, <2>2
<1>14. PICK x \in {"handin", "arriving"} : CuMoves(c, i, x) /\ InPhase(c, x, i)'
  BY <1>13
<1>15. ph \notin {"access", "initial"} /\ x \notin {"idle", "access", "initial"}
  BY <1>5
<1>16. QED
  BY <1>2, <1>3, <1>4, <1>6, <1>7, <1>13, <1>14, <1>15, FromMacMoves

\* A UE of which nothing is left goes.
LEMMA UeGoes ==
    ASSUME Core, NEW c \in CuUe, NEW i \in Id, HasPhase(c, "releasing", i),
           cuUe'[c] = [ph |-> "idle", id |-> 0, rbs |-> {}],
           \A d \in CuUe \ {c} : cuUe'[d] = cuUe[d],
           ueBitMap' = ueBitMap \ {i}, Unused(i)', \A j \in Id \ {i} : Same(j)
    PROVE  Owners' /\ Lives'
<1>1. cuUe[c].id = i /\ i # 0 /\ cuUe'[c].id = 0 /\ cuUe'[c].ph = "idle"
  BY MaxNumUeAssumption, SMT DEF Id, HasPhase
<1>2. \A d \in CuUe \ {c} : cuUe[d].id # i
  BY <1>1 DEF Core, Owners
<1>3. Owners'
  <2>1. \A d, e \in CuUe : cuUe'[d].id = cuUe'[e].id /\ cuUe'[d].id # 0 => d = e
    BY <1>1 DEF Core, Owners
  <2>2. \A j \in ueBitMap' : \E d \in CuUe : cuUe'[d].id = j
    BY <1>1 DEF Core, Owners
  <2>3. \A d \in CuUe : cuUe'[d].ph = "idle" <=> cuUe'[d].id = 0
    BY <1>1 DEF Core, Owners
  <2>4. \A d \in CuUe : cuUe'[d].id # 0 => cuUe'[d].id \in ueBitMap'
    BY <1>1, <1>2 DEF Core, Owners
  <2>5. QED
    BY <2>1, <2>2, <2>3, <2>4 DEF Owners
<1>4. ASSUME NEW j \in Id \ ueBitMap'
      PROVE  Unused(j)'
  <2>1. CASE j = i
    BY <2>1
  <2>2. CASE j # i
    BY <2>2, UnusedFrame DEF Core, Lives
  <2>3. QED
    BY <2>1, <2>2
<1>5. ASSUME NEW d \in CuUe
      PROVE  InPhase(d, cuUe[d].ph, cuUe[d].id)'
  <2>1. CASE cuUe'[d].ph = "idle"
    BY <2>1 DEF InPhase
  <2>2. CASE cuUe'[d].ph # "idle"
    <3>1. d # c /\ cuUe'[d] = cuUe[d] /\ cuUe[d].id # i
      BY <1>1, <1>2, <2>2
    <3>2. cuUe[d].ph # "idle"
      BY <2>2, <3>1
    <3>3. cuUe[d].id \in Id
      BY <3>2, PhaseIs
    <3>4. Same(cuUe[d].id) /\ InPhase(d, cuUe[d].ph, cuUe[d].id)
      BY <3>1, <3>3 DEF Core, Lives
    <3>5. QED
      BY <3>1, <3>4, Frame
  <2>3. QED
    BY <2>1, <2>2
<1>6. QED
  BY <1>3, <1>4, <1>5 DEF Lives

LEMMA NoUeCbType == NoUeCb \in UeCb
BY NoDbType DEF NoUeCb, UeCb, CfgState

LEMMA MacUeDeleteRspKeeps ==
    ASSUME Core, DuProcMacUeDeleteRsp
    PROVE  Keeps
<1>1. PICK i, t, u : /\ i = Head(macToDu).ue /\ t = Tok("macToDu", "DELETE", Ok(First(macToDu)))
                     /\ u = [ueCb[i] EXCEPT !.mac = "DELETE_COMPLETE"]
  BY Zenon
<1>2. FromMac("DELETE") /\ UNCHANGED <<ueCcchCtxt, numUe, nullDb, duToRlc, duToMac>>
  BY DEF DuProcMacUeDeleteRsp
<1>3. i \in Id /\ t \in InMac(i) /\ t.at = "macToDu" /\ t.ev = "DELETE"
  BY <1>1, <1>2, DuHasMac
<1>4. PICK c \in CuUe, ph \in Phase : HasPhase(c, ph, i) /\ ph # "idle" /\ InPhase(c, ph, i)
  BY <1>1, <1>2, DuHasMac
<1>5. ph = "releasing" /\ DeletingInMac(i)
  BY <1>3, <1>4, MacWho
<1>6. Releasing(i) /\ Est(i) /\ c \in Access /\ ueCb[i].cu = c
  BY <1>4, <1>5 DEF InPhase, Releasing
<1>7. /\ InMac(i)' = Without(InMac(i), t)
      /\ (\A j : j # i => InMac(j)' = InMac(j)) /\ MacQ'
      /\ \A x \in InMac(i)' : x.at = "macToDu" => x.ev # "CREATE"
  BY <1>1, <1>2, DuTakesMac
<1>8. InMac(i)' = {}
  <2>1. \A x \in InMac(i)' : x \in InMac(i) /\ x # t
    BY <1>7 DEF Without
  <2>2. \A x \in InMac(i)' : x.ev = "CREATE" /\ x.at = "macToDu"
    BY <1>3, <1>5, <2>1 DEF DeletingInMac, OnePerEv
  <2>3. QED
    BY <1>7, <2>2
<1>9. UNCHANGED <<rlcVars, duToRlcDl>> /\ UNCHANGED macOwnVars
  BY <1>2 DEF FromMac, rlcVars, rlcOwnVars
<1>10. (\A j : SameRlc(j)) /\ (\A j : SameMacOwn(j))
  BY <1>9, RlcUnchanged DEF SameMacOwn, macOwnVars, macUeVars
<1>11. ueCb[i] \in UeCb
  BY <1>3, CoreParts DEF DuTypes
<1>12. CASE /\ Ok(First(macToDu))
            /\ ueCb' = [ueCb EXCEPT ![i] = NoUeCb]
            /\ ueBitMap' = ueBitMap \ {i}
            /\ cuUe' = [d \in CuUe |-> IF cuUe[d].ph = "releasing" /\ cuUe[d].id = i
                                       THEN [ph |-> "idle", id |-> 0, rbs |-> {}] ELSE cuUe[d]]
  <2>1. MacEmpty(i)
    <3>1. t.ok
      BY <1>1, <1>12 DEF Tok
    <3>2. QED
      BY <1>3, <1>5, <3>1 DEF DeletingInMac
  <2>2. ueCb' \in [Id -> UeCb] /\ ueCb'[i] = NoUeCb /\ \A j \in Id \ {i} : ueCb'[j] = ueCb[j]
    BY <1>3, <1>12, NoUeCbType, SetUeCb
  <2>3. Unused(i)'
    BY <1>5, <1>6, <1>8, <1>10, <2>1, <2>2 DEF Unused, DeletingInMac, Est, NoRa, NoCfra, RlcEmpty, MacEmpty,
          SameRlc, SameMacOwn
  <2>4. \A j \in Id \ {i} : Same(j)
    BY <1>7, <1>10, <2>2, SameMacIs DEF Same
  <2>5. cuUe[c].ph = "releasing" /\ cuUe[c].id = i /\ \A d \in CuUe \ {c} : cuUe[d].id # i
    BY <1>3, <1>4, <1>5, PhaseIs DEF HasPhase
  <2>6. /\ cuUe'[c] = [ph |-> "idle", id |-> 0, rbs |-> {}]
        /\ \A d \in CuUe \ {c} : cuUe'[d] = cuUe[d]
    BY <1>12, <2>5
  <2>7. HasPhase(c, "releasing", i)
    BY <2>5 DEF HasPhase
  <2>8. Owners' /\ Lives'
    BY <1>3, <1>12, <2>3, <2>4, <2>6, <2>7, UeGoes
  <2>9. DuTypes'
    <3>1. cuUe' \in [CuUe -> CuCb]
      <4>1. cuUe \in [CuUe -> CuCb] /\ [ph |-> "idle", id |-> 0, rbs |-> {}] \in CuCb
        BY CoreParts DEF DuTypes, CuCb, Phase
      <4>2. QED
        BY <1>12, <4>1
    <3>2. QED
      BY <1>2, <2>2, <3>1, CoreParts DEF DuTypes, CuCb
  <2>10. Ccch'
    <3>1. CcchKept
      BY <1>2, <2>5, <2>6 DEF CcchKept
    <3>2. QED
      BY <3>1, CcchFrame
  <2>11. RlcQ' /\ RlcData' /\ SameUdx
    BY <1>9, RlcStill
  <2>12. MacData'
    BY <1>9, <1>12, CoreParts DEF MacData, macOwnVars, macUeVars
  <2>13. Types' /\ Queues'
    BY <1>7, <2>9, <2>11, <2>12 DEF Types, Queues, MacQ, RlcQ, MacData, RlcData, RlcTypes, MacTypes
  <2>14. Events'
    BY <2>11 DEF SameUdx, Events, Core
  <2>15. QED
    BY <1>2, <2>8, <2>10, <2>13, <2>14 DEF Keeps, Core
<1>13. CASE UNCHANGED <<ueCb, ueBitMap, cuUe>>
  <2>1. DeletingInMac(i)'
    BY <1>5, <1>8, <1>10, <1>13 DEF DeletingInMac, SameRlc, RlcEmpty, OnePerEv
  <2>2. Releasing(i)'
    BY <1>6, <1>10, <2>1 DEF Releasing, Est, NoRa, NoCfra, SameMacOwn
  <2>3. InPhase(c, "releasing", i)'
    BY <1>6, <1>13, <2>2 DEF InPhase
  <2>4. HasPhase(c, "releasing", i)
    BY <1>4, <1>5
  <2>5. CuMoves(c, i, "releasing")
    BY <1>13, <2>4, CuStays
  <2>6. /\ ueCb' \in [Id -> UeCb] /\ ~nullDb' /\ \A j \in Id \ {i} : ueCb'[j] = ueCb[j]
        /\ UNCHANGED <<duToRlc, ueBitMap, ueCcchCtxt, numUe>>
    BY <1>2, <1>13, CoreParts DEF DuTypes, Core
  <2>7. QED
    BY <1>2, <1>3, <1>7, <2>3, <2>4, <2>5, <2>6, FromMacMoves
<1>14. \/ /\ Ok(First(macToDu))
          /\ ueCb' = [ueCb EXCEPT ![i] = NoUeCb]
          /\ ueBitMap' = ueBitMap \ {i}
          /\ cuUe' = [d \in CuUe |-> IF cuUe[d].ph = "releasing" /\ cuUe[d].id = i
                                     THEN [ph |-> "idle", id |-> 0, rbs |-> {}] ELSE cuUe[d]]
       \/ UNCHANGED <<ueCb, ueBitMap, cuUe>>
  <2>1. u.rlc = "DELETE_COMPLETE"
    BY <1>1, <1>5, <1>11 DEF UeCb, DeletingInMac
  <2>2. QED
    BY <1>1, <2>1 DEF DuProcMacUeDeleteRsp, Ok, First
<1>15. QED
  BY <1>12, <1>13, <1>14

-----------------------------------------------------------------------------
(* What RLC sends to the DU application.                                     *)

\* RLC keeps what it has of UE i.
SameRlcOwn(i) ==
    /\ (i \in rlcUlUe') = (i \in rlcUlUe)
    /\ rlcUlRb'[i] = rlcUlRb[i] /\ rlcDlRb'[i] = rlcDlRb[i]

LEMMA OwnKept ==
    UNCHANGED <<rlcOwnVars, macOwnVars>> => \A i : SameRlcOwn(i) /\ SameMacOwn(i)
BY DEF rlcOwnVars, macOwnVars, macUeVars, SameRlcOwn, SameMacOwn

\* What is to be shown of a step of the DU application about UE i.
LEMMA DuMoves ==
    ASSUME Core, UNCHANGED <<rlcOwnVars, macOwnVars, ueBitMap, ueCcchCtxt, numUe>>,
           NEW i \in Id, NEW c \in CuUe, NEW ph, HasPhase(c, ph, i), NEW x, CuMoves(c, i, x),
           ph \notin {"access", "initial"}, x \notin {"idle", "access", "initial"},
           InPhase(c, x, i)', MacQ', RlcQ',
           \A j : j # i => InMac(j)' = InMac(j), \A j : j # i => InRlc(j)' = InRlc(j),
           ueCb' \in [Id -> UeCb], \A j \in Id \ {i} : ueCb'[j] = ueCb[j], ~nullDb'
    PROVE  Keeps
<1>1. RlcData' /\ SameUdx /\ MacData'
  BY CoreParts DEF RlcData, MacData, SameUdx, rlcOwnVars, macOwnVars, macUeVars
<1>2. \A j \in Id \ {i} : Same(j)
  BY OwnKept, SameMacIs DEF Same, SameRlc, SameRlcOwn
<1>3. Ccch'
  BY CcchAt
<1>4. ueCcchCtxt' \in [0 .. MaxNumUe - 1 -> Id \union {0}]
  BY CoreParts DEF DuTypes
<1>5. QED
  BY <1>1, <1>2, <1>3, <1>4, MovesAt

LEMMA MacQStill == ASSUME Core, UNCHANGED <<duToMac, macToDu>> PROVE MacQ' /\ \A j : InMac(j)' = InMac(j)
BY CoreParts DEF MacQ, InMac

LEMMA RlcUeCreateRspKeeps ==
    ASSUME Core, DuProcRlcUeCreateRsp
    PROVE  Keeps
<1>1. PICK i, t, u : /\ i = Head(rlcToDu).ue /\ t = Tok("rlcToDu", "CREATE", Ok(First(rlcToDu)))
                     /\ u = [ueCb[i] EXCEPT !.rlc = "CREATE_COMPLETE"]
  BY Zenon
<1>2. FromRlc("CREATE") /\ CreateDone(i, u) /\ UNCHANGED <<numActvUes, ueBitMap, duToRlcDl>>
  BY <1>1 DEF DuProcRlcUeCreateRsp
<1>3. i \in Id /\ t \in InRlc(i) /\ t.at = "rlcToDu" /\ t.ev = "CREATE"
  BY <1>1, <1>2, DuHasRlc
<1>4. PICK c \in CuUe, ph \in Phase : HasPhase(c, ph, i) /\ ph # "idle" /\ InPhase(c, ph, i)
  BY <1>1, <1>2, DuHasRlc
<1>5. \/ ph = "connecting" /\ c \in Access /\ Connecting(i)
      \/ ph = "completing" /\ c \in Access
      \/ ph = "handin" /\ Creating(i)
  BY <1>3, <1>4, RlcWho
<1>6. /\ UNCHANGED <<duToRlc, cuUe>> /\ ueCb' = [ueCb EXCEPT ![i] = u]
      /\ UNCHANGED <<rlcOwnVars, macOwnVars, ueBitMap, ueCcchCtxt, numUe>> /\ UNCHANGED macToDu
  BY <1>2 DEF CreateDone, FromRlc
<1>7. /\ InRlc(i)' = Without(InRlc(i), t)
      /\ (\A j : j # i => InRlc(j)' = InRlc(j)) /\ RlcQ'
  BY <1>1, <1>2, <1>6, DuTakesRlc
<1>8. SameRlcOwn(i) /\ SameMacOwn(i)
  BY <1>6, OwnKept
<1>9. ueCb[i] \in UeCb
  BY <1>3, CoreParts DEF DuTypes
<1>10. /\ u \in UeCb /\ u.cu = ueCb[i].cu /\ u.state = ueCb[i].state /\ u.db = ueCb[i].db
       /\ u.mac = ueCb[i].mac /\ u.rlc = "CREATE_COMPLETE"
  BY <1>1, <1>9 DEF UeCb, CfgState
<1>11. ueCb' \in [Id -> UeCb] /\ ueCb'[i] = u /\ \A j \in Id \ {i} : ueCb'[j] = ueCb[j]
  BY <1>3, <1>6, <1>10, SetUeCb
<1>12. InPhase(c, ph, i)' /\ MacQ' /\ ~nullDb' /\ \A j : j # i => InMac(j)' = InMac(j)
  <2>1. CASE ph # "handin"
    <3>1. u.state = "ACTIVE"
      <4>1. CASE ph = "connecting"
        BY <1>5, <1>10, <4>1 DEF Connecting, Idle
      <4>2. CASE ph = "completing"
        BY <1>4, <1>5, <1>10, <4>2 DEF InPhase, Completing, Idle
      <4>3. QED
        BY <1>5, <2>1, <4>1, <4>2
    <3>2. UNCHANGED <<nullDb, duToMac>>
      BY <1>2, <3>1 DEF CreateDone
    <3>3. MacQ' /\ \A j : InMac(j)' = InMac(j)
      BY <1>6, <3>2, MacQStill
    <3>4. \A x \in InRlc(i)' : x \in InRlc(i) /\ x # t
      BY <1>7 DEF Without
    <3>5. InPhase(c, ph, i)'
      <4>1. CASE ph = "connecting"
        <5>1. Connecting(i)
          BY <1>5, <4>1
        <5>2. InRlc(i)' = {}
          BY <1>3, <3>4, <5>1 DEF Connecting, One
        <5>3. Connecting(i)'
          BY <1>8, <1>10, <1>11, <3>3, <5>1, <5>2
          DEF Connecting, Idle, NoCfra, SameRlcOwn, SameMacOwn, One, OnePerEv
        <5>4. QED
          BY <1>4, <1>5, <1>10, <1>11, <4>1, <5>3 DEF InPhase
      <4>2. CASE ph = "completing"
        <5>1. Completing(i) /\ c \in Access
          BY <1>4, <1>5, <4>2 DEF InPhase
        <5>2. Late(i)'
          BY <3>3, <5>1 DEF Completing, Late, One
        <5>3. Est(i)'
          BY <1>8, <5>1 DEF Completing, Est, NoCfra, NoRa, SameMacOwn
        <5>4. Completing(i)'
          BY <1>10, <1>11, <3>4, <5>1, <5>2, <5>3 DEF Completing, Idle, OnePerEv
        <5>5. QED
          BY <1>4, <1>10, <1>11, <4>2, <5>1, <5>4 DEF InPhase
      <4>3. QED
        BY <1>5, <2>1, <4>1, <4>2
    <3>6. QED
      BY <3>2, <3>3, <3>5 DEF Core
  <2>2. CASE ph = "handin"
    <3>1. Creating(i) /\ HandingIn(i) /\ c \in HandIn /\ ueCb[i].cu = c
      BY <1>4, <1>5, <2>2 DEF InPhase
    <3>2. InRlc(i)' = {}
      BY <1>3, <1>7, <3>1 DEF Without, Creating, One
    <3>3. Hand(i)'
      BY <1>8, <3>1 DEF HandingIn, Hand, NoRa, SameMacOwn
    <3>4. u.state = "HANDIN" /\ u.db.act = "SETUP"
      BY <1>10, <3>1 DEF HandingIn
    <3>5. CASE u.mac # "CREATE_COMPLETE"
      <4>1. UNCHANGED <<nullDb, duToMac>>
        BY <1>2, <3>5 DEF CreateDone
      <4>2. MacQ' /\ \A j : InMac(j)' = InMac(j)
        BY <1>6, <4>1, MacQStill
      <4>3. Creating(i)'
        BY <1>11, <3>1, <3>2, <3>5, <4>2 DEF Creating, One
      <4>4. HandingIn(i)'
        BY <1>11, <3>3, <3>4, <4>3 DEF HandingIn
      <4>5. QED
        BY <1>10, <1>11, <2>2, <3>1, <4>1, <4>2, <4>4 DEF InPhase, Core
    <3>6. CASE u.mac = "CREATE_COMPLETE"
      <4>1. nullDb' = (nullDb \/ u.db = NoDb) /\ SendToMac("RACH_REQ", i, NoDb)
        BY <1>2, <1>10, <3>4, <3>6 DEF CreateDone
      <4>2. InMac(i) = {}
        BY <1>10, <3>1, <3>6 DEF Creating
      <4>3. PICK n : n = ReqTok("duToMac", "RACH_REQ")
        BY Zenon
      <4>4. n.at = "duToMac" /\ n.ev = "RACH_REQ"
        BY <4>3 DEF ReqTok
      <4>5. /\ InMac(i)' = With(InMac(i), n)
            /\ (\A j : j # i => InMac(j)' = InMac(j)) /\ MacQ'
        BY <1>3, <1>6, <4>1, <4>2, <4>3, NoDbType, DuAsksMac
      <4>6. Preambles(i)'
        BY <3>2, <4>2, <4>4, <4>5 DEF Preambles, One, With
      <4>7. HandingIn(i)'
        BY <1>11, <3>3, <3>4, <4>6 DEF HandingIn
      <4>8. u.db # NoDb
        BY <3>4 DEF NoDb
      <4>9. QED
        BY <1>10, <1>11, <2>2, <3>1, <4>1, <4>5, <4>7, <4>8 DEF InPhase, Core
    <3>7. QED
      BY <3>5, <3>6
  <2>3. QED
    BY <2>1, <2>2
<1>13. CuMoves(c, i, ph)
  BY <1>4, <1>6, CuStays
<1>14. ph \notin {"idle", "access", "initial"}
  BY <1>5
<1>15. QED
  BY <1>3, <1>4, <1>6, <1>7, <1>11, <1>12, <1>13, <1>14, DuMoves

LEMMA RlcUeReconfigRspKeeps ==
    ASSUME Core, DuProcRlcUeReconfigRsp
    PROVE  Keeps
<1>1. PICK i, t, u : /\ i = Head(rlcToDu).ue /\ t = Tok("rlcToDu", "RECONFIG", Ok(First(rlcToDu)))
                     /\ u = [ueCb[i] EXCEPT !.rlc = "RECFG_COMPLETE"]
  BY Zenon
<1>2. FromRlc("RECONFIG") /\ RecfgDone(i, u) /\ UNCHANGED <<numActvUes, ueBitMap, duToRlcDl>>
  BY <1>1 DEF DuProcRlcUeReconfigRsp
<1>3. i \in Id /\ t \in InRlc(i) /\ t.at = "rlcToDu" /\ t.ev = "RECONFIG"
  BY <1>1, <1>2, DuHasRlc
<1>4. PICK c \in CuUe, ph \in Phase : HasPhase(c, ph, i) /\ ph # "idle" /\ InPhase(c, ph, i)
  BY <1>1, <1>2, DuHasRlc
<1>5. ph = "asked" /\ Running(i)
  BY <1>3, <1>4, RlcWho
<1>6. /\ UNCHANGED <<duToRlc, duToMac>> /\ UNCHANGED macToDu
      /\ UNCHANGED <<rlcOwnVars, macOwnVars, ueBitMap, ueCcchCtxt, numUe>>
  BY <1>2 DEF RecfgDone, FromRlc
<1>7. /\ InRlc(i)' = Without(InRlc(i), t)
      /\ (\A j : j # i => InRlc(j)' = InRlc(j)) /\ RlcQ'
  BY <1>1, <1>2, <1>6, DuTakesRlc
<1>8. InRlc(i)' = {} /\ InRlc(i)' \subseteq InRlc(i)
  BY <1>3, <1>5, <1>7 DEF Running, One, Without
<1>9. MacQ' /\ \A j : InMac(j)' = InMac(j)
  BY <1>6, MacQStill
<1>10. ueCb[i] \in UeCb
  BY <1>3, CoreParts DEF DuTypes
<1>11. /\ u \in UeCb /\ u.cu = ueCb[i].cu /\ u.state = ueCb[i].state /\ u.db = ueCb[i].db
       /\ u.mac = ueCb[i].mac
  BY <1>1, <1>10 DEF UeCb, CfgState
<1>12. HasPhase(c, "asked", i) /\ InPhase(c, "asked", i)
  BY <1>4, <1>5
<1>13. u.mac = "RECFG_COMPLETE" => InMac(i)' = {}
  BY <1>5, <1>9, <1>11 DEF Running
<1>14. SameMacOwn(i) /\ InMac(i)' \subseteq InMac(i)
  BY <1>6, <1>9, OwnKept
<1>15. /\ \E x \in {"asked", "ready"} : CuMoves(c, i, x) /\ InPhase(c, x, i)'
       /\ ueCb' \in [Id -> UeCb] /\ ~nullDb'
       /\ \A j \in Id \ {i} : ueCb'[j] = ueCb[j]
  BY <1>2, <1>3, <1>5, <1>8, <1>11, <1>12, <1>13, <1>14, RecfgDoneMoves
<1>16. PICK x \in {"asked", "ready"} : CuMoves(c, i, x) /\ InPhase(c, x, i)'
  BY <1>15
<1>17. ph \notin {"access", "initial"} /\ x \notin {"idle", "access", "initial"}
  BY <1>5
<1>18. QED
  BY <1>3, <1>4, <1>6, <1>7, <1>9, <1>15, <1>16, <1>17, DuMoves

LEMMA RlcUeDeleteRspKeeps ==
    ASSUME Core, DuProcRlcUeDeleteRsp
    PROVE  Keeps
<1>1. PICK i, t, u : /\ i = Head(rlcToDu).ue /\ t = Tok("rlcToDu", "DELETE", Ok(First(rlcToDu)))
                     /\ u = [ueCb[i] EXCEPT !.rlc = "DELETE_COMPLETE"]
  BY Zenon
<1>2. /\ FromRlc("DELETE") /\ UNCHANGED <<numActvUes, ueBitMap, duToRlcDl, nullDb, cuUe, duToRlc>>
  BY <1>1 DEF DuProcRlcUeDeleteRsp
<1>3. i \in Id /\ t \in InRlc(i) /\ t.at = "rlcToDu" /\ t.ev = "DELETE"
  BY <1>1, <1>2, DuHasRlc
<1>4. PICK c \in CuUe, ph \in Phase : HasPhase(c, ph, i) /\ ph # "idle" /\ InPhase(c, ph, i)
  BY <1>1, <1>2, DuHasRlc
<1>5. ph = "releasing" /\ DeletingInRlc(i)
  BY <1>3, <1>4, RlcWho
<1>6. /\ UNCHANGED <<rlcOwnVars, macOwnVars, ueBitMap, ueCcchCtxt, numUe>> /\ UNCHANGED macToDu
      /\ UNCHANGED <<duToRlc, duToRlcDl>> /\ UNCHANGED cuUe /\ ~nullDb'
  BY <1>2 DEF FromRlc, Core
<1>7. /\ InRlc(i)' = Without(InRlc(i), t)
      /\ (\A j : j # i => InRlc(j)' = InRlc(j)) /\ RlcQ'
  BY <1>1, <1>2, <1>6, DuTakesRlc
<1>8. InRlc(i)' = {}
  BY <1>3, <1>5, <1>7 DEF DeletingInRlc, One, Without
<1>9. SameRlcOwn(i) /\ SameMacOwn(i)
  BY <1>6, OwnKept
<1>10. Est(i)' /\ c \in Access /\ ueCb[i].cu = c
  BY <1>4, <1>5, <1>9 DEF InPhase, Releasing, Est, NoRa, NoCfra, SameMacOwn
<1>11. ueCb[i] \in UeCb
  BY <1>3, CoreParts DEF DuTypes
<1>12. /\ u \in UeCb /\ u.cu = ueCb[i].cu /\ u.state = "DELETION"
       /\ u.rlc = "DELETE_COMPLETE"
  BY <1>1, <1>5, <1>11 DEF UeCb, CfgState, DeletingInRlc
<1>13. CuMoves(c, i, "releasing")
  BY <1>4, <1>5, <1>6, CuStays
<1>14. HasPhase(c, "releasing", i)
  BY <1>4, <1>5
<1>15. CASE Ok(First(rlcToDu)) /\ ueCb' = [ueCb EXCEPT ![i] = u] /\ SendToMac("DELETE", i, NoDb)
  <2>1. ueCb' \in [Id -> UeCb] /\ ueCb'[i] = u /\ \A j \in Id \ {i} : ueCb'[j] = ueCb[j]
    BY <1>3, <1>12, <1>15, SetUeCb
  <2>2. PICK n : n = ReqTok("duToMac", "DELETE")
    BY Zenon
  <2>3. n.at = "duToMac" /\ n.ev = "DELETE"
    BY <2>2 DEF ReqTok
  <2>4. /\ InMac(i)' = With(InMac(i), n)
        /\ (\A j : j # i => InMac(j)' = InMac(j)) /\ MacQ'
    <3>1. \A x \in InMac(i) : x.at = "duToMac" => x.ev # "DELETE"
      BY <1>5 DEF DeletingInRlc, Late
    <3>2. QED
      BY <1>3, <1>6, <1>15, <2>2, <3>1, NoDbType, DuAsksMac
  <2>5. RlcEmpty(i)'
    <3>1. t.ok
      BY <1>1, <1>15 DEF Tok
    <3>2. QED
      BY <1>3, <1>5, <1>9, <3>1 DEF DeletingInRlc, RlcEmpty, SameRlcOwn
  <2>6. DeletingInMac(i)'
    <3>1. \A x \in InMac(i)' : x = n \/ x \in InMac(i)
      BY <2>4 DEF With
    <3>2. OnePerEv(InMac(i)')
      BY <1>5, <2>3, <3>1 DEF DeletingInRlc, Late, OnePerEv, One
    <3>3. \A x \in InMac(i)' : /\ x.ev \in {"CREATE", "DELETE"}
                               /\ x.ev = "CREATE" => x.at = "macToDu"
                               /\ x.ev = "DELETE" => x.at # "macToDu"
      BY <1>5, <2>3, <3>1 DEF DeletingInRlc, Late
    <3>4. QED
      BY <1>8, <1>12, <2>1, <2>5, <3>2, <3>3 DEF DeletingInMac, OnePerEv
  <2>7. InPhase(c, "releasing", i)'
    BY <1>10, <1>12, <2>1, <2>6 DEF InPhase, Releasing
  <2>8. QED
    BY <1>3, <1>6, <1>7, <1>13, <1>14, <2>1, <2>4, <2>7, DuMoves
<1>16. CASE UNCHANGED <<ueCb, duToMac>>
  <2>1. MacQ' /\ \A j : InMac(j)' = InMac(j)
    BY <1>6, <1>16, MacQStill
  <2>2. DeletingInRlc(i)'
    BY <1>5, <1>8, <1>16, <2>1 DEF DeletingInRlc, Late, One
  <2>3. InPhase(c, "releasing", i)'
    BY <1>10, <1>16, <2>2 DEF InPhase, Releasing
  <2>4. ueCb' \in [Id -> UeCb] /\ \A j \in Id \ {i} : ueCb'[j] = ueCb[j]
    BY <1>16, CoreParts DEF DuTypes
  <2>5. QED
    BY <1>3, <1>6, <1>7, <1>13, <1>14, <2>1, <2>3, <2>4, DuMoves
<1>17. \/ Ok(First(rlcToDu)) /\ ueCb' = [ueCb EXCEPT ![i] = u] /\ SendToMac("DELETE", i, NoDb)
       \/ UNCHANGED <<ueCb, duToMac>>
  <2>1. [ueCb EXCEPT ![i].rlc = "DELETE_COMPLETE"] = [ueCb EXCEPT ![i] = u]
    BY <1>1, <1>3, CoreParts DEF DuTypes
  <2>2. QED
    BY <1>1, <2>1 DEF DuProcRlcUeDeleteRsp, Ok, First
<1>18. QED
  BY <1>15, <1>16, <1>17

\* A reconfiguration is asked of RLC and of MAC.
LEMMA RecfgReqMoves ==
    ASSUME Core, NEW c \in Access, NEW i \in Id, Est(i), Late(i), NEW u \in UeCb, u.cu = c,
           u.state = "ACTIVE", u.db.act \in {"SETUP", "MOD"}, u.db.op # "STOP",
           RecfgReq(i, u), UNCHANGED macToDu, SameMacOwn(i),
           NEW r, r.ev = "RECONFIG", InRlc(i)' = {r}
    PROVE  /\ InPhase(c, "asked", i)'
           /\ ueCb' \in [Id -> UeCb] /\ \A j \in Id \ {i} : ueCb'[j] = ueCb[j]
           /\ MacQ' /\ \A j : j # i => InMac(j)' = InMac(j)
<1>1. PICK v : v = [u EXCEPT !.rlc = "INPROGRESS", !.mac = "INPROGRESS"]
  BY Zenon
<1>2. /\ v \in UeCb /\ v.cu = c /\ v.state = "ACTIVE" /\ v.db = u.db
      /\ v.rlc = "INPROGRESS" /\ v.mac = "INPROGRESS"
  BY <1>1 DEF UeCb, CfgState
<1>3. ueCb' = [ueCb EXCEPT ![i] = v] /\ SendToMac("RECONFIG", i, u.db)
  BY <1>1 DEF RecfgReq
<1>4. ueCb' \in [Id -> UeCb] /\ ueCb'[i] = v /\ \A j \in Id \ {i} : ueCb'[j] = ueCb[j]
  BY <1>2, <1>3, SetUeCb
<1>5. PICK n : n = ReqTok("duToMac", "RECONFIG")
  BY Zenon
<1>6. n.at = "duToMac" /\ n.ev = "RECONFIG"
  BY <1>5 DEF ReqTok
<1>7. /\ InMac(i)' = With(InMac(i), n)
      /\ (\A j : j # i => InMac(j)' = InMac(j)) /\ MacQ'
  <2>1. u.db \in Db
    BY DEF UeCb
  <2>2. \A x \in InMac(i) : x.at = "duToMac" => x.ev # "RECONFIG"
    BY DEF Late
  <2>3. QED
    BY <1>3, <1>5, <2>1, <2>2, DuAsksMac
<1>8. Running(i)'
  <2>1. \A x \in InMac(i)' : x = n \/ x \in InMac(i)
    BY <1>7 DEF With
  <2>2. OnePerEv(InMac(i)')
    BY <1>6, <2>1 DEF Late, OnePerEv, One
  <2>3. \A x \in InMac(i)' : /\ x.ev \in {"CREATE", "RECONFIG"}
                             /\ x.ev = "CREATE" => x.at = "macToDu"
    BY <1>6, <2>1 DEF Late
  <2>4. QED
    BY <1>2, <1>4, <2>2, <2>3 DEF Running, OnePerEv, One
<1>9. Est(i)'
  BY DEF Est, NoRa, NoCfra, SameMacOwn
<1>10. Asked(i)'
  BY <1>2, <1>4, <1>8, <1>9 DEF Asked
<1>11. InPhase(c, "asked", i)'
  BY <1>2, <1>4, <1>10 DEF InPhase
<1>12. QED
  BY <1>4, <1>7, <1>11

\* A deletion is asked of RLC.
LEMMA DeleteReqMoves ==
    ASSUME Core, NEW c \in Access, NEW i \in Id, Est(i), Late(i), NEW u \in UeCb, u.cu = c,
           DeleteReq(i, u), UNCHANGED macToDu, SameMacOwn(i),
           InRlc(i)' = {ReqTok("duToRlc", "DELETE")}
    PROVE  /\ InPhase(c, "releasing", i)'
           /\ ueCb' \in [Id -> UeCb] /\ \A j \in Id \ {i} : ueCb'[j] = ueCb[j]
           /\ MacQ' /\ \A j : j # i => InMac(j)' = InMac(j)
<1>1. PICK v, n : v = [u EXCEPT !.state = "DELETION"] /\ n = ReqTok("duToRlc", "DELETE")
  BY Zenon
<1>2. v \in UeCb /\ v.cu = c /\ v.state = "DELETION" /\ n.at = "duToRlc" /\ n.ev = "DELETE"
  BY <1>1 DEF UeCb, ReqTok
<1>3. ueCb' = [ueCb EXCEPT ![i] = v] /\ UNCHANGED duToMac
  BY <1>1 DEF DeleteReq
<1>4. ueCb' \in [Id -> UeCb] /\ ueCb'[i] = v /\ \A j \in Id \ {i} : ueCb'[j] = ueCb[j]
  BY <1>2, <1>3, SetUeCb
<1>5. MacQ' /\ \A j : InMac(j)' = InMac(j)
  BY <1>3, MacQStill
<1>6. InRlc(i)' = {n}
  BY <1>1
<1>7. DeletingInRlc(i)'
  BY <1>2, <1>4, <1>5, <1>6 DEF DeletingInRlc, Late, One
<1>8. Est(i)'
  BY DEF Est, NoRa, NoCfra, SameMacOwn
<1>9. InPhase(c, "releasing", i)'
  BY <1>2, <1>4, <1>7, <1>8 DEF InPhase, Releasing
<1>10. QED
  BY <1>4, <1>5, <1>9

LEMMA DlRrcMsgRspKeeps ==
    ASSUME Core, DuProcRlcDlRrcMsgRsp
    PROVE  Keeps
<1>1. PICK i, t, u : /\ i = Head(rlcToDu).ue /\ t = Tok("rlcToDu", "DL_RRC", Ok(First(rlcToDu)))
                     /\ u = ueCb[i]
  BY Zenon
<1>2. FromRlc("DL_RRC") /\ UNCHANGED <<numActvUes, ueBitMap, nullDb, cuUe>>
  BY <1>1 DEF DuProcRlcDlRrcMsgRsp
<1>3. i \in Id /\ t \in InRlc(i) /\ t.at = "rlcToDu" /\ t.ev = "DL_RRC"
  BY <1>1, <1>2, DuHasRlc
<1>4. PICK c \in CuUe, ph \in Phase : HasPhase(c, ph, i) /\ ph # "idle" /\ InPhase(c, ph, i)
  BY <1>1, <1>2, DuHasRlc
<1>5. ph \in {"asked", "releasing"} /\ Waiting(i) /\ Late(i)
  BY <1>3, <1>4, RlcWho DEF Waiting
<1>6. u \in UeCb /\ c \in Access /\ u.cu = c /\ Est(i)
  BY <1>1, <1>3, <1>4, <1>5, CoreParts DEF DuTypes, InPhase, Asked, Releasing
<1>7. /\ u.state = "ACTIVE"
      /\ ph = "asked" => u.db.act \in {"SETUP", "MOD"} /\ u.db.op # "STOP"
      /\ ph = "releasing" => u.db.act = "RELEASE"
  <2>1. CASE ph = "asked"
    BY <1>1, <1>4, <2>1 DEF InPhase, Asked
  <2>2. CASE ph = "releasing"
    <3>1. Releasing(i)
      BY <1>4, <2>2 DEF InPhase
    <3>2. ~DeletingInRlc(i) /\ ~DeletingInMac(i)
      BY <1>3 DEF DeletingInRlc, DeletingInMac
    <3>3. QED
      BY <1>1, <2>2, <3>1, <3>2 DEF Releasing
  <2>3. QED
    BY <1>5, <2>1, <2>2
<1>8. /\ UNCHANGED <<rlcOwnVars, macOwnVars, ueBitMap, ueCcchCtxt, numUe>> /\ UNCHANGED macToDu
      /\ UNCHANGED cuUe /\ ~nullDb'
  BY <1>2 DEF FromRlc, Core
<1>9. SameRlcOwn(i) /\ SameMacOwn(i)
  BY <1>8, OwnKept
<1>10. InRlc(i) = {t}
  BY <1>3, <1>5 DEF Waiting, One
<1>11. CuMoves(c, i, ph)
  BY <1>4, <1>8, CuStays
<1>12. u.db \in Db
  BY <1>6 DEF UeCb
<1>13. CASE RecfgReq(i, u) /\ ph = "asked"
  <2>1. SendToRlc("RECONFIG", i, u.db) /\ UNCHANGED duToRlcDl
    BY <1>13 DEF RecfgReq
  <2>2. PICK r : r = ReqTok("duToRlc", "RECONFIG")
    BY Zenon
  <2>3. r.at = "duToRlc" /\ r.ev = "RECONFIG" /\ "RECONFIG" \in RlcEvent
    BY <2>2 DEF ReqTok, RlcEvent
  <2>4. /\ InRlc(i)' = With(Without(InRlc(i), t), r)
        /\ (\A j : j # i => InRlc(j)' = InRlc(j)) /\ RlcQ'
    <3>1. \A x \in InRlc(i) : x.at = "duToRlc" => x.ev # "RECONFIG"
      BY <1>3, <1>10
    <3>2. QED
      BY <1>1, <1>2, <1>12, <2>1, <2>2, <2>3, <3>1, DuTakesRlcAsks
  <2>5. InRlc(i)' = {r}
    BY <1>10, <2>4 DEF With, Without
  <2>6. /\ InPhase(c, "asked", i)'
        /\ ueCb' \in [Id -> UeCb] /\ \A j \in Id \ {i} : ueCb'[j] = ueCb[j]
        /\ MacQ' /\ \A j : j # i => InMac(j)' = InMac(j)
    BY <1>3, <1>5, <1>6, <1>7, <1>8, <1>9, <1>13, <2>3, <2>5, RecfgReqMoves
  <2>7. QED
    BY <1>3, <1>4, <1>8, <1>11, <1>13, <2>4, <2>6, DuMoves
<1>14. CASE DeleteReq(i, u) /\ ph = "releasing"
  <2>1. SendToRlc("DELETE", i, NoDb) /\ UNCHANGED duToRlcDl
    BY <1>14 DEF DeleteReq
  <2>2. PICK r : r = ReqTok("duToRlc", "DELETE")
    BY Zenon
  <2>3. "DELETE" \in RlcEvent
    BY DEF RlcEvent
  <2>4. /\ InRlc(i)' = With(Without(InRlc(i), t), r)
        /\ (\A j : j # i => InRlc(j)' = InRlc(j)) /\ RlcQ'
    <3>1. \A x \in InRlc(i) : x.at = "duToRlc" => x.ev # "DELETE"
      BY <1>3, <1>10
    <3>2. QED
      BY <1>1, <1>2, <2>1, <2>2, <2>3, <3>1, NoDbType, DuTakesRlcAsks
  <2>5. InRlc(i)' = {r}
    BY <1>10, <2>4 DEF With, Without
  <2>6. /\ InPhase(c, "releasing", i)'
        /\ ueCb' \in [Id -> UeCb] /\ \A j \in Id \ {i} : ueCb'[j] = ueCb[j]
        /\ MacQ' /\ \A j : j # i => InMac(j)' = InMac(j)
    BY <1>3, <1>5, <1>6, <1>8, <1>9, <1>14, <2>2, <2>5, DeleteReqMoves
  <2>7. QED
    BY <1>3, <1>4, <1>8, <1>11, <1>14, <2>4, <2>6, DuMoves
<1>15. CASE UNCHANGED <<ueCb, duToRlc, duToMac, duToRlcDl>>
  <2>1. /\ InRlc(i)' = Without(InRlc(i), t)
        /\ (\A j : j # i => InRlc(j)' = InRlc(j)) /\ RlcQ'
    BY <1>1, <1>2, <1>15, DuTakesRlc
  <2>2. InRlc(i)' = {}
    BY <1>10, <2>1 DEF Without
  <2>3. MacQ' /\ \A j : InMac(j)' = InMac(j)
    BY <1>8, <1>15, MacQStill
  <2>4. Waiting(i)' /\ Est(i)'
    BY <1>5, <1>6, <1>9, <2>2, <2>3 DEF Waiting, Late, One, Est, NoRa, NoCfra, SameMacOwn
  <2>5. InPhase(c, ph, i)'
    <3>1. CASE ph = "asked"
      <4>1. Asked(i)'
        BY <1>1, <1>7, <1>15, <2>4, <3>1 DEF Asked
      <4>2. QED
        BY <1>1, <1>6, <1>15, <3>1, <4>1 DEF InPhase
    <3>2. CASE ph = "releasing"
      <4>1. Releasing(i)'
        BY <1>1, <1>7, <1>15, <2>4, <3>2 DEF Releasing
      <4>2. QED
        BY <1>1, <1>6, <1>15, <3>2, <4>1 DEF InPhase
    <3>3. QED
      BY <1>5, <3>1, <3>2
  <2>6. ueCb' \in [Id -> UeCb] /\ \A j \in Id \ {i} : ueCb'[j] = ueCb[j]
    BY <1>15, CoreParts DEF DuTypes
  <2>7. ph \notin {"idle", "access", "initial"}
    BY <1>5
  <2>8. QED
    BY <1>3, <1>4, <1>8, <1>11, <2>1, <2>3, <2>5, <2>6, <2>7, DuMoves
<1>16. \/ RecfgReq(i, u) /\ ph = "asked"
       \/ DeleteReq(i, u) /\ ph = "releasing"
       \/ UNCHANGED <<ueCb, duToRlc, duToMac, duToRlcDl>>
  <2>1. CASE u.db.rrc /\ u.db.act = "SETUP"
    BY <1>1, <1>5, <1>7, <2>1 DEF DuProcRlcDlRrcMsgRsp, SetupReq
  <2>2. CASE u.db.rrc /\ u.db.act = "MOD"
    BY <1>1, <1>5, <1>7, <2>2 DEF DuProcRlcDlRrcMsgRsp
  <2>3. CASE u.db.rrc /\ u.db.act = "RELEASE"
    BY <1>1, <1>5, <1>7, <2>3 DEF DuProcRlcDlRrcMsgRsp
  <2>4. CASE ~u.db.rrc
    BY <1>1, <2>4 DEF DuProcRlcDlRrcMsgRsp
  <2>5. QED
    BY <1>5, <1>7, <2>1, <2>2, <2>3, <2>4
<1>17. QED
  BY <1>13, <1>14, <1>15, <1>16

\* The RRC message with which a UE has come.
LEMMA UlRrcMsgTransKeeps ==
    ASSUME Core, DuProcRlcUlRrcMsgTrans
    PROVE  Keeps
<1>1. PICK i, t, u, n : /\ i = Head(rlcToDu).ue /\ t = Tok("rlcToDu", "UL_RRC", Ok(First(rlcToDu)))
                        /\ u = [ueCb[i] EXCEPT !.state = "ACTIVE"]
                        /\ n = ReqTok("duToMac", "RACH_REL")
  BY Zenon
<1>2. /\ FromRlc("UL_RRC") /\ UNCHANGED <<ueBitMap, duToRlcDl, nullDb, duToRlc>>
      /\ cuUe' = [d \in CuUe |-> IF cuUe[d].ph = "completing" /\ cuUe[d].id = i
                                 THEN [cuUe[d] EXCEPT !.ph = IF d \in HandIn THEN "ready"
                                                             ELSE "connected"]
                                 ELSE cuUe[d]]
  BY <1>1 DEF DuProcRlcUlRrcMsgTrans
<1>3. i \in Id /\ t \in InRlc(i) /\ t.at = "rlcToDu" /\ t.ev = "UL_RRC"
  BY <1>1, <1>2, DuHasRlc
<1>4. PICK c \in CuUe, ph \in Phase : HasPhase(c, ph, i) /\ ph # "idle" /\ InPhase(c, ph, i)
  BY <1>1, <1>2, DuHasRlc
<1>5. ph = "completing"
  BY <1>3, <1>4, RlcWho
<1>6. /\ UNCHANGED <<rlcOwnVars, macOwnVars, ueBitMap, ueCcchCtxt, numUe>> /\ UNCHANGED macToDu
      /\ UNCHANGED <<duToRlc, duToRlcDl>> /\ ~nullDb'
  BY <1>2 DEF FromRlc, Core
<1>7. SameRlcOwn(i) /\ SameMacOwn(i)
  BY <1>6, OwnKept
<1>8. /\ InRlc(i)' = Without(InRlc(i), t)
      /\ (\A j : j # i => InRlc(j)' = InRlc(j)) /\ RlcQ'
      /\ \A x \in InRlc(i)' : x.at # "rlcToDu"
  BY <1>1, <1>2, <1>6, DuTakesRlc
<1>9. PICK x : x = IF c \in HandIn THEN "ready" ELSE "connected"
  BY Zenon
<1>10. CuMoves(c, i, x)
  <2>1. cuUe[c].ph = "completing" /\ cuUe[c].id = i /\ \A d \in CuUe \ {c} : cuUe[d].id # i
    BY <1>3, <1>4, <1>5, PhaseIs DEF HasPhase
  <2>2. \A d \in CuUe \ {c} : cuUe'[d] = cuUe[d]
    BY <1>2, <2>1
  <2>3. cuUe'[c] = [cuUe[c] EXCEPT !.ph = x]
    BY <1>2, <1>9, <2>1
  <2>4. cuUe \in [CuUe -> CuCb] /\ x \in Phase
    BY <1>9, CoreParts DEF DuTypes, CuCb, Phase
  <2>5. cuUe[c] \in CuCb /\ cuUe'[c] \in CuCb /\ cuUe'[c].ph = x /\ cuUe'[c].id = i
    BY <2>1, <2>3, <2>4 DEF CuCb
  <2>6. DOMAIN cuUe' = CuUe /\ cuUe' = [d \in CuUe |-> cuUe'[d]]
    BY <1>2
  <2>7. \A d \in CuUe : cuUe'[d] \in CuCb
    BY <2>2, <2>4, <2>5
  <2>8. QED
    BY <2>2, <2>5, <2>6, <2>7 DEF CuMoves
<1>11. ueCb[i] \in UeCb /\ ueCb[i].cu = c
  BY <1>3, <1>4, <1>5, CoreParts DEF DuTypes, InPhase
<1>12. /\ InPhase(c, x, i)' /\ MacQ' /\ \A j : j # i => InMac(j)' = InMac(j)
       /\ ueCb' \in [Id -> UeCb] /\ \A j \in Id \ {i} : ueCb'[j] = ueCb[j]
  <2>1. CASE c \in Access
    <3>1. Completing(i) /\ x = "connected"
      BY <1>4, <1>5, <1>9, <2>1, DuUeAssumption DEF InPhase
    <3>2. UNCHANGED <<ueCb, numActvUes, duToMac>>
      BY <1>1, <3>1 DEF Completing, Idle, DuProcRlcUlRrcMsgTrans
    <3>3. MacQ' /\ \A j : InMac(j)' = InMac(j)
      BY <1>6, <3>2, MacQStill
    <3>4. InRlc(i)' = {}
      BY <1>8, <3>1 DEF Completing, Without
    <3>5. Late(i)' /\ Est(i)'
      BY <1>7, <3>1, <3>3 DEF Completing, Late, One, Est, NoRa, NoCfra, SameMacOwn
    <3>6. Connected(i)'
      BY <3>1, <3>2, <3>4, <3>5 DEF Connected, Completing, Idle
    <3>7. InPhase(c, x, i)'
      BY <1>11, <2>1, <3>1, <3>2, <3>6 DEF InPhase
    <3>8. QED
      BY <3>2, <3>3, <3>7, CoreParts DEF DuTypes
  <2>2. CASE c \notin Access
    <3>1. Arrived(i) /\ c \in HandIn /\ x = "ready"
      BY <1>4, <1>5, <1>9, <2>2 DEF InPhase, CuUe
    <3>2. ueCb' = [ueCb EXCEPT ![i] = u] /\ SendToMac("RACH_REL", i, NoDb)
      <4>1. [ueCb EXCEPT ![i].state = "ACTIVE"] = [ueCb EXCEPT ![i] = u]
        BY <1>1, <1>3, CoreParts DEF DuTypes
      <4>2. QED
        BY <1>1, <3>1, <4>1 DEF Arrived, Idle, DuProcRlcUlRrcMsgTrans, HandInDone
    <3>3. u \in UeCb /\ u.state = "ACTIVE" /\ u.db = NoDb /\ u.cu = c
      BY <1>1, <1>11, <3>1 DEF UeCb, Arrived, Idle
    <3>4. ueCb' \in [Id -> UeCb] /\ ueCb'[i] = u /\ \A j \in Id \ {i} : ueCb'[j] = ueCb[j]
      BY <1>3, <3>2, <3>3, SetUeCb
    <3>5. n.at = "duToMac" /\ n.ev = "RACH_REL"
      BY <1>1 DEF ReqTok
    <3>6. /\ InMac(i)' = With(InMac(i), n)
          /\ (\A j : j # i => InMac(j)' = InMac(j)) /\ MacQ'
      <4>1. InMac(i) = {}
        BY <3>1 DEF Arrived
      <4>2. QED
        BY <1>1, <1>3, <1>6, <3>2, <4>1, NoDbType, DuAsksMac
    <3>7. InMac(i)' = {n}
      BY <3>1, <3>6 DEF Arrived, With
    <3>8. InRlc(i)' = {}
      BY <1>3, <1>8, <3>1 DEF Arrived, One, Without
    <3>9. HandedIn(i)'
      BY <1>7, <3>1, <3>3, <3>4, <3>5, <3>7, <3>8 DEF HandedIn, Arrived, Hand, NoRa, Idle, One, SameMacOwn
    <3>10. InPhase(c, x, i)'
      BY <2>2, <3>1, <3>3, <3>4, <3>9 DEF InPhase
    <3>11. QED
      BY <3>4, <3>6, <3>10
  <2>3. QED
    BY <2>1, <2>2
<1>13. ph \notin {"access", "initial"} /\ x \notin {"idle", "access", "initial"}
  BY <1>5, <1>9
<1>14. QED
  BY <1>3, <1>4, <1>6, <1>8, <1>10, <1>12, <1>13, DuMoves

-----------------------------------------------------------------------------
(* What the CU asks.                                                         *)

\* An RRC message is sent first.
LEMMA RrcMsgFirstMoves ==
    ASSUME Core, NEW i \in Id, Late(i), InRlc(i) = {}, NEW u \in UeCb,
           RrcMsgFirst(i, u), UNCHANGED <<rlcToDu, rlcOwnVars, macToDu>>
    PROVE  /\ Waiting(i)' /\ ueCb'[i] = u
           /\ ueCb' \in [Id -> UeCb] /\ \A j \in Id \ {i} : ueCb'[j] = ueCb[j]
           /\ MacQ' /\ \A j : j # i => InMac(j)' = InMac(j)
           /\ RlcQ' /\ \A j : j # i => InRlc(j)' = InRlc(j)
<1>1. /\ ueCb' = [ueCb EXCEPT ![i] = u] /\ duToRlcDl' = Append(duToRlcDl, i)
      /\ UNCHANGED <<duToRlc, duToMac>>
  BY DEF RrcMsgFirst
<1>2. ueCb' \in [Id -> UeCb] /\ ueCb'[i] = u /\ \A j \in Id \ {i} : ueCb'[j] = ueCb[j]
  BY <1>1, SetUeCb
<1>3. PICK n : n = ReqTok("duToRlcDl", "DL_RRC")
  BY Zenon
<1>4. n.at = "duToRlcDl" /\ n.ev = "DL_RRC"
  BY <1>3 DEF ReqTok
<1>5. InRlc(i)' = With(InRlc(i), n) /\ RlcQ' /\ \A j : j # i => InRlc(j)' = InRlc(j)
  BY <1>1, <1>3, DuAsksRrc
<1>6. MacQ' /\ \A j : InMac(j)' = InMac(j)
  BY <1>1, MacQStill
<1>7. Waiting(i)'
  <2>1. InRlc(i)' = {n}
    BY <1>5 DEF With
  <2>2. QED
    BY <1>4, <1>6, <2>1 DEF Waiting, Late, One
<1>8. QED
  BY <1>2, <1>5, <1>6, <1>7

\* The CU asks for a reconfiguration of a UE that is there.
LEMMA CuAsksRecfg ==
    ASSUME Core, CuSends, UNCHANGED <<ueCcchCtxt, numUe, ueBitMap>>,
           NEW c \in Access, NEW i \in Id, NEW ph, HasPhase(c, ph, i), ph \notin {"access", "initial"},
           CuMoves(c, i, "asked"), Est(i), Late(i), InRlc(i) = {}, NEW u \in UeCb, u.cu = c,
           u.state = "ACTIVE", u.db.act \in {"SETUP", "MOD"}, u.db.op # "STOP",
           RecfgReq(i, u) \/ RrcMsgFirst(i, u)
    PROVE  Keeps
<1>1. /\ UNCHANGED <<rlcOwnVars, macOwnVars>> /\ UNCHANGED rlcToDu /\ UNCHANGED macToDu /\ ~nullDb'
      /\ c \in CuUe
  BY DEF CuSends, Core, CuUe
<1>2. SameMacOwn(i)
  BY <1>1, OwnKept
<1>3. CASE RecfgReq(i, u)
  <2>1. SendToRlc("RECONFIG", i, u.db) /\ UNCHANGED duToRlcDl
    BY <1>3 DEF RecfgReq
  <2>2. PICK r : r = ReqTok("duToRlc", "RECONFIG")
    BY Zenon
  <2>3. r.ev = "RECONFIG" /\ "RECONFIG" \in RlcEvent /\ u.db \in Db
    BY <2>2 DEF ReqTok, RlcEvent, UeCb
  <2>4. /\ InRlc(i)' = With(InRlc(i), r)
        /\ (\A j : j # i => InRlc(j)' = InRlc(j)) /\ RlcQ'
    BY <1>1, <2>1, <2>2, <2>3, DuAsksRlc
  <2>5. InRlc(i)' = {r}
    BY <2>4 DEF With
  <2>6. /\ InPhase(c, "asked", i)'
        /\ ueCb' \in [Id -> UeCb] /\ \A j \in Id \ {i} : ueCb'[j] = ueCb[j]
        /\ MacQ' /\ \A j : j # i => InMac(j)' = InMac(j)
    BY <1>1, <1>2, <1>3, <2>3, <2>5, RecfgReqMoves
  <2>7. QED
    BY <1>1, <2>4, <2>6, DuMoves
<1>4. CASE RrcMsgFirst(i, u)
  <2>1. /\ Waiting(i)' /\ ueCb'[i] = u
        /\ ueCb' \in [Id -> UeCb] /\ (\A j \in Id \ {i} : ueCb'[j] = ueCb[j])
        /\ MacQ' /\ (\A j : j # i => InMac(j)' = InMac(j))
        /\ RlcQ' /\ (\A j : j # i => InRlc(j)' = InRlc(j))
    BY <1>1, <1>4, RrcMsgFirstMoves
  <2>2. Est(i)'
    BY <1>2 DEF Est, NoRa, NoCfra, SameMacOwn
  <2>3. Asked(i)'
    BY <2>1, <2>2 DEF Asked
  <2>4. InPhase(c, "asked", i)'
    BY <2>1, <2>3 DEF InPhase
  <2>5. QED
    BY <1>1, <2>1, <2>4, DuMoves
<1>5. QED
  BY <1>3, <1>4

\* A UE of Access that awaits nothing.
LEMMA AtRest ==
    ASSUME Core, NEW c \in Access, cuUe[c].ph \in {"connected", "ready"}
    PROVE  \E i \in Id, ph \in Phase :
              /\ i = cuUe[c].id /\ ph \in {"connected", "ready"} /\ HasPhase(c, ph, i)
              /\ ph = cuUe[c].ph
              /\ Est(i) /\ Late(i) /\ InRlc(i) = {} /\ Idle(i, "ACTIVE")
              /\ ueCb[i] \in UeCb /\ ueCb[i].cu = c
<1>1. PICK i, ph : i = cuUe[c].id /\ ph = cuUe[c].ph
  BY Zenon
<1>2. c \in CuUe /\ ph # "idle" /\ ph \in {"connected", "ready"}
  BY <1>1 DEF CuUe
<1>3. i \in Id /\ HasPhase(c, ph, i) /\ InPhase(c, ph, i) /\ ph \in Phase
  BY <1>1, <1>2, PhaseIs
<1>4. ueCb[i] \in UeCb /\ ueCb[i].cu = c
  BY <1>2, <1>3, CoreParts DEF InPhase, DuTypes
<1>5. Est(i) /\ Late(i) /\ InRlc(i) = {} /\ Idle(i, "ACTIVE")
  <2>1. CASE ph = "connected"
    BY <1>3, <2>1 DEF InPhase, Connected
  <2>2. CASE ph = "ready"
    BY <1>3, <2>2 DEF InPhase, Ready, Late, One
  <2>3. QED
    BY <1>2, <2>1, <2>2
<1>6. QED
  BY <1>1, <1>2, <1>3, <1>4, <1>5

LEMMA CtxtSetupKeeps ==
    ASSUME Core, NEW c \in Access, NEW rbs \in SUBSET Rb, NEW rrc \in BOOLEAN, CtxtSetup(c, rbs, rrc)
    PROVE  Keeps
<1>1. cuUe[c].ph = "connected" /\ CuSends /\ UNCHANGED <<ueCcchCtxt, numUe, numActvUes, ueBitMap>>
  BY DEF CtxtSetup
<1>2. PICK i \in Id, ph \in Phase :
        /\ i = cuUe[c].id /\ ph \in {"connected", "ready"} /\ HasPhase(c, ph, i)
        /\ ph = cuUe[c].ph
        /\ Est(i) /\ Late(i) /\ InRlc(i) = {} /\ Idle(i, "ACTIVE")
        /\ ueCb[i] \in UeCb /\ ueCb[i].cu = c
  BY <1>1, AtRest
<1>3. PICK db, u : /\ db = [act |-> "SETUP", rrc |-> rrc, op |-> "ADD", rbs |-> rbs]
                   /\ u = [ueCb[i] EXCEPT !.db = db]
  BY Zenon
<1>4. db \in Db /\ db.act = "SETUP" /\ db.op = "ADD"
  BY <1>3 DEF Db
<1>5. u \in UeCb /\ u.cu = c /\ u.state = "ACTIVE" /\ u.db = db
  BY <1>2, <1>3, <1>4 DEF UeCb, Idle
<1>6. RecfgReq(i, u) \/ RrcMsgFirst(i, u)
  <2>1. RrcMsgFirst(i, u) \/ SetupReq(i, u)
    BY <1>2, <1>3 DEF CtxtSetup
  <2>2. QED
    BY <1>5, <2>1 DEF SetupReq
<1>7. CuMoves(c, i, "asked")
  <2>1. cuUe \in [CuUe -> CuCb] /\ c \in CuUe /\ "asked" \in Phase
    BY CoreParts DEF DuTypes, CuCb, CuUe, Phase
  <2>2. PICK new : new = cuUe[c].rbs \union rbs
    BY Zenon
  <2>3. new \in SUBSET Rb /\ cuUe' = [cuUe EXCEPT ![c].ph = "asked", ![c].rbs = new]
    BY <2>1, <2>2 DEF CtxtSetup, CuCb
  <2>4. HasPhase(c, ph, i)
    BY <1>2
  <2>5. QED
    <3>1. c \in CuUe /\ "asked" \in Phase
      BY <2>1
    <3>2. QED
      BY <2>3, <2>4, <3>1, CuPhRbs
<1>8. ph \notin {"access", "initial"}
  BY <1>2
<1>9. UNCHANGED <<ueCcchCtxt, numUe, ueBitMap>> /\ u.db.act \in {"SETUP", "MOD"} /\ u.db.op # "STOP"
  BY <1>1, <1>4, <1>5
<1>10. QED
  BY <1>1, <1>2, <1>5, <1>6, <1>7, <1>8, <1>9, CuAsksRecfg

LEMMA CtxtModKeeps ==
    ASSUME Core, NEW c \in Access, NEW op \in {"ADD", "MODIFY", "DEL"}, NEW rbs \in SUBSET Rb,
           NEW rrc \in BOOLEAN, CtxtMod(c, op, rbs, rrc)
    PROVE  Keeps
<1>1. cuUe[c].ph = "ready" /\ CuSends /\ UNCHANGED <<ueCcchCtxt, numUe, numActvUes, ueBitMap>>
  BY DEF CtxtMod
<1>2. PICK i \in Id, ph \in Phase :
        /\ i = cuUe[c].id /\ ph \in {"connected", "ready"} /\ HasPhase(c, ph, i)
        /\ ph = cuUe[c].ph
        /\ Est(i) /\ Late(i) /\ InRlc(i) = {} /\ Idle(i, "ACTIVE")
        /\ ueCb[i] \in UeCb /\ ueCb[i].cu = c
  BY <1>1, AtRest
<1>3. PICK db, u : /\ db = [act |-> "MOD", rrc |-> rrc, op |-> op, rbs |-> rbs]
                   /\ u = [ueCb[i] EXCEPT !.db = db]
  BY Zenon
<1>4. db \in Db /\ db.act = "MOD" /\ db.op # "STOP"
  BY <1>3 DEF Db
<1>5. u \in UeCb /\ u.cu = c /\ u.state = "ACTIVE" /\ u.db = db
  BY <1>2, <1>3, <1>4 DEF UeCb, Idle
<1>6. RecfgReq(i, u) \/ RrcMsgFirst(i, u)
  <2>1. ueCb[i].db = NoDb
    BY <1>2 DEF Idle
  <2>2. u = [ueCb[i] EXCEPT !.db = [act |-> IF @.act = "NONE" THEN "MOD" ELSE @.act,
                                    rrc |-> rrc, op |-> op, rbs |-> rbs]]
    BY <1>2, <1>3, <2>1 DEF NoDb, UeCb
  <2>3. QED
    BY <1>2, <2>2 DEF CtxtMod
<1>7. CuMoves(c, i, "asked")
  <2>1. cuUe \in [CuUe -> CuCb] /\ c \in CuUe /\ "asked" \in Phase
    BY CoreParts DEF DuTypes, CuCb, CuUe, Phase
  <2>2. PICK new : new = CASE op = "ADD" -> cuUe[c].rbs \union rbs
                           [] op = "DEL" -> cuUe[c].rbs \ rbs
                           [] OTHER -> cuUe[c].rbs
    BY Zenon
  <2>3. cuUe' = [cuUe EXCEPT ![c].ph = "asked", ![c].rbs = new]
    BY <2>1, <2>2 DEF CtxtMod, CuCb
  <2>4. new \in SUBSET Rb
    BY <2>1, <2>2 DEF CuCb
  <2>5. HasPhase(c, ph, i)
    BY <1>2
  <2>6. QED
    <3>1. c \in CuUe /\ "asked" \in Phase
      BY <2>1
    <3>2. QED
      BY <2>3, <2>4, <2>5, <3>1, CuPhRbs
<1>8. ph \notin {"access", "initial"}
  BY <1>2
<1>9. UNCHANGED <<ueCcchCtxt, numUe, ueBitMap>> /\ u.db.act \in {"SETUP", "MOD"} /\ u.db.op # "STOP"
  BY <1>1, <1>4, <1>5
<1>10. QED
  BY <1>1, <1>2, <1>5, <1>6, <1>7, <1>8, <1>9, CuAsksRecfg

LEMMA CtxtReleaseKeeps ==
    ASSUME Core, NEW c \in Access, NEW rrc \in BOOLEAN, CtxtRelease(c, rrc)
    PROVE  Keeps
<1>1. /\ cuUe[c].ph \in {"connected", "ready"} /\ CuSends
      /\ UNCHANGED <<ueCcchCtxt, numUe, numActvUes, ueBitMap>>
  BY DEF CtxtRelease
<1>2. PICK i \in Id, ph \in Phase :
        /\ i = cuUe[c].id /\ ph \in {"connected", "ready"} /\ HasPhase(c, ph, i)
        /\ ph = cuUe[c].ph
        /\ Est(i) /\ Late(i) /\ InRlc(i) = {} /\ Idle(i, "ACTIVE")
        /\ ueCb[i] \in UeCb /\ ueCb[i].cu = c
  BY <1>1, AtRest
<1>3. PICK db, u, v : /\ db = [NoDb EXCEPT !.act = "RELEASE", !.rrc = TRUE]
                      /\ u = [ueCb[i] EXCEPT !.db = db] /\ v = ueCb[i]
  BY Zenon
<1>4. db \in Db /\ db.act = "RELEASE"
  BY <1>3 DEF Db, NoDb
<1>5. u \in UeCb /\ u.cu = c /\ u.state = "ACTIVE" /\ u.db = db
  BY <1>2, <1>3, <1>4 DEF UeCb, Idle
<1>6. v \in UeCb /\ v.cu = c
  BY <1>2, <1>3
<1>7. RrcMsgFirst(i, u) \/ DeleteReq(i, v)
  BY <1>2, <1>3 DEF CtxtRelease, Idle
<1>8. CuMoves(c, i, "releasing")
  <2>1. cuUe' = [cuUe EXCEPT ![c].ph = "releasing", ![c].rbs = {}] /\ {} \in SUBSET Rb
    BY DEF CtxtRelease
  <2>2. c \in CuUe /\ "releasing" \in Phase
    BY DEF CuUe, Phase
  <2>3. HasPhase(c, ph, i)
    BY <1>2
  <2>4. QED
    BY <2>1, <2>2, <2>3, CuPhRbs
<1>9. /\ UNCHANGED <<rlcOwnVars, macOwnVars>> /\ UNCHANGED rlcToDu /\ UNCHANGED macToDu /\ ~nullDb'
      /\ c \in CuUe
  BY <1>1 DEF CuSends, Core, CuUe
<1>10. SameMacOwn(i)
  BY <1>9, OwnKept
<1>11. ph \notin {"access", "initial"}
  BY <1>2
<1>12. HasPhase(c, ph, i) /\ Est(i) /\ Late(i) /\ InRlc(i) = {}
  BY <1>2
<1>13. CASE RrcMsgFirst(i, u)
  <2>1. /\ Waiting(i)' /\ ueCb'[i] = u
        /\ ueCb' \in [Id -> UeCb] /\ (\A j \in Id \ {i} : ueCb'[j] = ueCb[j])
        /\ MacQ' /\ (\A j : j # i => InMac(j)' = InMac(j))
        /\ RlcQ' /\ (\A j : j # i => InRlc(j)' = InRlc(j))
    BY <1>5, <1>9, <1>12, <1>13, RrcMsgFirstMoves
  <2>2. Est(i)'
    BY <1>10, <1>12 DEF Est, NoRa, NoCfra, SameMacOwn
  <2>3. Releasing(i)'
    BY <1>4, <1>5, <2>1, <2>2 DEF Releasing
  <2>4. InPhase(c, "releasing", i)'
    BY <1>5, <2>1, <2>3 DEF InPhase
  <2>5. QED
    BY <1>1, <1>8, <1>9, <1>11, <1>12, <2>1, <2>4, DuMoves
<1>14. CASE DeleteReq(i, v)
  <2>1. SendToRlc("DELETE", i, NoDb) /\ UNCHANGED duToRlcDl
    BY <1>14 DEF DeleteReq
  <2>2. PICK r : r = ReqTok("duToRlc", "DELETE")
    BY Zenon
  <2>3. "DELETE" \in RlcEvent
    BY DEF RlcEvent
  <2>4. /\ InRlc(i)' = With(InRlc(i), r)
        /\ (\A j : j # i => InRlc(j)' = InRlc(j)) /\ RlcQ'
    BY <1>9, <1>12, <2>1, <2>2, <2>3, NoDbType, DuAsksRlc
  <2>5. InRlc(i)' = {r}
    BY <1>12, <2>4 DEF With
  <2>6. /\ InPhase(c, "releasing", i)'
        /\ ueCb' \in [Id -> UeCb] /\ \A j \in Id \ {i} : ueCb'[j] = ueCb[j]
        /\ MacQ' /\ \A j : j # i => InMac(j)' = InMac(j)
    BY <1>6, <1>9, <1>10, <1>12, <1>14, <2>2, <2>5, DeleteReqMoves
  <2>7. QED
    BY <1>1, <1>8, <1>9, <1>11, <1>12, <2>4, <2>6, DuMoves
<1>15. QED
  BY <1>7, <1>13, <1>14

\* A UE comes, and gets an id that nobody has.
LEMMA UeComes ==
    ASSUME Core, NEW c \in CuUe, NEW i \in Id, cuUe[c].ph = "idle", i \notin ueBitMap,
           NEW x, x # "idle", cuUe'[c].id = i, cuUe'[c].ph = x, InPhase(c, x, i)',
           \A d \in CuUe \ {c} : cuUe'[d] = cuUe[d],
           ueBitMap' = ueBitMap \union {i}, \A j \in Id \ {i} : Same(j)
    PROVE  Owners' /\ Lives'
<1>1. i # 0
  BY MaxNumUeAssumption, SMT DEF Id
<1>2. cuUe[c].id = 0 /\ \A d \in CuUe : cuUe[d].id # i
  BY <1>1 DEF Core, Owners
<1>3. Owners'
  <2>1. \A d, e \in CuUe : cuUe'[d].id = cuUe'[e].id /\ cuUe'[d].id # 0 => d = e
    BY <1>2 DEF Core, Owners
  <2>2. \A j \in ueBitMap' : \E d \in CuUe : cuUe'[d].id = j
    <3>1. ASSUME NEW j \in ueBitMap'
          PROVE  \E d \in CuUe : cuUe'[d].id = j
      <4>1. CASE j = i
        BY <4>1
      <4>2. CASE j # i
        <5>1. ueBitMap \subseteq Id
          BY CoreParts DEF MacData
        <5>2. PICK d \in CuUe : cuUe[d].id = j
          BY <4>2 DEF Core, Owners
        <5>3. j # 0
          BY <4>2, <5>1, MaxNumUeAssumption, SMT DEF Id
        <5>4. d # c
          BY <1>2, <5>2, <5>3
        <5>5. QED
          BY <5>2, <5>4
      <4>3. QED
        BY <4>1, <4>2
    <3>2. QED
      BY <3>1
  <2>3. \A d \in CuUe : cuUe'[d].ph = "idle" <=> cuUe'[d].id = 0
    BY <1>1 DEF Core, Owners
  <2>4. \A d \in CuUe : cuUe'[d].id # 0 => cuUe'[d].id \in ueBitMap'
    BY DEF Core, Owners
  <2>5. QED
    BY <2>1, <2>2, <2>3, <2>4 DEF Owners
<1>4. ASSUME NEW j \in Id \ ueBitMap'
      PROVE  Unused(j)'
  BY UnusedFrame DEF Core, Lives
<1>5. ASSUME NEW d \in CuUe
      PROVE  InPhase(d, cuUe[d].ph, cuUe[d].id)'
  <2>1. CASE d = c
    BY <2>1
  <2>2. CASE d # c /\ cuUe[d].ph = "idle"
    BY <2>2 DEF InPhase
  <2>3. CASE d # c /\ cuUe[d].ph # "idle"
    <3>1. cuUe'[d] = cuUe[d] /\ cuUe[d].id # i
      BY <1>2, <2>3
    <3>2. cuUe[d].id \in Id
      BY <2>3, PhaseIs
    <3>3. Same(cuUe[d].id) /\ InPhase(d, cuUe[d].ph, cuUe[d].id)
      BY <3>1, <3>2 DEF Core, Lives
    <3>4. QED
      BY <3>1, <3>3, Frame
  <2>4. QED
    BY <2>1, <2>2, <2>3
<1>6. QED
  BY <1>3, <1>4, <1>5 DEF Lives

\* What is to be shown of a step with which a UE comes.
LEMMA UeComesKeeps ==
    ASSUME Core, NEW c \in CuUe, NEW i \in Id, cuUe[c].ph = "idle", i \notin ueBitMap,
           NEW x, x # "idle", CuMoves(c, i, x), InPhase(c, x, i)',
           ueBitMap' = ueBitMap \union {i}, \A j \in Id \ {i} : Same(j),
           MacQ', RlcQ', MacData', RlcData', SameUdx, Ccch', ~nullDb',
           ueCb' \in [Id -> UeCb], ueCcchCtxt' \in [0 .. MaxNumUe - 1 -> Id \union {0}]
    PROVE  Keeps
<1>1. Owners' /\ Lives'
  BY UeComes DEF CuMoves
<1>2. DuTypes'
  BY DEF DuTypes, CuMoves, CuCb
<1>3. Types' /\ Queues'
  BY <1>2 DEF Types, Queues, MacQ, RlcQ, MacData, RlcData, RlcTypes, MacTypes
<1>4. Events'
  BY DEF SameUdx, Events, Core
<1>5. QED
  BY <1>1, <1>3, <1>4 DEF Keeps

LEMMA CuComes ==
    ASSUME Core, NEW c \in CuUe, NEW i \in Id, NEW x \in Phase, NEW rbs \in SUBSET Rb,
           cuUe' = [cuUe EXCEPT ![c] = [ph |-> x, id |-> i, rbs |-> rbs]]
    PROVE  CuMoves(c, i, x)
<1>1. cuUe \in [CuUe -> CuCb]
  BY CoreParts DEF DuTypes, CuCb
<1>2. [ph |-> x, id |-> i, rbs |-> rbs] \in CuCb
  BY DEF CuCb
<1>3. QED
  BY <1>1, <1>2 DEF CuMoves, CuCb

LEMMA CtxtSetupHandInKeeps ==
    ASSUME Core, NEW c \in HandIn, NEW i \in Id, NEW rbs \in SUBSET Rb, CtxtSetupHandIn(c, i, rbs)
    PROVE  Keeps
<1>1. /\ cuUe[c].ph = "idle" /\ i \notin ueBitMap /\ ueBitMap' = ueBitMap \union {i}
      /\ CuSends /\ UNCHANGED <<ueCcchCtxt, numUe, numActvUes>> /\ c \in CuUe
  BY DEF CtxtSetupHandIn, FreeBit, CuUe
<1>2. PICK bs, db, u, v, r, n :
        /\ bs = rbs \union {Srb1}
        /\ db = [act |-> "SETUP", rrc |-> FALSE, op |-> "ADD", rbs |-> bs]
        /\ u = [ueCb[i] EXCEPT !.cu = c, !.state = "HANDIN", !.db = db]
        /\ v = [u EXCEPT !.rlc = "INPROGRESS", !.mac = "INPROGRESS"]
        /\ r = ReqTok("duToRlc", "CREATE") /\ n = ReqTok("duToMac", "CREATE")
  BY Zenon
<1>3. bs \in SUBSET Rb
  BY <1>2, DuUeAssumption
<1>4. db \in Db /\ db.act = "SETUP"
  BY <1>2, <1>3 DEF Db
<1>5. Unused(i)
  BY <1>1 DEF Core, Lives
<1>6. u \in UeCb /\ u.cu = c /\ u.state = "HANDIN" /\ u.db = db
  BY <1>1, <1>2, <1>4, <1>5, NoUeCbType DEF Unused, UeCb
<1>7. /\ v \in UeCb /\ v.cu = c /\ v.state = "HANDIN" /\ v.db = db
      /\ v.rlc = "INPROGRESS" /\ v.mac = "INPROGRESS"
  BY <1>2, <1>6 DEF UeCb, CfgState
<1>8. SetupReq(i, u) /\ cuUe' = [cuUe EXCEPT ![c] = [ph |-> "handin", id |-> i, rbs |-> bs]]
  BY <1>2 DEF CtxtSetupHandIn
<1>9. /\ ueCb' = [ueCb EXCEPT ![i] = v]
      /\ SendToRlc("CREATE", i, db) /\ SendToMac("CREATE", i, db) /\ UNCHANGED duToRlcDl
  BY <1>2, <1>6, <1>8 DEF SetupReq
<1>10. ueCb' \in [Id -> UeCb] /\ ueCb'[i] = v /\ \A j \in Id \ {i} : ueCb'[j] = ueCb[j]
  BY <1>7, <1>9, SetUeCb
<1>11. /\ UNCHANGED <<rlcOwnVars, macOwnVars>> /\ UNCHANGED rlcToDu /\ UNCHANGED macToDu /\ ~nullDb'
  BY <1>1 DEF CuSends, Core
<1>12. r.at = "duToRlc" /\ r.ev = "CREATE" /\ n.at = "duToMac" /\ n.ev = "CREATE" /\ "CREATE" \in RlcEvent
  BY <1>2 DEF ReqTok, RlcEvent
<1>13. InRlc(i)' = {r} /\ RlcQ' /\ \A j : j # i => InRlc(j)' = InRlc(j)
  <2>1. InRlc(i) = {}
    BY <1>5 DEF Unused
  <2>2. InRlc(i)' = With(InRlc(i), r) /\ RlcQ' /\ \A j : j # i => InRlc(j)' = InRlc(j)
    BY <1>2, <1>4, <1>9, <1>11, <1>12, <2>1, DuAsksRlc
  <2>3. QED
    BY <2>1, <2>2 DEF With
<1>14. InMac(i)' = {n} /\ MacQ' /\ \A j : j # i => InMac(j)' = InMac(j)
  <2>1. InMac(i) = {}
    BY <1>5 DEF Unused
  <2>2. InMac(i)' = With(InMac(i), n) /\ MacQ' /\ \A j : j # i => InMac(j)' = InMac(j)
    BY <1>2, <1>4, <1>9, <1>11, <2>1, DuAsksMac
  <2>3. QED
    BY <2>1, <2>2 DEF With
<1>15. \A j : SameRlcOwn(j) /\ SameMacOwn(j)
  BY <1>11, OwnKept
<1>16. InPhase(c, "handin", i)'
  <2>1. Creating(i)'
    BY <1>7, <1>10, <1>12, <1>13, <1>14 DEF Creating, One
  <2>2. Hand(i)'
    BY <1>5, <1>15 DEF Unused, Hand, NoRa, NoCfra, MacEmpty, SameMacOwn
  <2>3. HandingIn(i)'
    BY <1>4, <1>7, <1>10, <2>1, <2>2 DEF HandingIn
  <2>4. QED
    BY <1>7, <1>10, <2>3 DEF InPhase
<1>17. \A j \in Id \ {i} : Same(j)
  BY <1>10, <1>13, <1>14, <1>15, SameMacIs DEF Same, SameRlc, SameRlcOwn
<1>18. CuMoves(c, i, "handin")
  <2>1. "handin" \in Phase
    BY DEF Phase
  <2>2. QED
    BY <1>1, <1>3, <1>8, <2>1, CuComes
<1>19. Ccch' /\ ueCcchCtxt' \in [0 .. MaxNumUe - 1 -> Id \union {0}]
  <2>1. CcchKept
    BY <1>1, <1>18 DEF CcchKept, CuMoves
  <2>2. QED
    BY <1>1, <2>1, CcchFrame, CoreParts DEF DuTypes
<1>20. RlcData' /\ SameUdx
  BY <1>11, CoreParts DEF RlcData, SameUdx, rlcOwnVars
<1>21. MacData'
  <2>1. /\ macUe' \in [Id -> {"NONE", "ACTIVE", "HANDIN"}]
        /\ schUe' \in [Id -> {"NONE", "ACTIVE", "HANDIN"}]
        /\ macLc' \in [Id -> SUBSET Rb] /\ schLc' \in [Id -> SUBSET Rb]
    BY <1>11, CoreParts DEF MacData, macOwnVars, macUeVars
  <2>2. UNION {ueBitMap, macRaCb, msg4Pdu, macCfra, schTcrnti, schMsg4Done, schPreamble}' \subseteq Id
    BY <1>1, <1>11, CoreParts DEF MacData, macOwnVars
  <2>3. QED
    BY <2>1, <2>2 DEF MacData
<1>22. QED
  BY <1>1, <1>10, <1>11, <1>13, <1>14, <1>16, <1>17, <1>18, <1>19, <1>20, <1>21, UeComesKeeps

\* A UE accesses the cell.
LEMMA UeAccessKeeps ==
    ASSUME Core, ~Together, NEW c \in Access, NEW i \in Id, UeAccess(c, i)
    PROVE  Keeps
<1>1. /\ cuUe[c].ph = "idle" /\ i \notin ueBitMap /\ ueBitMap' = ueBitMap \union {i} /\ c \in CuUe
      /\ \A d \in CuUe : cuUe[d].ph \notin {"access", "initial"}
      /\ UNCHANGED <<rlcVars, duToRlcDl>> /\ UNCHANGED duVars
  BY DEF UeAccess, Rach, FreeBit, CuUe, UeStep
<1>2. /\ macRaCb' = macRaCb \union {i} /\ msg4Pdu' = msg4Pdu \ {i}
      /\ schTcrnti' = schTcrnti \union {i} /\ schMsg4Done' = schMsg4Done \ {i}
      /\ ToDu("UL_CCCH", i, TRUE)
      /\ UNCHANGED <<duToMac, macCfra, schPreamble>> /\ UNCHANGED macUeVars
      /\ cuUe' = [cuUe EXCEPT ![c].ph = "access", ![c].id = i]
  BY DEF UeAccess, Rach
<1>3. Unused(i)
  BY <1>1 DEF Core, Lives
<1>4. PICK m, n : m = [ev |-> "UL_CCCH", ue |-> i, ok |-> TRUE] /\ n = Tok("macToDu", "UL_CCCH", TRUE)
  BY Zenon
<1>5. m \in MacToDu /\ Ue(m) = i /\ Ev(m) = "UL_CCCH" /\ n = Tok("macToDu", Ev(m), Ok(m))
  BY <1>4 DEF MacToDu, RspMsg, Ue, Ev, Ok
<1>6. n.at = "macToDu" /\ n.ev = "UL_CCCH"
  BY <1>4 DEF Tok
<1>7. /\ MacQ /\ macToDu \in Seq(MacToDu) /\ Distinct(macToDu) /\ CreateFirst(macToDu)
      /\ macToDu' = Put(macToDu, m)
  BY <1>2, <1>4, CoreParts DEF MacQ, ToDu, Put
<1>8. InMac(i) = {}
  BY <1>3 DEF Unused
<1>9. \A j : InMac(j)' = MacToks(duToMac, Put(macToDu, m), j)
  BY <1>2, <1>7 DEF InMac
<1>10. InMac(i)' = {n}
  <2>1. InMac(i)' = With(InMac(i), n)
    BY <1>5, <1>7, <1>9, MacPutRsp, InMacIs
  <2>2. QED
    BY <1>8, <2>1 DEF With
<1>11. \A j : j # i => InMac(j)' = InMac(j)
  BY <1>5, <1>7, <1>9, MacPutRspOthers, InMacIs
<1>12. MacQ'
  <2>1. \A x \in MacToks(duToMac, macToDu, Ue(m)) : FALSE
    BY <1>5, <1>8, InMacIs
  <2>2. macToDu \in Seq(MacToDu) /\ m \in MacToDu /\ Distinct(macToDu) /\ CreateFirst(macToDu)
    BY <1>5, <1>7
  <2>3. Put(macToDu, m) \in Seq(MacToDu) /\ Distinct(Put(macToDu, m)) /\ CreateFirst(Put(macToDu, m))
    BY <2>1, <2>2, MacPutRsp
  <2>4. QED
    BY <1>2, <1>7, <2>3 DEF MacQ
<1>13. RlcQ' /\ RlcData' /\ SameUdx /\ \A j : SameRlc(j)
  BY <1>1, RlcStill
<1>14. ueCb' = ueCb /\ ueCcchCtxt' = ueCcchCtxt /\ numUe' = numUe /\ ~nullDb'
  BY <1>1 DEF duVars, Core
<1>15. InPhase(c, "access", i)'
  <2>1. New(i)'
    BY <1>2, <1>3, <1>13, <1>14 DEF New, Unused, RlcEmpty, MacEmpty, NoCfra, NoRa, SameRlc, macUeVars
  <2>2. Accessing(i)'
    BY <1>6, <1>10, <2>1 DEF Accessing, One
  <2>3. QED
    BY <2>2 DEF InPhase
<1>16. \A j \in Id \ {i} : Same(j)
  BY <1>2, <1>11, <1>13, <1>14 DEF Same, SameMac, macUeVars
<1>17. CuMoves(c, i, "access")
  <2>1. cuUe \in [CuUe -> CuCb]
    BY CoreParts DEF DuTypes, CuCb
  <2>2. "access" \in Phase
    BY DEF Phase
  <2>3. QED
    BY <1>1, <1>2, <2>1, <2>2 DEF CuMoves, CuCb
<1>18. Ccch'
  <2>1. numUe = 0
    BY <1>1 DEF Core, Ccch
  <2>2. QED
    BY <1>1, <1>14, <1>17, <2>1 DEF Ccch, CuMoves
<1>19. MacData'
  <2>1. /\ macUe' \in [Id -> {"NONE", "ACTIVE", "HANDIN"}]
        /\ schUe' \in [Id -> {"NONE", "ACTIVE", "HANDIN"}]
        /\ macLc' \in [Id -> SUBSET Rb] /\ schLc' \in [Id -> SUBSET Rb]
    BY <1>2, CoreParts DEF MacData, macUeVars
  <2>2. UNION {ueBitMap, macRaCb, msg4Pdu, macCfra, schTcrnti, schMsg4Done, schPreamble}' \subseteq Id
    <3>1. UNION {ueBitMap, macRaCb, msg4Pdu, macCfra, schTcrnti, schMsg4Done, schPreamble} \subseteq Id
      BY CoreParts DEF MacData
    <3>2. QED
      BY <1>1, <1>2, <3>1
  <2>3. QED
    BY <2>1, <2>2 DEF MacData
<1>20. ueCb' \in [Id -> UeCb] /\ ueCcchCtxt' \in [0 .. MaxNumUe - 1 -> Id \union {0}]
  BY <1>14, CoreParts DEF DuTypes
<1>21. QED
  BY <1>1, <1>12, <1>13, <1>14, <1>15, <1>16, <1>17, <1>18, <1>19, <1>20, UeComesKeeps

\* The CU sends the RRC Setup; there is room for the UE.
LEMMA RrcSetupKeeps ==
    ASSUME Core, numActvUes < MaxNumUe, NEW c \in CuUe, RrcSetup(c)
    PROVE  Keeps
<1>1. PICK i, ctxt, db, u, m, n :
        /\ i = cuUe[c].id /\ ctxt = {k \in 0 .. numUe - 1 : ueCcchCtxt[k] = i}
        /\ db = [NoDb EXCEPT !.rbs = {Srb1}]
        /\ u = [NoUeCb EXCEPT !.cu = c, !.state = "ACTIVE"]
        /\ m = MacReq("DL_CCCH", i, NoDb) /\ n = MacReq("CREATE", i, db)
  BY Zenon
<1>2. cuUe[c].ph = "initial" /\ CuSends /\ UNCHANGED <<duToRlcDl, ueBitMap>>
  BY DEF RrcSetup
<1>3. /\ i \in Id /\ HasPhase(c, "initial", i) /\ InPhase(c, "initial", i)
      /\ \A d \in CuUe : cuUe[d].id = i => d = c
  BY <1>1, <1>2, PhaseIs
<1>4. Initial(i) /\ New(i) /\ c \in Access
  BY <1>3 DEF InPhase, Initial
<1>5. numUe = 1 /\ ueCcchCtxt[0] = i
  BY <1>1, <1>2 DEF Core, Ccch
<1>6. ctxt = {0}
  <2>1. 0 .. numUe - 1 = {0}
    BY <1>5, SMT
  <2>2. QED
    BY <1>1, <1>5, <2>1
<1>7. /\ ueCb' = [ueCb EXCEPT ![i] = u]
      /\ duToMac' = Append(Append(duToMac, m), n)
      /\ SendToRlc("CREATE", i, db)
      /\ cuUe' = [cuUe EXCEPT ![c].ph = "connecting", ![c].rbs = {Srb1}]
  BY <1>1, <1>6 DEF RrcSetup
<1>8. ueCcchCtxt' = [ueCcchCtxt EXCEPT ![0] = 0] /\ numUe' = 0
  <2>1. \E k \in ctxt : (\A j \in ctxt : k <= j) /\ ClearCcchCtxt(k)
    BY <1>1, <1>6 DEF RrcSetup
  <2>2. QED
    BY <1>5, <1>6, <2>1 DEF ClearCcchCtxt
<1>9. /\ UNCHANGED <<rlcOwnVars, macOwnVars>> /\ UNCHANGED rlcToDu /\ UNCHANGED macToDu /\ ~nullDb'
      /\ UNCHANGED duToRlcDl /\ UNCHANGED ueBitMap
  BY <1>2 DEF CuSends, Core
<1>10. \A j : SameRlcOwn(j) /\ SameMacOwn(j)
  BY <1>9, OwnKept
<1>11. db \in Db /\ {Srb1} \in SUBSET Rb
  BY <1>1, NoDbType, DuUeAssumption DEF Db
<1>12. u \in UeCb /\ u.cu = c /\ u.state = "ACTIVE" /\ u.db = NoDb
  BY <1>1, NoUeCbType DEF UeCb, NoUeCb
<1>13. ueCb' \in [Id -> UeCb] /\ ueCb'[i] = u /\ \A j \in Id \ {i} : ueCb'[j] = ueCb[j]
  BY <1>3, <1>7, <1>12, SetUeCb
<1>14. PICK r, x, y : /\ r = ReqTok("duToRlc", "CREATE")
                      /\ x = ReqTok("duToMac", "DL_CCCH") /\ y = ReqTok("duToMac", "CREATE")
  BY Zenon
<1>15. /\ r.at = "duToRlc" /\ r.ev = "CREATE" /\ x.at = "duToMac" /\ x.ev = "DL_CCCH"
       /\ y.at = "duToMac" /\ y.ev = "CREATE" /\ "CREATE" \in RlcEvent
  BY <1>14 DEF ReqTok, RlcEvent
<1>16. InRlc(i)' = {r} /\ RlcQ' /\ \A j : j # i => InRlc(j)' = InRlc(j)
  <2>1. InRlc(i) = {}
    BY <1>4 DEF New
  <2>2. InRlc(i)' = With(InRlc(i), r) /\ RlcQ' /\ \A j : j # i => InRlc(j)' = InRlc(j)
    BY <1>3, <1>7, <1>9, <1>11, <1>14, <1>15, <2>1, DuAsksRlc
  <2>3. QED
    BY <2>1, <2>2 DEF With
<1>17. InMac(i)' = {x, y} /\ MacQ' /\ \A j : j # i => InMac(j)' = InMac(j)
  <2>1. /\ MacQ /\ duToMac \in Seq(DuToMac) /\ Distinct(duToMac)
        /\ duToMac' = Put(Put(duToMac, m), n)
    BY <1>7, CoreParts DEF MacQ, Put
  <2>2. m \in DuToMac /\ Ue(m) = i /\ Ev(m) = "DL_CCCH"
    BY <1>1, <1>3, NoDbType, CfgOpType, ConveyedType DEF MacReq, DuToMac, Db, Ue, Ev
  <2>3. n \in DuToMac /\ Ue(n) = i /\ Ev(n) = "CREATE"
    BY <1>1, <1>3, <1>11, CfgOpType, ConveyedType DEF MacReq, DuToMac, Db, Ue, Ev
  <2>4. InMac(i) = {}
    BY <1>4 DEF Initial
  <2>5. PICK q : q = Put(duToMac, m)
    BY Zenon
  <2>6. MacToks(q, macToDu, i) = {x}
    <3>1. MacToks(q, macToDu, i) = With(InMac(i), x)
      BY <1>14, <2>1, <2>2, <2>5, MacPutReq, InMacIs
    <3>2. QED
      BY <2>4, <3>1 DEF With
  <2>7. q \in Seq(DuToMac) /\ Distinct(q)
    <3>1. \A z \in MacToks(duToMac, macToDu, Ue(m)) : FALSE
      BY <2>2, <2>4, InMacIs
    <3>2. duToMac \in Seq(DuToMac) /\ m \in DuToMac /\ Distinct(duToMac)
      BY <2>1, <2>2
    <3>3. QED
      BY <2>5, <3>1, <3>2, MacPutReq
  <2>8. \A j : j # i => MacToks(q, macToDu, j) = InMac(j)
    BY <2>1, <2>2, <2>5, MacPutReqOthers, InMacIs
  <2>9. \A j : InMac(j)' = MacToks(Put(q, n), macToDu, j)
    BY <1>9, <2>1, <2>5 DEF InMac
  <2>10. InMac(i)' = {x, y}
    <3>1. InMac(i)' = With(MacToks(q, macToDu, i), y)
      BY <1>14, <2>3, <2>7, <2>9, MacPutReq
    <3>2. QED
      BY <2>6, <3>1 DEF With
  <2>11. \A j : j # i => InMac(j)' = InMac(j)
    BY <2>3, <2>7, <2>8, <2>9, MacPutReqOthers
  <2>12. Put(q, n) \in Seq(DuToMac) /\ Distinct(Put(q, n))
    <3>1. \A z \in MacToks(q, macToDu, Ue(n)) : z.ev # Ev(n)
      BY <1>15, <2>3, <2>6
    <3>2. QED
      BY <2>3, <2>7, <3>1, MacPutReq
  <2>13. MacQ'
    BY <1>9, <2>1, <2>5, <2>12 DEF MacQ
  <2>14. QED
    BY <2>10, <2>11, <2>13
<1>18. InPhase(c, "connecting", i)'
  <2>1. Connecting(i)'
    <3>1. Idle(i, "ACTIVE")' /\ NoCfra(i)' /\ macUe'[i] # "HANDIN"
      BY <1>4, <1>10, <1>12, <1>13 DEF Idle, New, NoCfra, MacEmpty, SameMacOwn
    <3>2. One(InRlc(i))' /\ \A t \in InRlc(i)' : t.ev = "CREATE" /\ (rlcUlRb'[i] # {} => t.at = "rlcToDu")
      BY <1>4, <1>10, <1>15, <1>16 DEF One, New, RlcEmpty, SameRlcOwn
    <3>3. OnePerEv(InMac(i))'
      BY <1>15, <1>17 DEF OnePerEv
    <3>4. \A t \in InMac(i)' :
            /\ t.ev \in {"DL_CCCH", "CREATE"}
            /\ t.ev = "DL_CCCH" => t.at = "duToMac" /\ (i \in macRaCb)' /\ (i \notin msg4Pdu)'
            /\ t.ev = "CREATE" /\ t.at = "duToMac" => macUe'[i] = "NONE"
      BY <1>4, <1>10, <1>15, <1>17 DEF New, MacEmpty, SameMacOwn
    <3>5. (i \in macRaCb)' /\ (i \notin schMsg4Done)'
      BY <1>4, <1>10 DEF New, SameMacOwn
    <3>6. QED
      BY <3>1, <3>2, <3>3, <3>4, <3>5 DEF Connecting
  <2>2. QED
    BY <1>4, <1>12, <1>13, <2>1 DEF InPhase
<1>19. \A j \in Id \ {i} : Same(j)
  BY <1>10, <1>13, <1>16, <1>17, SameMacIs DEF Same, SameRlc, SameRlcOwn
<1>20. CuMoves(c, i, "connecting")
  <2>1. "connecting" \in Phase
    BY DEF Phase
  <2>2. QED
    BY <1>3, <1>7, <1>11, <2>1, CuPhRbs
<1>21. Ccch'
  <2>1. \A d \in CuUe : cuUe'[d].ph \notin {"access", "initial"}
    BY <1>2, <1>20 DEF CuMoves, Core, Ccch
  <2>2. QED
    BY <1>8, <2>1 DEF Ccch
<1>22. ueCcchCtxt' \in [0 .. MaxNumUe - 1 -> Id \union {0}]
  BY <1>8, CoreParts DEF DuTypes
<1>23. RlcData' /\ SameUdx /\ MacData'
  BY <1>9, CoreParts DEF RlcData, MacData, SameUdx, rlcOwnVars, macOwnVars, macUeVars
<1>24. QED
  BY <1>3, <1>9, <1>13, <1>16, <1>17, <1>18, <1>19, <1>20, <1>21, <1>22, <1>23, MovesAt

-----------------------------------------------------------------------------
(* How many UEs there are.                                                   *)

Counted == {"ACTIVE", "DELETION"}

LEMMA IdIsFinite == IsFiniteSet(Id) /\ Cardinality(Id) = MaxNumUe
BY MaxNumUeAssumption, FS_Interval, SMT DEF Id

\* A set of ids with one more, and with one less.
LEMMA OneMore ==
    ASSUME NEW A \in SUBSET Id, NEW i \in Id \ A
    PROVE  Cardinality(A \union {i}) = Cardinality(A) + 1
<1>1. IsFiniteSet(A)
  BY IdIsFinite, FS_Subset
<1>2. QED
  BY <1>1, FS_AddElement

LEMMA OneLess ==
    ASSUME NEW A \in SUBSET Id, NEW i \in A
    PROVE  /\ Cardinality(A \ {i}) = Cardinality(A) - 1
           /\ Cardinality(A) \in 1 .. MaxNumUe
<1>1. IsFiniteSet(A) /\ Cardinality(A) <= MaxNumUe
  BY IdIsFinite, FS_Subset
<1>2. Cardinality(A \ {i}) = Cardinality(A) - 1
  BY <1>1, FS_RemoveElement
<1>3. Cardinality(A) \in Nat /\ Cardinality(A \ {i}) \in Nat
  BY <1>1, FS_CardinalityType, FS_RemoveElement
<1>4. QED
  BY <1>1, <1>2, <1>3, MaxNumUeAssumption, SMT

LEMMA CountStays ==
    ASSUME ActvUesAreCounted, UNCHANGED numActvUes,
           \A i \in Id : ueCb'[i].state \in Counted <=> ueCb[i].state \in Counted
    PROVE  ActvUesAreCounted'
BY DEF ActvUesAreCounted, Counted

\* A step that sets the entry of one UE.
LEMMA SetEntry ==
    ASSUME Core, NEW i \in Id, NEW u, ueCb' = [ueCb EXCEPT ![i] = u]
    PROVE  ueCb'[i] = u /\ \A j \in Id \ {i} : ueCb'[j] = ueCb[j]
BY CoreParts DEF DuTypes

LEMMA CountAt ==
    ASSUME Core, ActvUesAreCounted, UNCHANGED numActvUes, NEW i \in Id, NEW u,
           ueCb' = [ueCb EXCEPT ![i] = u], u.state \in Counted <=> ueCb[i].state \in Counted
    PROVE  ActvUesAreCounted'
BY SetEntry, CountStays

LEMMA CountUp ==
    ASSUME Core, ActvUesAreCounted, numActvUes' = numActvUes + 1, NEW i \in Id, NEW u,
           ueCb' = [ueCb EXCEPT ![i] = u], u.state \in Counted, ueCb[i].state \notin Counted
    PROVE  ActvUesAreCounted'
<1> DEFINE A == {j \in Id : ueCb[j].state \in Counted}
<1>1. A' = A \union {i}
  <2>1. ueCb'[i] = u /\ \A j \in Id \ {i} : ueCb'[j] = ueCb[j]
    BY SetEntry
  <2>2. QED
    BY <2>1
<1>2. Cardinality(A \union {i}) = Cardinality(A) + 1
  BY OneMore
<1>3. QED
  BY <1>1, <1>2 DEF ActvUesAreCounted, Counted

LEMMA CountDown ==
    ASSUME Core, ActvUesAreCounted, numActvUes' = numActvUes - 1, NEW i \in Id, NEW u,
           ueCb' = [ueCb EXCEPT ![i] = u], u.state \notin Counted, ueCb[i].state \in Counted
    PROVE  ActvUesAreCounted'
<1> DEFINE A == {j \in Id : ueCb[j].state \in Counted}
<1>1. A' = A \ {i}
  <2>1. ueCb'[i] = u /\ \A j \in Id \ {i} : ueCb'[j] = ueCb[j]
    BY SetEntry
  <2>2. QED
    BY <2>1
<1>2. Cardinality(A \ {i}) = Cardinality(A) - 1
  BY OneLess
<1>3. QED
  BY <1>1, <1>2 DEF ActvUesAreCounted, Counted

\* There is room for a UE that has no context yet.
LEMMA RoomForOne ==
    ASSUME Core, ActvUesAreCounted, NEW i \in Id, ueCb[i].state \notin Counted
    PROVE  numActvUes < MaxNumUe
<1> DEFINE A == {j \in Id : ueCb[j].state \in Counted}
<1>1. A \in SUBSET Id /\ i \in Id \ A
  OBVIOUS
<1> HIDE DEF A
<1>2. Cardinality(A \union {i}) = Cardinality(A) + 1
  BY <1>1, OneMore
<1>3. Cardinality(A \union {i}) <= MaxNumUe
  BY <1>1, IdIsFinite, FS_Subset
<1>4. Cardinality(A) \in Nat
  BY <1>1, IdIsFinite, FS_Subset, FS_CardinalityType
<1>5. numActvUes = Cardinality(A)
  BY DEF ActvUesAreCounted, Counted, A
<1>6. QED
  BY <1>2, <1>3, <1>4, <1>5, MaxNumUeAssumption, SMT

LEMMA EntryType ==
    ASSUME Core, NEW i \in Id
    PROVE  ueCb[i] \in UeCb
BY CoreParts DEF DuTypes

LEMMA CtxtRspCount ==
    ASSUME Core, ActvUesAreCounted, UNCHANGED numActvUes, NEW i \in Id, NEW u \in UeCb,
           u.state = ueCb[i].state, CtxtRsp(i, u)
    PROVE  ActvUesAreCounted'
<1>1. PICK v : v = [u EXCEPT !.db = NoDb]
  BY Zenon
<1>2. v.state = u.state
  BY <1>1 DEF UeCb
<1>3. ueCb' = [ueCb EXCEPT ![i] = v] \/ ueCb' = [ueCb EXCEPT ![i] = u]
  BY <1>1 DEF CtxtRsp
<1>4. QED
  BY <1>2, <1>3, CountAt

LEMMA RecfgDoneCount ==
    ASSUME Core, ActvUesAreCounted, UNCHANGED numActvUes, NEW i \in Id, NEW u \in UeCb,
           u.state = ueCb[i].state, RecfgDone(i, u)
    PROVE  ActvUesAreCounted'
<1>1. CtxtRsp(i, u) \/ ueCb' = [ueCb EXCEPT ![i] = u]
  BY DEF RecfgDone
<1>2. QED
  BY <1>1, CtxtRspCount, CountAt

LEMMA CreateDoneCount ==
    ASSUME Core, ActvUesAreCounted, UNCHANGED numActvUes, NEW i \in Id, NEW u \in UeCb,
           u.state = ueCb[i].state, CreateDone(i, u)
    PROVE  ActvUesAreCounted'
<1>1. ueCb' = [ueCb EXCEPT ![i] = u]
  BY DEF CreateDone
<1>2. QED
  BY <1>1, CountAt

\* A request to RLC and MAC, or to have an RRC message sent first.
LEMMA ReqCount ==
    ASSUME Core, ActvUesAreCounted, UNCHANGED numActvUes, NEW i \in Id, NEW u \in UeCb,
           u.state \in Counted <=> ueCb[i].state \in Counted,
           SetupReq(i, u) \/ RecfgReq(i, u) \/ RrcMsgFirst(i, u)
    PROVE  ActvUesAreCounted'
<1>1. PICK v, w : /\ v = [u EXCEPT !.rlc = "INPROGRESS", !.mac = "INPROGRESS"]
                  /\ w = [u EXCEPT !.rlc = "INPROGRESS",
                                   !.mac = IF u.db.op = "STOP" THEN @ ELSE "INPROGRESS"]
  BY Zenon
<1>2. v.state = u.state /\ w.state = u.state
  BY <1>1 DEF UeCb
<1>3. \/ ueCb' = [ueCb EXCEPT ![i] = v] \/ ueCb' = [ueCb EXCEPT ![i] = w]
      \/ ueCb' = [ueCb EXCEPT ![i] = u]
  BY <1>1 DEF SetupReq, RecfgReq, RrcMsgFirst
<1>4. QED
  BY <1>2, <1>3, CountAt

LEMMA DeleteReqCount ==
    ASSUME Core, ActvUesAreCounted, UNCHANGED numActvUes, NEW i \in Id, NEW u \in UeCb,
           ueCb[i].state \in Counted, DeleteReq(i, u)
    PROVE  ActvUesAreCounted'
<1>1. PICK v : v = [u EXCEPT !.state = "DELETION"]
  BY Zenon
<1>2. v.state \in Counted
  BY <1>1 DEF UeCb, Counted
<1>3. ueCb' = [ueCb EXCEPT ![i] = v]
  BY <1>1 DEF DeleteReq
<1>4. QED
  BY <1>2, <1>3, CountAt

LEMMA FromMacCount ==
    ASSUME Core, ActvUesAreCounted, FromMacStep
    PROVE  ActvUesAreCounted'
<1>1. CASE DuProcUlCcchInd
  BY <1>1, CountStays DEF DuProcUlCcchInd
<1>2. CASE DuProcMacUeCreateRsp
  <2>1. PICK i, t, u : /\ i = Head(macToDu).ue /\ t = Tok("macToDu", "CREATE", Ok(First(macToDu)))
                       /\ u = [ueCb[i] EXCEPT !.mac = "CREATE_COMPLETE"]
    BY Zenon
  <2>2. FromMac("CREATE") /\ (CreateDone(i, u) \/ UNCHANGED ueCb) /\ UNCHANGED numActvUes
    BY <1>2, <2>1 DEF DuProcMacUeCreateRsp, NoChange
  <2>3. i \in Id
    BY <2>1, <2>2, DuHasMac
  <2>4. u \in UeCb /\ u.state = ueCb[i].state
    BY <2>1, <2>3, EntryType DEF UeCb, CfgState
  <2>5. QED
    BY <2>2, <2>3, <2>4, CreateDoneCount, CountStays
<1>3. CASE DuProcMacUeRecfgRsp
  <2>1. PICK i, t, u : /\ i = Head(macToDu).ue /\ t = Tok("macToDu", "RECONFIG", Ok(First(macToDu)))
                       /\ u = [ueCb[i] EXCEPT !.mac = "RECFG_COMPLETE"]
    BY Zenon
  <2>2. FromMac("RECONFIG") /\ (RecfgDone(i, u) \/ UNCHANGED ueCb) /\ UNCHANGED numActvUes
    BY <1>3, <2>1 DEF DuProcMacUeRecfgRsp, NoChange
  <2>3. i \in Id
    BY <2>1, <2>2, DuHasMac
  <2>4. u \in UeCb /\ u.state = ueCb[i].state
    BY <2>1, <2>3, EntryType DEF UeCb, CfgState
  <2>5. QED
    BY <2>2, <2>3, <2>4, RecfgDoneCount, CountStays
<1>4. CASE DuProcMacRachRsrcRsp
  <2>1. PICK i, t, u : /\ i = Head(macToDu).ue /\ t = Tok("macToDu", "RACH", Ok(First(macToDu)))
                       /\ u = ueCb[i]
    BY Zenon
  <2>2. FromMac("RACH") /\ (CtxtRsp(i, u) \/ UNCHANGED ueCb) /\ UNCHANGED numActvUes
    BY <1>4, <2>1 DEF DuProcMacRachRsrcRsp, NoChange
  <2>3. i \in Id
    BY <2>1, <2>2, DuHasMac
  <2>4. u \in UeCb /\ u.state = ueCb[i].state
    BY <2>1, <2>3, EntryType
  <2>5. QED
    BY <2>2, <2>3, <2>4, CtxtRspCount, CountStays
<1>5. CASE DuProcMacUeDeleteRsp
  <2>1. PICK i, t, u : /\ i = Head(macToDu).ue /\ t = Tok("macToDu", "DELETE", Ok(First(macToDu)))
                       /\ u = [ueCb[i] EXCEPT !.mac = "DELETE_COMPLETE"]
    BY Zenon
  <2>2. FromMac("DELETE")
    BY <1>5 DEF DuProcMacUeDeleteRsp
  <2>3. i \in Id /\ t \in InMac(i) /\ t.ev = "DELETE"
    BY <2>1, <2>2, DuHasMac
  <2>4. PICK c \in CuUe, ph \in Phase : HasPhase(c, ph, i) /\ ph # "idle" /\ InPhase(c, ph, i)
    BY <2>1, <2>2, DuHasMac
  <2>5. ueCb[i].state = "DELETION"
    BY <2>3, <2>4, MacWho DEF DeletingInMac
  <2>6. u.state = ueCb[i].state
    BY <2>1, <2>3, EntryType DEF UeCb
  <2>7. \/ ueCb' = [ueCb EXCEPT ![i] = NoUeCb] /\ numActvUes' = numActvUes - 1
        \/ ueCb' = [ueCb EXCEPT ![i] = u] /\ UNCHANGED numActvUes
        \/ UNCHANGED ueCb /\ UNCHANGED numActvUes
    BY <1>5, <2>1 DEF DuProcMacUeDeleteRsp
  <2>8. NoUeCb.state \notin Counted
    BY DEF NoUeCb, Counted
  <2>9. "DELETION" \in Counted
    BY DEF Counted
  <2>10. QED
    BY <2>3, <2>5, <2>6, <2>7, <2>8, <2>9, CountStays, CountAt, CountDown
<1>6. QED
  BY <1>1, <1>2, <1>3, <1>4, <1>5 DEF FromMacStep

LEMMA FromRlcCount ==
    ASSUME Core, ActvUesAreCounted, FromRlcStep
    PROVE  ActvUesAreCounted'
<1>1. CASE DuProcRlcUeCreateRsp
  <2>1. PICK i, t, u : /\ i = Head(rlcToDu).ue /\ t = Tok("rlcToDu", "CREATE", Ok(First(rlcToDu)))
                       /\ u = [ueCb[i] EXCEPT !.rlc = "CREATE_COMPLETE"]
    BY Zenon
  <2>2. FromRlc("CREATE") /\ CreateDone(i, u) /\ UNCHANGED numActvUes
    BY <1>1, <2>1 DEF DuProcRlcUeCreateRsp
  <2>3. i \in Id
    BY <2>1, <2>2, DuHasRlc
  <2>4. u \in UeCb /\ u.state = ueCb[i].state
    BY <2>1, <2>3, EntryType DEF UeCb, CfgState
  <2>5. QED
    BY <2>2, <2>3, <2>4, CreateDoneCount
<1>2. CASE DuProcRlcUeReconfigRsp
  <2>1. PICK i, t, u : /\ i = Head(rlcToDu).ue /\ t = Tok("rlcToDu", "RECONFIG", Ok(First(rlcToDu)))
                       /\ u = [ueCb[i] EXCEPT !.rlc = "RECFG_COMPLETE"]
    BY Zenon
  <2>2. FromRlc("RECONFIG") /\ RecfgDone(i, u) /\ UNCHANGED numActvUes
    BY <1>2, <2>1 DEF DuProcRlcUeReconfigRsp
  <2>3. i \in Id
    BY <2>1, <2>2, DuHasRlc
  <2>4. u \in UeCb /\ u.state = ueCb[i].state
    BY <2>1, <2>3, EntryType DEF UeCb, CfgState
  <2>5. QED
    BY <2>2, <2>3, <2>4, RecfgDoneCount
<1>3. CASE DuProcRlcUeDeleteRsp
  <2>1. PICK i, t, u : /\ i = Head(rlcToDu).ue /\ t = Tok("rlcToDu", "DELETE", Ok(First(rlcToDu)))
                       /\ u = [ueCb[i] EXCEPT !.rlc = "DELETE_COMPLETE"]
    BY Zenon
  <2>2. /\ FromRlc("DELETE") /\ UNCHANGED numActvUes
        /\ UNCHANGED ueCb \/ ueCb' = [ueCb EXCEPT ![i].rlc = "DELETE_COMPLETE"]
    BY <1>3, <2>1 DEF DuProcRlcUeDeleteRsp
  <2>3. i \in Id
    BY <2>1, <2>2, DuHasRlc
  <2>4. u.state = ueCb[i].state
    BY <2>1, <2>3, EntryType DEF UeCb
  <2>5. [ueCb EXCEPT ![i].rlc = "DELETE_COMPLETE"] = [ueCb EXCEPT ![i] = u]
    BY <2>1, <2>3, CoreParts DEF DuTypes
  <2>6. QED
    BY <2>2, <2>3, <2>4, <2>5, CountStays, CountAt
<1>4. CASE DuProcRlcDlRrcMsgRsp
  <2>1. PICK i, t, u : /\ i = Head(rlcToDu).ue /\ t = Tok("rlcToDu", "DL_RRC", Ok(First(rlcToDu)))
                       /\ u = ueCb[i]
    BY Zenon
  <2>2. FromRlc("DL_RRC") /\ UNCHANGED numActvUes
    BY <1>4 DEF DuProcRlcDlRrcMsgRsp
  <2>3. i \in Id
    BY <2>1, <2>2, DuHasRlc
  <2>4. u \in UeCb
    BY <2>1, <2>3, EntryType
  <2>5. \/ SetupReq(i, u) \/ RecfgReq(i, u)
        \/ u.state = "ACTIVE" /\ DeleteReq(i, u)
        \/ UNCHANGED ueCb
    <3>1. CASE u.db.rrc /\ u.db.act = "SETUP"
      BY <1>4, <2>1, <3>1 DEF DuProcRlcDlRrcMsgRsp
    <3>2. CASE u.db.rrc /\ u.db.act = "MOD"
      BY <1>4, <2>1, <3>2 DEF DuProcRlcDlRrcMsgRsp
    <3>3. CASE u.db.rrc /\ u.db.act = "RELEASE" /\ u.state = "ACTIVE"
      BY <1>4, <2>1, <3>3 DEF DuProcRlcDlRrcMsgRsp
    <3>4. CASE ~(u.db.rrc /\ u.db.act \in {"SETUP", "MOD"}) /\ ~(u.db.rrc /\ u.db.act = "RELEASE" /\ u.state = "ACTIVE")
      BY <1>4, <2>1, <3>4 DEF DuProcRlcDlRrcMsgRsp
    <3>5. QED
      BY <3>1, <3>2, <3>3, <3>4
  <2>6. "ACTIVE" \in Counted
    BY DEF Counted
  <2>7. QED
    BY <2>1, <2>2, <2>3, <2>4, <2>5, <2>6, ReqCount, DeleteReqCount, CountStays
<1>5. CASE DuProcRlcUlRrcMsgTrans
  <2>1. PICK i, t, u : /\ i = Head(rlcToDu).ue /\ t = Tok("rlcToDu", "UL_RRC", Ok(First(rlcToDu)))
                       /\ u = [ueCb[i] EXCEPT !.state = "ACTIVE"]
    BY Zenon
  <2>2. FromRlc("UL_RRC")
    BY <1>5 DEF DuProcRlcUlRrcMsgTrans
  <2>3. i \in Id
    BY <2>1, <2>2, DuHasRlc
  <2>4. \/ /\ ueCb[i].state = "HANDIN" /\ ueCb' = [ueCb EXCEPT ![i].state = "ACTIVE"]
           /\ numActvUes' = numActvUes + 1
        \/ UNCHANGED ueCb /\ UNCHANGED numActvUes
    BY <1>5, <2>1 DEF DuProcRlcUlRrcMsgTrans, HandInDone
  <2>5. u.state = "ACTIVE"
    BY <2>1, <2>3, EntryType DEF UeCb
  <2>6. [ueCb EXCEPT ![i].state = "ACTIVE"] = [ueCb EXCEPT ![i] = u]
    BY <2>1, <2>3, CoreParts DEF DuTypes
  <2>7. "ACTIVE" \in Counted /\ "HANDIN" \notin Counted
    BY DEF Counted
  <2>8. QED
    BY <2>3, <2>4, <2>5, <2>6, <2>7, CountStays, CountUp
<1>6. QED
  BY <1>1, <1>2, <1>3, <1>4, <1>5 DEF FromRlcStep

LEMMA RrcSetupCount ==
    ASSUME Core, ActvUesAreCounted, NEW c \in CuUe, RrcSetup(c)
    PROVE  ActvUesAreCounted' /\ numActvUes < MaxNumUe
<1>1. PICK i, ctxt, u :
        /\ i = cuUe[c].id /\ ctxt = {k \in 0 .. numUe - 1 : ueCcchCtxt[k] = i}
        /\ u = [NoUeCb EXCEPT !.cu = c, !.state = "ACTIVE"]
  BY Zenon
<1>2. cuUe[c].ph = "initial"
  BY DEF RrcSetup
<1>3. i \in Id /\ InPhase(c, "initial", i)
  BY <1>1, <1>2, PhaseIs
<1>4. ueCb[i] = NoUeCb
  BY <1>3 DEF InPhase, Initial, New
<1>5. ueCb[i].state \notin Counted /\ u.state \in Counted
  BY <1>1, <1>4 DEF NoUeCb, Counted
<1>6. \/ ueCb' = [ueCb EXCEPT ![i] = u] /\ numActvUes' = numActvUes + 1
      \/ UNCHANGED ueCb /\ UNCHANGED numActvUes
  BY <1>1 DEF RrcSetup
<1>7. QED
  BY <1>3, <1>5, <1>6, CountStays, CountUp, RoomForOne

\* The procedures that the CU starts.  The bearers of a UE are data radio bearers.
LEMMA CuSteps ==
    ASSUME NEW c \in CuUe, CuStep(c)
    PROVE  \/ RrcSetup(c)
           \/ \E rrc \in BOOLEAN, rbs \in SUBSET Drb : c \in Access /\ CtxtSetup(c, rbs, rrc)
           \/ \E i \in Id, rbs \in SUBSET Drb : c \in HandIn /\ CtxtSetupHandIn(c, i, rbs)
           \/ \E op \in ModOps, rrc \in BOOLEAN, rbs \in SUBSET Drb :
                /\ c \in Access
                /\ IF op = "STOP" THEN rbs = {}
                   ELSE rbs # {} /\ IF op = "ADD" THEN rbs \intersect cuUe[c].rbs = {}
                                    ELSE rbs \subseteq cuUe[c].rbs
                /\ CtxtMod(c, op, rbs, rrc)
           \/ \E rrc \in BOOLEAN : c \in Released /\ CtxtRelease(c, rrc)
<1>1. \A rbs \in SUBSET DrbsOf[c] : rbs \in SUBSET Drb
  BY DuUeAssumption
<1>2. QED
  BY <1>1 DEF CuStep

LEMMA CuCount ==
    ASSUME Core, ActvUesAreCounted, NEW c \in CuUe, CuStep(c), Released \subseteq Access
    PROVE  ActvUesAreCounted'
<1>1. CASE RrcSetup(c)
  BY <1>1, RrcSetupCount
<1>2. ASSUME NEW rbs \in SUBSET Drb, NEW rrc \in BOOLEAN, c \in Access, CtxtSetup(c, rbs, rrc)
      PROVE  ActvUesAreCounted'
  <2>1. PICK i, db, u : /\ i = cuUe[c].id
                        /\ db = [act |-> "SETUP", rrc |-> rrc, op |-> "ADD", rbs |-> rbs]
                        /\ u = [ueCb[i] EXCEPT !.db = db]
    BY Zenon
  <2>2. cuUe[c].ph = "connected" /\ UNCHANGED numActvUes
    BY <1>2 DEF CtxtSetup
  <2>3. i \in Id
    BY <2>1, <2>2, PhaseIs
  <2>4. u \in UeCb /\ u.state = ueCb[i].state
    <3>1. db \in Db
      BY <2>1 DEF Db, Drb
    <3>2. QED
      BY <2>1, <2>3, <3>1, EntryType DEF UeCb
  <2>5. SetupReq(i, u) \/ RrcMsgFirst(i, u)
    BY <1>2, <2>1 DEF CtxtSetup
  <2>6. QED
    BY <2>2, <2>3, <2>4, <2>5, ReqCount
<1>3. ASSUME NEW i \in Id, NEW rbs \in SUBSET Drb, CtxtSetupHandIn(c, i, rbs)
      PROVE  ActvUesAreCounted'
  <2>1. PICK db, u : /\ db = [act |-> "SETUP", rrc |-> FALSE, op |-> "ADD", rbs |-> rbs \union {Srb1}]
                     /\ u = [ueCb[i] EXCEPT !.cu = c, !.state = "HANDIN", !.db = db]
    BY Zenon
  <2>2. i \notin ueBitMap /\ UNCHANGED numActvUes
    BY <1>3 DEF CtxtSetupHandIn, FreeBit
  <2>3. ueCb[i] = NoUeCb
    BY <2>2 DEF Core, Lives, Unused
  <2>4. db \in Db
    BY <2>1, DuUeAssumption DEF Db, Drb
  <2>5. u \in UeCb /\ u.state = "HANDIN"
    BY <2>1, <2>3, <2>4, NoUeCbType DEF UeCb
  <2>6. u.state \notin Counted /\ ueCb[i].state \notin Counted
    BY <2>3, <2>5 DEF Counted, NoUeCb
  <2>7. SetupReq(i, u)
    BY <1>3, <2>1 DEF CtxtSetupHandIn
  <2>8. QED
    BY <2>2, <2>5, <2>6, <2>7, ReqCount
<1>4. ASSUME NEW op \in ModOps, NEW rrc \in BOOLEAN, NEW rbs \in SUBSET Rb, CtxtMod(c, op, rbs, rrc)
      PROVE  ActvUesAreCounted'
  <2>1. PICK i, db, u : /\ i = cuUe[c].id
                        /\ db = [act |-> IF ueCb[i].db.act = "NONE" THEN "MOD" ELSE ueCb[i].db.act,
                                 rrc |-> rrc, op |-> op, rbs |-> rbs]
                        /\ u = [ueCb[i] EXCEPT !.db = db]
    BY Zenon
  <2>2. cuUe[c].ph = "ready" /\ UNCHANGED numActvUes
    BY <1>4 DEF CtxtMod
  <2>3. i \in Id
    BY <2>1, <2>2, PhaseIs
  <2>4. ueCb[i] \in UeCb
    BY <2>3, EntryType
  <2>5. db \in Db
    BY <2>1, <2>4, DuUeAssumption DEF Db, UeCb
  <2>6. u \in UeCb /\ u.state = ueCb[i].state
    BY <2>1, <2>4, <2>5 DEF UeCb
  <2>7. RecfgReq(i, u) \/ RrcMsgFirst(i, u)
    <3>1. u = [ueCb[i] EXCEPT !.db = [act |-> IF @.act = "NONE" THEN "MOD" ELSE @.act,
                                      rrc |-> rrc, op |-> op, rbs |-> rbs]]
      BY <2>1, <2>4 DEF UeCb
    <3>2. QED
      BY <1>4, <2>1, <3>1 DEF CtxtMod
  <2>8. QED
    BY <2>2, <2>3, <2>6, <2>7, ReqCount
<1>5. ASSUME NEW rrc \in BOOLEAN, c \in Access, CtxtRelease(c, rrc)
      PROVE  ActvUesAreCounted'
  <2>1. cuUe[c].ph \in {"connected", "ready"} /\ UNCHANGED numActvUes
    BY <1>5 DEF CtxtRelease
  <2>2. PICK i \in Id, ph \in Phase :
          /\ i = cuUe[c].id /\ ph \in {"connected", "ready"} /\ HasPhase(c, ph, i)
          /\ ph = cuUe[c].ph
          /\ Est(i) /\ Late(i) /\ InRlc(i) = {} /\ Idle(i, "ACTIVE")
          /\ ueCb[i] \in UeCb /\ ueCb[i].cu = c
    BY <1>5, <2>1, AtRest
  <2>3. PICK db, u, v : /\ db = [NoDb EXCEPT !.act = "RELEASE", !.rrc = TRUE]
                        /\ u = [ueCb[i] EXCEPT !.db = db] /\ v = ueCb[i]
    BY Zenon
  <2>4. u \in UeCb /\ u.state = ueCb[i].state /\ v \in UeCb /\ ueCb[i].state \in Counted
    <3>1. db \in Db
      BY <2>3 DEF Db, NoDb
    <3>2. ueCb[i] \in UeCb /\ ueCb[i].state = "ACTIVE"
      BY <2>2 DEF Idle
    <3>3. QED
      BY <2>3, <3>1, <3>2 DEF UeCb, Counted
  <2>5. RrcMsgFirst(i, u) \/ DeleteReq(i, v) \/ UNCHANGED ueCb
    BY <1>5, <2>2, <2>3 DEF CtxtRelease
  <2>6. i \in Id
    OBVIOUS
  <2>7. QED
    BY <2>1, <2>4, <2>5, <2>6, ReqCount, DeleteReqCount, CountStays
<1>6. QED
  BY <1>1, <1>2, <1>3, <1>4, <1>5, CuSteps DEF Drb

\* The UEs that MAC counts.
LEMMA MacCountStays ==
    ASSUME MacActvUesAreCounted, UNCHANGED <<macUe, macNumActvUe>>
    PROVE  MacActvUesAreCounted'
BY DEF MacActvUesAreCounted

LEMMA MacCreateCount ==
    ASSUME Core, MacActvUesAreCounted, ByMac, MacProcUeCreateReq
    PROVE  MacActvUesAreCounted'
<1>1. PICK i, t, new : /\ i = Head(duToMac).ue /\ t = ReqTok("duToMac", "CREATE")
                       /\ new = (macUe[i] # "ACTIVE" /\ ~(macNumActvUe > MaxNumUe))
  OBVIOUS
<1>2. Request("CREATE")
  BY DEF MacProcUeCreateReq
<1>3. i \in Id /\ t \in InMac(i) /\ t.ev = "CREATE" /\ t.at = "duToMac"
  BY <1>1, <1>2, MacFirst, Places
<1>4. PICK c \in CuUe, ph \in Phase : HasPhase(c, ph, i) /\ ph # "idle" /\ InPhase(c, ph, i)
  BY <1>3, PhaseOf
<1>5. \/ ph = "connecting" /\ c \in Access /\ Connecting(i)
      \/ ph = "handin" /\ Creating(i)
  BY <1>3, <1>4, MacWho
<1> DEFINE A == {j \in Id : macUe[j] = "ACTIVE"}
<1>6. macUe \in [Id -> {"NONE", "ACTIVE", "HANDIN"}]
  BY CoreParts DEF MacData
<1>7. CASE ~new
  <2>1. UNCHANGED <<macUe, macNumActvUe>>
    BY <1>1, <1>7 DEF MacProcUeCreateReq
  <2>2. QED
    BY <2>1, MacCountStays
<1>8. CASE new /\ i \in macRaCb
  <2>1. /\ macUe' = [macUe EXCEPT ![i] = "ACTIVE"] /\ macNumActvUe' = macNumActvUe + 1
        /\ macUe[i] # "ACTIVE"
    BY <1>1, <1>8 DEF MacProcUeCreateReq, CreateUeCb
  <2>2. A' = A \union {i} /\ i \in Id \ A /\ A \in SUBSET Id
    BY <1>3, <1>6, <2>1
  <2>3. Cardinality(A \union {i}) = Cardinality(A) + 1
    BY <2>2, OneMore
  <2>4. QED
    BY <2>1, <2>2, <2>3 DEF MacActvUesAreCounted
<1>9. CASE new /\ i \notin macRaCb
  <2>1. /\ macUe' = [macUe EXCEPT ![i] = "HANDIN"] /\ macNumActvUe' = macNumActvUe
        /\ macUe[i] # "ACTIVE"
    BY <1>1, <1>9 DEF MacProcUeCreateReq, CreateUeCb
  <2>2. A' = A
    BY <1>3, <1>6, <2>1
  <2>3. QED
    BY <2>1, <2>2 DEF MacActvUesAreCounted
<1>10. QED
  BY <1>7, <1>8, <1>9

LEMMA MacDeleteCount ==
    ASSUME Core, MacActvUesAreCounted, MaxNumUe <= MaxUint16, ByMac, MacProcUeDeleteReq
    PROVE  MacActvUesAreCounted'
<1>1. PICK i, t : i = Head(duToMac).ue /\ t = ReqTok("duToMac", "DELETE")
  OBVIOUS
<1>2. Request("DELETE")
  BY DEF MacProcUeDeleteReq
<1>3. i \in Id /\ t \in InMac(i) /\ t.ev = "DELETE" /\ t.at = "duToMac"
  BY <1>1, <1>2, MacFirst, Places
<1>4. PICK c \in CuUe, ph \in Phase : HasPhase(c, ph, i) /\ ph # "idle" /\ InPhase(c, ph, i)
  BY <1>3, PhaseOf
<1>5. ph = "releasing" /\ DeletingInMac(i)
  BY <1>3, <1>4, MacWho
<1>6. macUe[i] # "HANDIN"
  BY <1>4, <1>5 DEF InPhase, Releasing, Est
<1>7. macUe \in [Id -> {"NONE", "ACTIVE", "HANDIN"}]
  BY CoreParts DEF MacData
<1> DEFINE A == {j \in Id : macUe[j] = "ACTIVE"}
           ok == macUe[i] # "NONE" /\ schUe[i] = "ACTIVE"
<1>8. MaxUint16 \in Nat
  BY DEF MaxUint16
<1>9. CASE ~ok
  <2>1. UNCHANGED <<macUe, macNumActvUe>>
    BY <1>1, <1>9 DEF MacProcUeDeleteReq, macUeVars
  <2>2. QED
    BY <2>1, MacCountStays
<1>10. CASE ok
  <2>1. /\ macUe' = [macUe EXCEPT ![i] = "NONE"]
        /\ macNumActvUe' = (macNumActvUe + MaxUint16) % (MaxUint16 + 1)
    BY <1>1, <1>10 DEF MacProcUeDeleteReq
  <2>2. i \in A
    BY <1>3, <1>6, <1>7, <1>10
  <2>3. A' = A \ {i} /\ A \in SUBSET Id
    BY <1>3, <1>7, <2>1
  <2>4. Cardinality(A \ {i}) = Cardinality(A) - 1 /\ Cardinality(A) \in 1 .. MaxNumUe
    BY <2>2, <2>3, OneLess
  <2>5. macNumActvUe = Cardinality(A)
    BY DEF MacActvUesAreCounted
  <2>6. \A n \in 1 .. MaxUint16 : (n + MaxUint16) % (MaxUint16 + 1) = n - 1
    BY <1>8
  <2>7. macNumActvUe \in 1 .. MaxUint16
    BY <1>8, <2>4, <2>5, MaxNumUeAssumption, SMT
  <2>8. macNumActvUe' = macNumActvUe - 1
    BY <2>1, <2>6, <2>7
  <2>9. QED
    BY <2>3, <2>4, <2>5, <2>8 DEF MacActvUesAreCounted
<1>11. QED
  BY <1>9, <1>10

LEMMA RoundStays ==
    ASSUME ActvUesAreCounted, UNCHANGED duVars
    PROVE  ActvUesAreCounted'
BY CountStays DEF duVars

LEMMA CuStepSends ==
    ASSUME NEW c, CuStep(c)
    PROVE  CuSends
<1>1. RrcSetup(c) => CuSends
  BY DEF RrcSetup
<1>2. \A rbs, rrc : CtxtSetup(c, rbs, rrc) => CuSends
  BY DEF CtxtSetup
<1>3. \A i, rbs : CtxtSetupHandIn(c, i, rbs) => CuSends
  BY DEF CtxtSetupHandIn
<1>4. \A op, rbs, rrc : CtxtMod(c, op, rbs, rrc) => CuSends
  BY DEF CtxtMod
<1>5. \A rrc : CtxtRelease(c, rrc) => CuSends
  BY DEF CtxtRelease
<1>6. QED
  BY <1>1, <1>2, <1>3, <1>4, <1>5 DEF CuStep

LEMMA MacRoundCount ==
    ASSUME Core, MacActvUesAreCounted, MaxNumUe <= MaxUint16, MacThread
    PROVE  MacActvUesAreCounted'
<1>1. ByMac
  BY DEF MacThread
<1>2. CASE MacProcUeCreateReq
  BY <1>1, <1>2, MacCreateCount
<1>3. CASE MacProcUeDeleteReq
  BY <1>1, <1>3, MacDeleteCount
<1>4. CASE MacProcDlCcchInd \/ MacProcUeReconfigReq \/ MacProcRachRsrcReq \/ MacProcRachRsrcRel
  <2>1. UNCHANGED <<macUe, macNumActvUe>>
    BY <1>4 DEF MacProcDlCcchInd, MacProcUeReconfigReq, MacProcRachRsrcReq, MacProcRachRsrcRel,
                macUeVars
  <2>2. QED
    BY <2>1, MacCountStays
<1>5. QED
  BY <1>2, <1>3, <1>4 DEF MacThread

-----------------------------------------------------------------------------
(* Every step keeps the invariant.                                           *)

LEMMA StutterKeeps ==
    ASSUME Core, UNCHANGED duUeVars
    PROVE  Keeps
<1>1. /\ UNCHANGED <<rlcVars, duToRlcDl>> /\ UNCHANGED macVars /\ UNCHANGED duVars /\ UNCHANGED cuUe
  BY DEF duUeVars
<1>2. Types' /\ Queues' /\ Events'
  BY <1>1, RlcStill, MacStill, DuStill
     DEF Core, Types, Queues, Events, MacQ, RlcQ, MacData, RlcData, RlcTypes, MacTypes, rlcVars
<1>3. Ccch' /\ ~nullDb'
  BY <1>1, DuStill
<1>4. Owners'
  BY <1>1 DEF Core, Owners, macVars, raVars
<1>5. \A j : Same(j)
  BY <1>1, RlcStill, MacStill DEF Same, duVars
<1>6. Lives'
  <2>1. ueBitMap' = ueBitMap
    BY <1>1 DEF macVars, raVars
  <2>2. ASSUME NEW j \in Id \ ueBitMap
        PROVE  Unused(j)'
    BY <1>5, UnusedFrame DEF Core, Lives
  <2>3. ASSUME NEW c \in CuUe
        PROVE  InPhase(c, cuUe[c].ph, cuUe[c].id)'
    <3>1. PICK ph, j : ph = cuUe[c].ph /\ j = cuUe[c].id
      BY Zenon
    <3>2. InPhase(c, ph, j)
      BY <3>1 DEF Core, Lives
    <3>3. Same(j)
      BY <1>5
    <3>4. InPhase(c, ph, j)'
      BY <3>2, <3>3, Frame
    <3>5. QED
      BY <1>1, <3>1, <3>4
  <2>4. QED
    BY <2>1, <2>2, <2>3 DEF Lives
<1>7. QED
  BY <1>2, <1>3, <1>4, <1>6 DEF Keeps

LEMMA CuKeeps ==
    ASSUME OneByOne, Core, ActvUesAreCounted, NEW c \in CuUe, CuStep(c)
    PROVE  Keeps
<1>1. CASE RrcSetup(c)
  BY <1>1, RrcSetupCount, RrcSetupKeeps
<1>2. ASSUME NEW rrc \in BOOLEAN, NEW rbs \in SUBSET Drb, c \in Access, CtxtSetup(c, rbs, rrc)
      PROVE  Keeps
  <2>1. rbs \in SUBSET Rb
    BY DEF Drb
  <2>2. QED
    BY <1>2, <2>1, CtxtSetupKeeps
<1>3. ASSUME NEW i \in Id, NEW rbs \in SUBSET Drb, c \in HandIn, CtxtSetupHandIn(c, i, rbs)
      PROVE  Keeps
  <2>1. rbs \in SUBSET Rb
    BY DEF Drb
  <2>2. QED
    BY <1>3, <2>1, CtxtSetupHandInKeeps
<1>4. ASSUME NEW op \in ModOps, NEW rrc \in BOOLEAN, NEW rbs \in SUBSET Drb, c \in Access,
             CtxtMod(c, op, rbs, rrc)
      PROVE  Keeps
  <2>1. rbs \in SUBSET Rb
    BY DEF Drb
  <2>2. op \in {"ADD", "MODIFY", "DEL"}
    BY DuUeAssumption DEF OneByOne
  <2>3. QED
    BY <1>4, <2>1, <2>2, CtxtModKeeps
<1>5. ASSUME NEW rrc \in BOOLEAN, c \in Released, CtxtRelease(c, rrc)
      PROVE  Keeps
  BY <1>5, CtxtReleaseKeeps DEF OneByOne
<1>6. QED
  BY <1>1, <1>2, <1>3, <1>4, <1>5, CuSteps

LEMMA StepsKeep ==
    ASSUME OneByOne, Core, ActvUesAreCounted, [DuUeNext]_duUeVars
    PROVE  Keeps
<1>1. ASSUME NEW c \in CuUe, CuStep(c) \/ UeHandIn(c) \/ UeRrc(c)
      PROVE  Keeps
  BY <1>1, CuKeeps, UeHandInKeeps, UeRrcKeeps
<1>2. ASSUME NEW c \in Access, NEW i \in Id, UeAccess(c, i)
      PROVE  Keeps
  BY <1>2, UeAccessKeeps DEF OneByOne
<1>3. ASSUME NEW i \in Id, UeMsg4(i) \/ RlcTimer(i)
      PROVE  Keeps
  BY <1>3, Msg4Keeps, RlcTimerKeeps DEF OneByOne, UeMsg4
<1>4. CASE FromMacStep
  BY <1>4, UlCcchIndKeeps, MacUeCreateRspKeeps, MacUeRecfgRspKeeps, MacRachRsrcRspKeeps,
     MacUeDeleteRspKeeps DEF FromMacStep
<1>5. CASE FromRlcStep
  BY <1>5, RlcUeCreateRspKeeps, RlcUeReconfigRspKeeps, RlcUeDeleteRspKeeps, DlRrcMsgRspKeeps,
     UlRrcMsgTransKeeps DEF FromRlcStep
<1>6. CASE RlcUlThread
  BY <1>6, UeCfgReqKeeps, RlcProcUeDeleteReqKeeps, UlUdxCfgCfmKeeps DEF RlcUlThread, OneByOne
<1>7. CASE RlcDlThread
  BY <1>7, DlUdxCfgReqKeeps DEF RlcDlThread
<1>8. CASE RlcProcDlRrcMsgTransfer
  BY <1>8, DlRrcMsgTransferKeeps
<1>9. CASE MacThread
  BY <1>9, DlCcchIndKeeps, MacUeCreateReqKeeps, MacUeReconfigReqKeeps, MacUeDeleteReqKeeps,
     MacRachRsrcReqKeeps, MacRachRsrcRelKeeps DEF MacThread
<1>10. CASE UNCHANGED duUeVars
  BY <1>10, StutterKeeps
<1>11. QED
  BY <1>1, <1>2, <1>3, <1>4, <1>5, <1>6, <1>7, <1>8, <1>9, <1>10 DEF DuUeNext

LEMMA StepsCount ==
    ASSUME OneByOne, Core, ActvUesAreCounted, [DuUeNext]_duUeVars
    PROVE  ActvUesAreCounted'
<1>1. ASSUME NEW c \in CuUe, CuStep(c)
      PROVE  ActvUesAreCounted'
  BY <1>1, CuCount DEF OneByOne
<1>2. CASE FromMacStep
  BY <1>2, FromMacCount
<1>3. CASE FromRlcStep
  BY <1>3, FromRlcCount
<1>4. CASE \/ \E c \in CuUe : UeHandIn(c) \/ UeRrc(c)
           \/ \E c \in Access, i \in Id : UeAccess(c, i)
           \/ \E i \in Id : UeMsg4(i) \/ RlcTimer(i)
           \/ RlcUlThread \/ RlcDlThread \/ RlcProcDlRrcMsgTransfer \/ MacThread
           \/ UNCHANGED duUeVars
  <2>1. UNCHANGED duVars
    BY <1>4 DEF UeHandIn, UeRrc, UeAccess, UeStep, UeMsg4, RlcTimer, RlcUlThread, RlcDlThread,
                RlcProcDlRrcMsgTransfer, MacThread, ByMac, ByRlc, duUeVars
  <2>2. QED
    BY <2>1, RoundStays
<1>5. QED
  BY <1>1, <1>2, <1>3, <1>4 DEF DuUeNext

LEMMA StepsMacCount ==
    ASSUME Core, MacActvUesAreCounted, MaxNumUe <= MaxUint16, [DuUeNext]_duUeVars
    PROVE  MacActvUesAreCounted'
<1>1. ASSUME NEW c \in CuUe, CuStep(c)
      PROVE  UNCHANGED <<macUe, macNumActvUe>>
  BY <1>1, CuStepSends DEF CuSends, macOwnVars, macUeVars
<1>2. ASSUME NEW c \in CuUe, UeHandIn(c) \/ UeRrc(c)
      PROVE  UNCHANGED <<macUe, macNumActvUe>>
  BY <1>2 DEF UeHandIn, RachCfra, UeRrc, macVars, macUeVars
<1>3. ASSUME NEW c \in Access, NEW i \in Id, UeAccess(c, i)
      PROVE  UNCHANGED <<macUe, macNumActvUe>>
  BY <1>3 DEF UeAccess, Rach, macUeVars
<1>4. ASSUME NEW i \in Id, UeMsg4(i) \/ RlcTimer(i)
      PROVE  UNCHANGED <<macUe, macNumActvUe>>
  BY <1>4 DEF UeMsg4, Msg4Acked, RlcTimer, ByRlc, macVars, macUeVars
<1>5. CASE FromMacStep \/ FromRlcStep
  <2>1. UNCHANGED macOwnVars
    <3>1. FromMacStep => \E ev : FromMac(ev)
      BY DEF FromMacStep, DuProcUlCcchInd, DuProcMacUeCreateRsp, DuProcMacUeRecfgRsp,
             DuProcMacRachRsrcRsp, DuProcMacUeDeleteRsp
    <3>2. FromRlcStep => \E ev : FromRlc(ev)
      BY DEF FromRlcStep, DuProcRlcUeCreateRsp, DuProcRlcUeReconfigRsp, DuProcRlcUeDeleteRsp,
             DuProcRlcDlRrcMsgRsp, DuProcRlcUlRrcMsgTrans
    <3>3. QED
      BY <1>5, <3>1, <3>2 DEF FromMac, FromRlc
  <2>2. QED
    BY <2>1, MacCountStays DEF macOwnVars, macUeVars
<1>6. CASE RlcUlThread \/ RlcDlThread \/ RlcProcDlRrcMsgTransfer \/ UNCHANGED duUeVars
  <2>1. UNCHANGED macVars
    BY <1>6 DEF RlcUlThread, RlcDlThread, ByRlc, RlcProcDlRrcMsgTransfer, duUeVars
  <2>2. QED
    BY <2>1, MacCountStays DEF macVars, macUeVars
<1>7. CASE MacThread
  BY <1>7, MacRoundCount
<1>8. QED
  BY <1>1, <1>2, <1>3, <1>4, <1>5, <1>6, <1>7, MacCountStays DEF DuUeNext

LEMMA KeepsCore == Keeps => Core'
BY DEF Keeps, Core

LEMMA InitEmpty ==
    ASSUME DuUeInit, NEW i
    PROVE  InRlc(i) = {} /\ InMac(i) = {}
<1>1. ToSet(<<>>) = {}
  BY DEF ToSet
<1>2. /\ duToRlcDl = <<>> /\ duToRlc = <<>> /\ ueDelTmr = {} /\ udxReq = <<>> /\ udxCfm = <<>>
      /\ rlcToDu = <<>> /\ duToMac = <<>> /\ macToDu = <<>>
  BY DEF DuUeInit, RlcInit, MacInit
<1>3. \A at : ReqToks(at, <<>>, i) = {} /\ RspToks(at, <<>>, i) = {} /\ UdxToks(at, <<>>, i) = {}
  BY <1>1 DEF ReqToks, RspToks, UdxToks
<1>4. DlToks(<<>>, i) = {} /\ TmrToks({}, i) = {}
  BY <1>1 DEF DlToks, TmrToks
<1>5. QED
  BY <1>2, <1>3, <1>4 DEF InRlc, InMac, RlcToks, MacToks

\* At first nothing is there.
LEMMA InitInv == DuUeInit => DuInv /\ MacActvUesAreCounted
<1> SUFFICES ASSUME DuUeInit
             PROVE  DuInv /\ MacActvUesAreCounted
  OBVIOUS
<1>1. /\ duToRlcDl = <<>> /\ duToRlc = <<>> /\ udxReq = <<>> /\ udxCfm = <<>>
      /\ rlcToDu = <<>> /\ duToMac = <<>> /\ macToDu = <<>>
  BY DEF DuUeInit, RlcInit, MacInit
<1>2. ToSet(<<>>) = {} /\ IsInjective(<<>>) /\ DOMAIN <<>> = {}
  BY DEF ToSet, IsInjective
<1>3. Types
  <2>1. RlcTypes
    BY <1>1, <1>2 DEF RlcTypes, DuUeInit, RlcInit, RlcEvent
  <2>2. MacTypes
    BY <1>1 DEF MacTypes, DuUeInit, MacInit
  <2>3. DuTypes
    BY NoUeCbType DEF DuTypes, DuUeInit, Phase
  <2>4. QED
    BY <2>1, <2>2, <2>3 DEF Types
<1>4. Queues
  BY <1>1, <1>2 DEF Queues, Distinct, UdxDistinct, CreateFirst, UlRrcLast
<1>5. Events
  BY <1>1, <1>2 DEF Events
<1>6. \A c \in CuUe : cuUe[c].ph = "idle" /\ cuUe[c].id = 0
  BY DEF DuUeInit
<1>7. Ccch
  BY <1>6 DEF Ccch, DuUeInit
<1>8. Owners
  BY <1>6 DEF Owners, DuUeInit, MacInit
<1>9. Lives
  <2>1. ASSUME NEW i \in Id
        PROVE  Unused(i)
    BY InitEmpty DEF Unused, RlcEmpty, MacEmpty, NoRa, NoCfra, DuUeInit, RlcInit, MacInit
  <2>2. ASSUME NEW c \in CuUe
        PROVE  InPhase(c, "idle", cuUe[c].id)
    BY DEF InPhase
  <2>3. QED
    BY <1>6, <2>1, <2>2 DEF Lives
<1>10. ActvUesAreCounted
  <2>1. {i \in Id : ueCb[i].state \in {"ACTIVE", "DELETION"}} = {}
    BY DEF DuUeInit, NoUeCb
  <2>2. QED
    BY <2>1, FS_EmptySet DEF ActvUesAreCounted, DuUeInit
<1>11. MacActvUesAreCounted
  <2>1. {i \in Id : macUe[i] = "ACTIVE"} = {}
    BY DEF DuUeInit, MacInit
  <2>2. QED
    BY <2>1, FS_EmptySet DEF MacActvUesAreCounted, DuUeInit, MacInit
<1>12. QED
  BY <1>3, <1>4, <1>5, <1>7, <1>8, <1>9, <1>10, <1>11 DEF DuInv, Core, DuUeInit

\* In every state there is of each UE what the phase of its life allows, for every
\* id and every context, and gNB-DU counts its active UEs.
LEMMA Inductive == ASSUME OneByOne PROVE DuUeSpec => []DuInv
<1>1. DuUeInit => DuInv
  BY InitInv
<1>2. DuInv /\ [DuUeNext]_duUeVars => DuInv'
  BY StepsKeep, StepsCount, KeepsCore DEF DuInv
<1>3. QED
  BY <1>1, <1>2, PTL DEF DuUeSpec

-----------------------------------------------------------------------------
(* What the invariant says of the system.                                    *)

\* A message about a UE has its token.
LEMMA MacMsgs ==
    /\ \A m \in Msgs(duToMac) : ReqTok("duToMac", m.ev) \in InMac(m.ue)
    /\ \A m \in Msgs(macToDu) : Tok("macToDu", m.ev, m.ok) \in InMac(m.ue)
BY DEF Msgs, ToSet, InMac, MacToks, ReqToks, RspToks

LEMMA RlcMsgs ==
    /\ \A m \in Msgs(duToRlc) : ReqTok("duToRlc", m.ev) \in InRlc(m.ue)
    /\ \A m \in Msgs(rlcToDu) : Tok("rlcToDu", m.ev, m.ok) \in InRlc(m.ue)
    /\ \A u \in Msgs(udxReq) : Tok("udxReq", u.req.ev, u.ueOk) \in InRlc(u.req.ue)
    /\ \A u \in Msgs(udxCfm) : Tok("udxCfm", u.req.ev, u.ueOk) \in InRlc(u.req.ue)
    /\ \A i \in ueDelTmr : ReqTok("ueDelTmr", "DELETE") \in InRlc(i)
    /\ \A i \in Msgs(duToRlcDl) : ReqTok("duToRlcDl", "DL_RRC") \in InRlc(i)
<1>1. /\ \A m \in Msgs(duToRlc) : ReqTok("duToRlc", m.ev) \in ReqToks("duToRlc", duToRlc, m.ue)
      /\ \A m \in Msgs(rlcToDu) : Tok("rlcToDu", m.ev, m.ok) \in RspToks("rlcToDu", rlcToDu, m.ue)
  BY DEF Msgs, ToSet, ReqToks, RspToks
<1>2. /\ \A u \in Msgs(udxReq) : Tok("udxReq", u.req.ev, u.ueOk) \in UdxToks("udxReq", udxReq, u.req.ue)
      /\ \A u \in Msgs(udxCfm) : Tok("udxCfm", u.req.ev, u.ueOk) \in UdxToks("udxCfm", udxCfm, u.req.ue)
  BY DEF Msgs, ToSet, UdxToks
<1>3. /\ \A i \in ueDelTmr : ReqTok("ueDelTmr", "DELETE") \in TmrToks(ueDelTmr, i)
      /\ \A i \in Msgs(duToRlcDl) : ReqTok("duToRlcDl", "DL_RRC") \in DlToks(duToRlcDl, i)
  BY DEF Msgs, ToSet, TmrToks, DlToks
<1>4. QED
  BY <1>1, <1>2, <1>3 DEF InRlc, RlcToks

LEMMA FreeIds == Core => FreeIdIsUnused
<1> SUFFICES ASSUME Core, NEW i \in Id \ ueBitMap
             PROVE  /\ ueCb[i] = NoUeCb
                    /\ \A k \in 0 .. numUe - 1 : ueCcchCtxt[k] # i
                    /\ i \notin rlcUlUe \union ueDelTmr /\ rlcUlRb[i] = {} /\ rlcDlRb[i] = {}
                    /\ macUe[i] = "NONE" /\ schUe[i] = "NONE" /\ macLc[i] = {} /\ schLc[i] = {}
                    /\ i \notin UNION {macRaCb, msg4Pdu, macCfra, schPreamble, Msgs(duToRlcDl)}
                    /\ \A m \in UNION {Msgs(duToRlc), Msgs(rlcToDu), Msgs(duToMac), Msgs(macToDu)} :
                            m.ue # i
                    /\ \A u \in Msgs(udxReq) \union Msgs(udxCfm) : u.req.ue # i
  BY DEF FreeIdIsUnused
<1>1. Unused(i)
  BY DEF Core, Lives
<1>2. InRlc(i) = {} /\ InMac(i) = {}
  BY <1>1 DEF Unused
<1>3. ueCb[i] = NoUeCb /\ RlcEmpty(i) /\ MacEmpty(i) /\ NoRa(i) /\ NoCfra(i)
  BY <1>1 DEF Unused
<1>4. ASSUME NEW k \in 0 .. numUe - 1
      PROVE  ueCcchCtxt[k] # i
  <2>1. numUe = 1 /\ k = 0
    BY <1>4, SMT DEF Core, Ccch
  <2>2. PICK c \in CuUe : cuUe[c].ph = "initial"
    BY <2>1 DEF Core, Ccch
  <2>3. ueCcchCtxt[0] = cuUe[c].id
    BY <2>2 DEF Core, Ccch
  <2>4. cuUe[c].id \in ueBitMap
    BY <2>2, PhaseIs
  <2>5. QED
    BY <2>1, <2>3, <2>4
<1>5. \A m \in UNION {Msgs(duToMac), Msgs(macToDu)} : m.ue # i
  BY <1>2, MacMsgs
<1>6. \A m \in UNION {Msgs(duToRlc), Msgs(rlcToDu)} : m.ue # i
  BY <1>2, RlcMsgs
<1>7. \A u \in Msgs(udxReq) \union Msgs(udxCfm) : u.req.ue # i
  BY <1>2, RlcMsgs
<1>8. i \notin ueDelTmr /\ i \notin Msgs(duToRlcDl)
  BY <1>2, RlcMsgs
<1>9. i \notin rlcUlUe /\ rlcUlRb[i] = {} /\ rlcDlRb[i] = {}
  BY <1>3 DEF RlcEmpty
<1>10. macUe[i] = "NONE" /\ schUe[i] = "NONE" /\ macLc[i] = {} /\ schLc[i] = {}
  BY <1>3 DEF MacEmpty
<1>11. i \notin UNION {macRaCb, msg4Pdu, macCfra, schPreamble, Msgs(duToRlcDl)}
  <2>1. /\ i \notin macRaCb /\ i \notin msg4Pdu /\ i \notin macCfra /\ i \notin schPreamble
        /\ i \notin Msgs(duToRlcDl)
    BY <1>3, <1>8 DEF NoRa, NoCfra
  <2>2. QED
    BY <2>1
<1>12. \A m \in UNION {Msgs(duToRlc), Msgs(rlcToDu), Msgs(duToMac), Msgs(macToDu)} : m.ue # i
  BY <1>5, <1>6
<1>13. i \notin rlcUlUe \union ueDelTmr
  BY <1>8, <1>9
<1>14. ueCb[i] = NoUeCb
  BY <1>3
<1>15. QED
  BY <1>4, <1>7, <1>9, <1>10, <1>11, <1>12, <1>13, <1>14

LEMMA Answered == Core => AnsweredWhenDone
<1> SUFFICES ASSUME Core, NEW c \in CuUe, cuUe[c].ph \in {"arriving", "ready"}
             PROVE  /\ \A m \in Msgs(duToMac) \union Msgs(macToDu) :
                            m.ue = cuUe[c].id => m.ev = "RACH_REL"
                    /\ \A m \in Msgs(duToRlc) : m.ue # cuUe[c].id
                    /\ \A u \in Msgs(udxReq) \union Msgs(udxCfm) : u.req.ue # cuUe[c].id
                    /\ \A m \in Msgs(rlcToDu) : m.ue = cuUe[c].id => m.ev \in {"UL_RRC", "DL_RRC"}
  BY DEF AnsweredWhenDone
<1>1. PICK ph, i : ph = cuUe[c].ph /\ i = cuUe[c].id
  BY Zenon
<1>2. ph \in {"arriving", "ready"} /\ InPhase(c, ph, i)
  BY <1>1 DEF Core, Lives
<1>3. InRlc(i) = {} /\ \A t \in InMac(i) : t.ev = "RACH_REL"
  BY <1>2 DEF InPhase, Arriving, Ready, HandedIn
<1>4. /\ \A m \in Msgs(duToMac) : m.ue = i => m.ev = "RACH_REL"
      /\ \A m \in Msgs(macToDu) : m.ue = i => m.ev = "RACH_REL"
  <2>1. ASSUME NEW m \in Msgs(duToMac), m.ue = i
        PROVE  m.ev = "RACH_REL"
    <3>1. ReqTok("duToMac", m.ev).ev = "RACH_REL"
      BY <1>3, <2>1, MacMsgs
    <3>2. QED
      BY <3>1 DEF ReqTok
  <2>2. ASSUME NEW m \in Msgs(macToDu), m.ue = i
        PROVE  m.ev = "RACH_REL"
    <3>1. Tok("macToDu", m.ev, m.ok).ev = "RACH_REL"
      BY <1>3, <2>2, MacMsgs
    <3>2. QED
      BY <3>1 DEF Tok
  <2>3. QED
    BY <2>1, <2>2
<1>5. /\ \A m \in Msgs(duToRlc) : m.ue # i
      /\ \A m \in Msgs(rlcToDu) : m.ue # i
      /\ \A u \in Msgs(udxReq) \union Msgs(udxCfm) : u.req.ue # i
  BY <1>3, RlcMsgs
<1>6. QED
  BY <1>1, <1>4, <1>5

LEMMA OneContext == Core => OneContextPerUe
<1> SUFFICES ASSUME Core
             PROVE  OneContextPerUe
  OBVIOUS
<1>1. ASSUME NEW c \in CuUe, cuUe[c].ph \notin {"idle", "access", "initial"}
      PROVE  ueCb[cuUe[c].id].cu = c
  BY <1>1 DEF Core, Lives, InPhase
<1>2. ASSUME NEW i \in Id, ueCb[i].cu # 0
      PROVE  cuUe[ueCb[i].cu].id = i
  <2>1. ueCb[i] # NoUeCb
    BY <1>2 DEF NoUeCb
  <2>2. ~Unused(i)
    BY <2>1 DEF Unused
  <2>3. PICK c \in CuUe : cuUe[c].id = i /\ cuUe[c].ph # "idle" /\ InPhase(c, cuUe[c].ph, i)
    BY <2>2, Owner
  <2>4. cuUe[c].ph \notin {"access", "initial"}
    BY <2>1, <2>3 DEF InPhase, Accessing, Initial, New
  <2>5. ueCb[i].cu = c
    BY <1>1, <2>3, <2>4
  <2>6. QED
    BY <2>3, <2>5
<1>3. QED
  BY <1>1, <1>2 DEF OneContextPerUe

LEMMA CfraGoes == Core => CfraIsReleased
<1> SUFFICES ASSUME Core, NEW i \in Id, ueCb[i].state = "ACTIVE",
                    \A m \in Msgs(duToMac) : m.ue = i => m.ev # "RACH_REL"
             PROVE  NoCfra(i)
  BY DEF CfraIsReleased, NoCfra
<1>1. ueCb[i] # NoUeCb
  BY DEF NoUeCb
<1>2. ~Unused(i)
  BY <1>1 DEF Unused
<1>3. PICK c \in CuUe : cuUe[c].id = i /\ cuUe[c].ph # "idle" /\ cuUe[c].ph \in Phase
                        /\ InPhase(c, cuUe[c].ph, i)
  BY <1>2, Owner
<1>4. PICK ph : ph = cuUe[c].ph
  BY Zenon
<1>5. ph # "idle" /\ ph \in Phase /\ InPhase(c, ph, i)
  BY <1>3, <1>4
<1>6. \A t \in InMac(i) : ~(t.at = "duToMac" /\ t.ev = "RACH_REL")
  <2>1. ASSUME NEW t \in InMac(i), t.at = "duToMac", t.ev = "RACH_REL"
        PROVE  FALSE
    <3>1. t \in ReqToks("duToMac", duToMac, i)
      BY <2>1, Places DEF InMac, MacToks
    <3>2. PICK m \in ToSet(duToMac) : m.ue = i /\ t = ReqTok("duToMac", m.ev)
      BY <3>1 DEF ReqToks
    <3>3. m \in Msgs(duToMac)
      BY <3>2 DEF Msgs, ToSet
    <3>4. m.ev = "RACH_REL"
      BY <2>1, <3>2 DEF ReqTok
    <3>5. QED
      BY <3>2, <3>3, <3>4
  <2>2. QED
    BY <2>1
<1>7. CASE ph \in {"access", "initial"}
  BY <1>1, <1>5, <1>7 DEF InPhase, Accessing, Initial, New
<1>8. CASE ph \in {"handin", "arriving"}
  BY <1>5, <1>8 DEF InPhase, HandingIn, Arriving, Idle
<1>9. CASE ph \in {"connecting", "completing"}
  BY <1>5, <1>9 DEF InPhase, Connecting, Completing, Arriving, Arrived, Idle, Est
<1>10. CASE ph \in {"connected", "asked", "releasing"}
  BY <1>5, <1>10 DEF InPhase, Connected, Asked, Releasing, Est
<1>11. CASE ph = "ready"
  <2>1. CASE c \in Access
    BY <1>5, <1>11, <2>1 DEF InPhase, Ready, Est
  <2>2. CASE c \notin Access
    <3>1. HandedIn(i)
      BY <1>5, <1>11, <2>2 DEF InPhase
    <3>2. InMac(i) = {}
      BY <1>6, <3>1 DEF HandedIn
    <3>3. QED
      BY <3>1, <3>2 DEF HandedIn
  <2>3. QED
    BY <2>1, <2>2
<1>12. QED
  BY <1>5, <1>7, <1>8, <1>9, <1>10, <1>11 DEF Phase

NullDbIsTyped == nullDb \in BOOLEAN

\* The type invariant asks the counter of MAC to be in its range.
LEMMA TypesOk ==
    ASSUME Core, MacActvUesAreCounted, MaxNumUe <= MaxUint16, NullDbIsTyped
    PROVE  TypeOK
<1>1. RlcTypes /\ MacTypes /\ DuTypes
  BY DEF Core, Types
<1>2. ASSUME NEW u \in Msgs(udxReq) \union Msgs(udxCfm)
      PROVE  u.req \in RlcReq
  <2>1. u \in UdxReq \/ u \in UdxCfm
    BY <1>1, <1>2 DEF RlcTypes, Msgs
  <2>2. QED
    BY <2>1 DEF UdxReq, UdxCfm
<1>3. macNumActvUe \in 0 .. MaxUint16
  <2> DEFINE A == {i \in Id : macUe[i] = "ACTIVE"}
  <2>1. IsFiniteSet(A) /\ Cardinality(A) <= MaxNumUe
    BY IdIsFinite, FS_Subset
  <2>2. Cardinality(A) \in Nat
    BY <2>1, FS_CardinalityType
  <2>3. macNumActvUe = Cardinality(A)
    BY DEF MacActvUesAreCounted
  <2>4. MaxUint16 \in Nat
    BY DEF MaxUint16
  <2>5. QED
    BY <2>1, <2>2, <2>3, <2>4, MaxNumUeAssumption, SMT
<1>4. numUe \in 0 .. MaxNumUe
  BY MaxNumUeAssumption, SMT DEF Core, Ccch
<1>5. /\ duToRlc \in Seq(RlcReq) /\ rlcUlUe \subseteq Id /\ ueDelTmr \subseteq Id
      /\ rlcUlRb \in [Id -> SUBSET Rb] /\ rlcDlRb \in [Id -> SUBSET Rb]
      /\ rlcUlUdxEventType \in RlcEvent
  BY <1>1 DEF RlcTypes
<1>6. /\ macUe \in [Id -> {"NONE", "ACTIVE", "HANDIN"}] /\ schUe \in [Id -> {"NONE", "ACTIVE", "HANDIN"}]
      /\ macLc \in [Id -> SUBSET Rb] /\ schLc \in [Id -> SUBSET Rb]
  BY <1>1 DEF MacTypes
<1>7. UNION {ueBitMap, macRaCb, msg4Pdu, macCfra, schTcrnti, schMsg4Done, schPreamble} \subseteq Id
  BY <1>1 DEF MacTypes
<1>8. ueCb \in [Id -> UeCb]
  BY <1>1 DEF DuTypes
<1>9. QED
  BY <1>2, <1>3, <1>4, <1>5, <1>6, <1>7, <1>8 DEF TypeOK, NullDbIsTyped

LEMMA NullDbType ==
    ASSUME NullDbIsTyped, [DuUeNext]_duUeVars
    PROVE  NullDbIsTyped'
<1> USE DEF NullDbIsTyped
<1>1. ASSUME NEW c \in CuUe, CuStep(c)
      PROVE  UNCHANGED nullDb
  BY <1>1, CuStepSends DEF CuSends
<1>2. \A i, u : CtxtRsp(i, u) => nullDb' \in BOOLEAN
  BY DEF CtxtRsp
<1>3. \A i, u : CreateDone(i, u) => nullDb' \in BOOLEAN
  BY DEF CreateDone
<1>4. \A i, u : RecfgDone(i, u) => nullDb' \in BOOLEAN
  BY <1>2 DEF RecfgDone
<1>5. NoChange => nullDb' \in BOOLEAN
  BY DEF NoChange
<1>6. CASE FromMacStep
  BY <1>2, <1>3, <1>4, <1>5, <1>6
     DEF FromMacStep, DuProcUlCcchInd, DuProcMacUeCreateRsp, DuProcMacUeRecfgRsp,
         DuProcMacRachRsrcRsp, DuProcMacUeDeleteRsp
<1>7. CASE FromRlcStep
  BY <1>3, <1>4, <1>7
     DEF FromRlcStep, DuProcRlcUeCreateRsp, DuProcRlcUeReconfigRsp, DuProcRlcUeDeleteRsp,
         DuProcRlcDlRrcMsgRsp, DuProcRlcUlRrcMsgTrans
<1>8. CASE \/ \E c \in CuUe : UeHandIn(c) \/ UeRrc(c)
           \/ \E c \in Access, i \in Id : UeAccess(c, i)
           \/ \E i \in Id : UeMsg4(i) \/ RlcTimer(i)
           \/ RlcUlThread \/ RlcDlThread \/ RlcProcDlRrcMsgTransfer \/ MacThread
           \/ UNCHANGED duUeVars
  <2>1. UNCHANGED duVars
    BY <1>8 DEF UeHandIn, UeRrc, UeAccess, UeStep, UeMsg4, RlcTimer, RlcUlThread, RlcDlThread,
                RlcProcDlRrcMsgTransfer, MacThread, ByMac, ByRlc, duUeVars
  <2>2. QED
    BY <2>1 DEF duVars
<1>9. QED
  BY <1>1, <1>6, <1>7, <1>8 DEF DuUeNext

-----------------------------------------------------------------------------
(* The theorems.                                                             *)

\* An id that is free to be given to another UE is in nobody's tables and in no
\* message under way, in the DU application, in RLC, in MAC and in SCH.
THEOREM FreeIdIsUnusedAlways == ASSUME OneByOne PROVE DuUeSpec => []FreeIdIsUnused
<1>1. DuInv => FreeIdIsUnused
  BY FreeIds DEF DuInv
<1>2. QED
  BY <1>1, Inductive, PTL

\* The CU has its answer only when RLC and MAC have answered: no request to a layer
\* and no response to one is under way any more.
THEOREM AnsweredWhenDoneAlways == ASSUME OneByOne PROVE DuUeSpec => []AnsweredWhenDone
<1>1. DuInv => AnsweredWhenDone
  BY Answered DEF DuInv
<1>2. QED
  BY <1>1, Inductive, PTL

\* CU and gNB-DU mean the same UE by a context, and no context outlives its UE.
THEOREM OneContextPerUeAlways == ASSUME OneByOne PROVE DuUeSpec => []OneContextPerUe
<1>1. DuInv => OneContextPerUe
  BY OneContext DEF DuInv
<1>2. QED
  BY <1>1, Inductive, PTL

\* No response of a layer makes use of a database that has been freed.
THEOREM NoNullDbAlways == ASSUME OneByOne PROVE DuUeSpec => []NoNullDb
<1>1. DuInv => NoNullDb
  BY DEF DuInv, Core, NoNullDb
<1>2. QED
  BY <1>1, Inductive, PTL

\* The DU application counts the UEs it has.
THEOREM ActvUesAreCountedAlways == ASSUME OneByOne PROVE DuUeSpec => []ActvUesAreCounted
<1>1. DuInv => ActvUesAreCounted
  BY DEF DuInv
<1>2. QED
  BY <1>1, Inductive, PTL

\* MAC counts its UEs: numActvUe never wraps round below 0, for as many UEs as the
\* counter can hold.
THEOREM MacActvUesAreCountedAlways ==
    ASSUME OneByOne, MaxNumUe <= MaxUint16
    PROVE  DuUeSpec => []MacActvUesAreCounted
<1>1. DuUeInit => MacActvUesAreCounted
  BY InitInv
<1>2. DuInv /\ MacActvUesAreCounted /\ [DuUeNext]_duUeVars => MacActvUesAreCounted'
  BY StepsMacCount DEF DuInv
<1>3. QED
  BY <1>1, <1>2, Inductive, PTL DEF DuUeSpec

\* Dedicated preambles go back to the cell in MAC and in SCH.
THEOREM CfraIsReleasedAlways == ASSUME OneByOne PROVE DuUeSpec => []CfraIsReleased
<1>1. DuInv => CfraIsReleased
  BY CfraGoes DEF DuInv
<1>2. QED
  BY <1>1, Inductive, PTL

\* Type correctness.
THEOREM TypeCorrect == ASSUME OneByOne, MaxNumUe <= MaxUint16 PROVE DuUeSpec => []TypeOK
<1>1. DuUeInit => NullDbIsTyped
  BY DEF DuUeInit, NullDbIsTyped
<1>2. NullDbIsTyped /\ [DuUeNext]_duUeVars => NullDbIsTyped'
  BY NullDbType
<1>3. DuInv /\ MacActvUesAreCounted /\ NullDbIsTyped => TypeOK
  BY TypesOk DEF DuInv
<1>4. QED
  BY <1>1, <1>2, <1>3, Inductive, MacActvUesAreCountedAlways, PTL DEF DuUeSpec

=============================================================================

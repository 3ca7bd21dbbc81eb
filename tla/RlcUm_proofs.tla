---------------------------- MODULE RlcUm_proofs ----------------------------
(***************************************************************************)
(* Proofs about RLC unacknowledged mode, for windows and SDUs of every     *)
(* size: the receiver gives up a missing SDU in the end, and hands up      *)
(* every SDU as it was sent, once.                                         *)
(***************************************************************************)
EXTENDS RlcUm, AmSn_proofs, FiniteSetTheorems

-----------------------------------------------------------------------------
(* The window.  A sequence number is at the value k of the window below uh   *)
(* if it is At(uh, k); the window has the values below WinSz.                *)

SnAt(uh, k) == AddSn(AddSn(uh, WinSz), k)

LEMMA ValueProperties ==
    ASSUME NEW uh \in Sn
    PROVE  /\ \A sn \in Sn : Value(sn, uh) \in Sn /\ SnAt(uh, Value(sn, uh)) = sn
           /\ \A k \in Sn : SnAt(uh, k) \in Sn /\ Value(SnAt(uh, k), uh) = k
           /\ Value(uh, uh) = WinSz /\ WinSz \in Sn /\ 0 \in Sn
           /\ \A sn \in Sn : InReassemblyWindow(sn, uh) <=> Value(sn, uh) < WinSz
           /\ AddSn(uh, 1) \in Sn /\ AddSn(uh, WinSz) \in Sn
  BY WinSzAssumption, SMT
     DEF SnAt, Value, InReassemblyWindow, Sn, SnMod, AddSn, ModSn

\* The next sequence number has the next value, and the distance up to uh is
\* what the value lacks to WinSz.
LEMMA ValueSteps ==
    ASSUME NEW uh \in Sn, NEW sn \in Sn, Value(sn, uh) <= WinSz
    PROVE  /\ ModSn(uh, sn) = WinSz - Value(sn, uh)
           /\ Value(sn, uh) < WinSz => Value(AddSn(sn, 1), uh) = Value(sn, uh) + 1
           /\ \A x \in Sn : Value(x, uh) >= Value(sn, uh) =>
                ModSn(x, sn) = Value(x, uh) - Value(sn, uh)
  BY WinSzAssumption, SMT DEF Value, Sn, SnMod, AddSn, ModSn

\* Going up by j < k from sn, without masking.
LEMMA UnmaskedSteps ==
    ASSUME NEW uh \in Sn, NEW sn \in Sn, NEW n \in 0 .. WinSz, Value(sn, uh) < n,
           {sn + j : j \in 0 .. n - Value(sn, uh) - 1} \subseteq Sn
    PROVE  {sn + j : j \in 0 .. n - Value(sn, uh) - 1} =
           {x \in Sn : Value(x, uh) >= Value(sn, uh) /\ Value(x, uh) < n}
<1> DEFINE u == Value(sn, uh)
           U == {sn + j : j \in 0 .. n - u - 1}
<1>1. u \in Sn /\ u < n /\ n \in Int /\ u \in Int /\ n <= WinSz /\ u >= 0
  BY ValueProperties, WinSzAssumption, SMT DEF Sn, SnMod
<1>2. n - u - 1 \in 0 .. n - u - 1
  BY <1>1, SMT
<1>3. sn + (n - u - 1) \in Sn
  BY <1>2
<1>4. sn + (n - u - 1) < SnMod
  BY <1>3, WinSzAssumption, SMT DEF Sn, SnMod
<1>5. ASSUME NEW j \in 0 .. n - u - 1
      PROVE  sn + j \in Sn /\ Value(sn + j, uh) >= u /\ Value(sn + j, uh) < n
  <2>1. sn + j \in Sn
    OBVIOUS
  <2>2. sn \in Int /\ j \in Int /\ 0 <= j /\ j <= n - u - 1
    BY <1>1, SMT DEF Sn
  <2> HIDE DEF U
  <2>3. QED
    BY <1>1, <1>4, <2>1, <2>2, WinSzAssumption, SMT DEF u, Value, Sn, SnMod, AddSn, ModSn
<1>6. ASSUME NEW x \in Sn, Value(x, uh) >= u, Value(x, uh) < n
      PROVE  x \in U
  <2>1. Value(x, uh) - u \in 0 .. n - u - 1
    <3>1. Value(x, uh) \in Int
      BY ValueProperties DEF Sn
    <3> HIDE DEF U, u
    <3>2. Value(x, uh) >= u /\ Value(x, uh) < n
      BY <1>6
    <3>3. QED
      BY <1>1, <3>1, <3>2
  <2>2. sn + (Value(x, uh) - u) = x
    BY <1>1, <1>4, <1>6, WinSzAssumption, SMT DEF u, Value, Sn, SnMod, AddSn, ModSn
  <2>3. QED
    BY <2>1, <2>2
<1>7. QED
  BY <1>5, <1>6

\* Moving uh up to one above a sequence number that is not in the window.
LEMMA UhMoves ==
    ASSUME NEW uh \in Sn, NEW sn \in Sn, Value(sn, uh) >= WinSz
    PROVE  LET h == AddSn(sn, 1)
               d == ModSn(h, uh)
           IN  /\ h \in Sn /\ d = Value(sn, uh) - WinSz + 1 /\ d \in 1 .. WinSz
               /\ Value(sn, h) = WinSz - 1
               /\ Value(AddSn(h, WinSz), h) = 0
               /\ Value(AddSn(h, WinSz), uh) = d
               /\ \A x \in Sn : Value(x, uh) >= d => Value(x, h) = Value(x, uh) - d
               /\ \A x \in Sn : Value(x, uh) < d => Value(x, h) >= WinSz
  BY WinSzAssumption, SMT DEF Value, Sn, SnMod, AddSn, ModSn

-----------------------------------------------------------------------------
(* The windows that the loops of the code work on *)

\* vrUr is in the window or at its upper edge, and there are buffers only for
\* what is in the window from vrUr on; but perhaps for the sequence number of
\* the PDU that has just been placed.
WindowBut(w, new) ==
    /\ w.ur \in Sn /\ w.uh \in Sn /\ w.buf \in [Sn -> Buf]
    /\ Value(w.ur, w.uh) <= WinSz
    /\ \A sn \in Sn : w.buf[sn] # NoBuf =>
         Value(w.ur, w.uh) <= Value(sn, w.uh) /\ (Value(sn, w.uh) < WinSz \/ sn \in new)
Window(w) == WindowBut(w, {})

\* vrUr at the value m, and what is below discarded
Advanced(w, m) ==
    [ur |-> SnAt(w.uh, m), uh |-> w.uh,
     buf |-> [sn \in Sn |-> IF Value(sn, w.uh) < m THEN NoBuf ELSE w.buf[sn]]]

LEMMA NoBufIsBuf == NoBuf \in Buf /\ ~NoBuf.allSegRcvd /\ NoBuf.segs = {}
  BY SduLenAssumption DEF NoBuf, Buf

LEMMA AdvancedIsWindow ==
    ASSUME NEW ur, NEW uh, NEW buf,
           Window([ur |-> ur, uh |-> uh, buf |-> buf]), NEW m \in Sn, m <= WinSz
    PROVE  LET a == Advanced([ur |-> ur, uh |-> uh, buf |-> buf], m)
           IN  Window(a) /\ Value(a.ur, uh) = m
<1> DEFINE w == [ur |-> ur, uh |-> uh, buf |-> buf]
           a == Advanced(w, m)
<1>1. /\ ur \in Sn /\ uh \in Sn /\ buf \in [Sn -> Buf]
      /\ \A sn \in Sn : buf[sn] # NoBuf => Value(sn, uh) < WinSz
  BY DEF Window, WindowBut
<1>2. a = [ur |-> SnAt(uh, m), uh |-> uh,
           buf |-> [sn \in Sn |-> IF Value(sn, uh) < m THEN NoBuf ELSE buf[sn]]]
  BY DEF Advanced
<1>3. SnAt(uh, m) \in Sn /\ Value(SnAt(uh, m), uh) = m
  BY <1>1, ValueProperties
<1>4. [sn \in Sn |-> IF Value(sn, uh) < m THEN NoBuf ELSE buf[sn]] \in [Sn -> Buf]
  BY <1>1, NoBufIsBuf
<1>5. \A sn \in Sn : Value(sn, uh) \in Int /\ m \in Int
  BY <1>1, ValueProperties DEF Sn
<1> HIDE DEF a
<1>6. a.ur = SnAt(uh, m) /\ a.uh = uh
      /\ a.buf = [sn \in Sn |-> IF Value(sn, uh) < m THEN NoBuf ELSE buf[sn]]
  BY <1>2
<1>7. ASSUME NEW sn \in Sn, a.buf[sn] # NoBuf
      PROVE  m <= Value(sn, uh) /\ Value(sn, uh) < WinSz
  <2>1. ~(Value(sn, uh) < m) /\ buf[sn] # NoBuf
    BY <1>6, <1>7
  <2>2. Value(sn, uh) < WinSz
    BY <1>1, <2>1
  <2>3. QED
    BY <1>5, <2>1, <2>2
<1>8. Window(a) /\ Value(a.ur, uh) = m
  BY <1>1, <1>3, <1>4, <1>6, <1>7 DEF Window, WindowBut
<1>9. QED
  BY <1>8 DEF a

\* The loop that looks for the first sequence number not reassembled: the
\* variable vrUr is never masked in it, which does no harm as long as it does
\* not go past the end of the sequence-number space.
LEMMA FindAdvances ==
    ASSUME NEW ur, NEW uh, NEW buf,
           Window([ur |-> ur, uh |-> uh, buf |-> buf]),
           NEW next \in Sn, Value(next, uh) <= WinSz,
           {ur + j : j \in 0 .. Value(next, uh) - Value(ur, uh) - 1} \subseteq Sn
    PROVE  \E m \in Sn :
              /\ m <= WinSz /\ Value(ur, uh) <= m
              /\ FindRxNextReassembly([ur |-> ur, uh |-> uh, buf |-> buf], next) =
                    Advanced([ur |-> ur, uh |-> uh, buf |-> buf], m)
<1> DEFINE w == [ur |-> ur, uh |-> uh, buf |-> buf]
           u == Value(ur, uh)
           n == Value(next, uh)
           At(k) == AddSn(AddSn(uh, WinSz), k)
           K == {k \in n .. SnMod - 1 : ~buf[At(k)].allSegRcvd}
           m == Min(K)
           D == {ur + j : j \in 0 .. n - u - 1} \union {At(k) : k \in n .. m - 1}
<1>1. /\ ur \in Sn /\ uh \in Sn /\ buf \in [Sn -> Buf] /\ u <= WinSz
      /\ \A sn \in Sn : buf[sn] # NoBuf => u <= Value(sn, uh) /\ Value(sn, uh) < WinSz
  BY DEF Window, WindowBut
<1>2. /\ u \in Sn /\ n \in Sn /\ n <= WinSz /\ WinSz \in Sn
      /\ \A x \in Sn : x \in Int /\ x \in Nat /\ x <= SnMod - 1
      /\ SnMod \in Int
  <2>1. u \in Sn /\ n \in Sn /\ n <= WinSz /\ WinSz \in Sn
    BY <1>1, ValueProperties
  <2>2. SnMod \in Int /\ \A x \in Sn : x \in Int /\ x \in Nat /\ x <= SnMod - 1
    BY WinSzAssumption DEF Sn, SnMod
  <2>3. QED
    BY <2>1, <2>2
<1>3. \A k \in Sn : At(k) = SnAt(uh, k)
  BY DEF SnAt
<1>4. \A sn \in Sn : Value(sn, uh) < u => buf[sn] = NoBuf
  <2>1. \A sn \in Sn : Value(sn, uh) \in Int
    BY <1>1, ValueProperties DEF Sn
  <2>2. QED
    BY <1>1, <1>2, <2>1
<1>5. CASE u >= n
  <2>1. FindRxNextReassembly(w, next) = w
    BY <1>5 DEF FindRxNextReassembly
  <2>2. [sn \in Sn |-> IF Value(sn, uh) < u THEN NoBuf ELSE buf[sn]] = buf
    BY <1>1, <1>4
  <2>3. SnAt(uh, u) = ur
    BY <1>1, ValueProperties
  <2>4. Advanced(w, u) = w
    BY <2>2, <2>3 DEF Advanced
  <2>5. QED
    BY <1>1, <1>2, <2>1, <2>4
<1>6. CASE ~(u >= n)
  <2>1. WinSz \in K
    <3>1. At(WinSz) = uh
      BY <1>1, <1>2, <1>3, ValueProperties
    <3>2. buf[uh] = NoBuf
      BY <1>1, <1>2, ValueProperties
    <3>3. WinSz \in n .. SnMod - 1
      BY <1>2
    <3>4. QED
      BY <3>1, <3>2, <3>3, NoBufIsBuf
  <2>2. K \in SUBSET Nat
    BY <1>2
  <2>3. m \in K /\ m <= WinSz
    BY <2>1, <2>2, MinOfNaturals
  <2> HIDE DEF K
  <2>4. m \in n .. SnMod - 1
    BY <2>3 DEF K
  <2> HIDE DEF m
  <2>5. m \in Sn /\ n <= m /\ u < m /\ u < n
    BY <1>2, <1>6, <2>4 DEF Sn
  <2>6. {ur + j : j \in 0 .. n - u - 1} = {x \in Sn : Value(x, uh) >= u /\ Value(x, uh) < n}
    <3>1. n \in 0 .. WinSz
      BY <1>2
    <3>2. QED
      BY <1>1, <2>5, <3>1, UnmaskedSteps
  <2>7. {At(k) : k \in n .. m - 1} = {x \in Sn : n <= Value(x, uh) /\ Value(x, uh) < m}
    <3>1. ASSUME NEW k \in n .. m - 1
          PROVE  At(k) \in Sn /\ n <= Value(At(k), uh) /\ Value(At(k), uh) < m
      <4>1. k \in Sn /\ n <= k /\ k < m
        BY <1>2, <2>5 DEF Sn
      <4>2. QED
        BY <1>1, <1>3, <4>1, ValueProperties
    <3>2. ASSUME NEW x \in Sn, n <= Value(x, uh), Value(x, uh) < m
          PROVE  \E k \in n .. m - 1 : x = At(k)
      <4>1. Value(x, uh) \in Sn /\ x = SnAt(uh, Value(x, uh))
        BY <1>1, ValueProperties
      <4>2. Value(x, uh) \in n .. m - 1
        BY <1>2, <2>5, <3>2, <4>1
      <4>3. QED
        BY <1>3, <4>1, <4>2
    <3>3. QED
      BY <3>1, <3>2
  <2>8. D = {x \in Sn : u <= Value(x, uh) /\ Value(x, uh) < m}
    <3>1. \A x \in Sn : Value(x, uh) \in Int
      BY <1>1, ValueProperties DEF Sn
    <3>2. QED
      BY <1>2, <2>5, <2>6, <2>7, <3>1
  <2> HIDE DEF D
  <2>9. Deleted(buf, D) = [sn \in Sn |-> IF Value(sn, uh) < m THEN NoBuf ELSE buf[sn]]
    <3>1. ASSUME NEW sn \in Sn
          PROVE  (IF sn \in D THEN NoBuf ELSE buf[sn]) =
                 (IF Value(sn, uh) < m THEN NoBuf ELSE buf[sn])
      <4>1. Value(sn, uh) \in Int
        BY <1>1, ValueProperties DEF Sn
      <4>2. CASE Value(sn, uh) < u
        BY <1>2, <1>4, <2>5, <4>1, <4>2
      <4>3. CASE ~(Value(sn, uh) < u)
        BY <1>2, <2>8, <4>1, <4>3
      <4>4. QED
        BY <4>2, <4>3
    <3>2. QED
      BY <3>1 DEF Deleted
  <2>10. FindRxNextReassembly(w, next) = [ur |-> At(m), uh |-> uh, buf |-> Deleted(buf, D)]
    BY <1>6 DEF FindRxNextReassembly, D, m, K
  <2>11. FindRxNextReassembly(w, next) = Advanced(w, m)
    BY <1>3, <2>5, <2>9, <2>10 DEF Advanced
  <2>12. u <= m
    BY <1>2, <2>5
  <2>13. QED
    BY <2>3, <2>5, <2>11, <2>12
<1>7. QED
  BY <1>5, <1>6


\* What happens to x when the window moves from w to w2, if x does not fall
\* below the window: what vrUr has passed stays passed, and the buffer stays or
\* is discarded because vrUr passes it.
KeepsSn(w, w2, x) ==
    /\ Value(x, w.uh) < Value(w.ur, w.uh) => Value(x, w2.uh) < Value(w2.ur, w2.uh)
    /\ \/ w2.buf[x] = w.buf[x]
       \/ w2.buf[x] = NoBuf /\ Value(x, w2.uh) < Value(w2.ur, w2.uh)
Keeps(w, w2) ==
    /\ \A x \in Sn : w2.buf[x] \in {w.buf[x], NoBuf}
    /\ \A x \in Sn : Value(x, w.uh) >= ModSn(w2.uh, w.uh) => KeepsSn(w, w2, x)

LEMMA FindKeeps ==
    ASSUME NEW ur, NEW uh, NEW buf,
           Window([ur |-> ur, uh |-> uh, buf |-> buf]),
           NEW next \in Sn, Value(next, uh) <= WinSz,
           {ur + j : j \in 0 .. Value(next, uh) - Value(ur, uh) - 1} \subseteq Sn
    PROVE  LET w == [ur |-> ur, uh |-> uh, buf |-> buf]
               a == FindRxNextReassembly(w, next)
           IN  /\ Window(a) /\ a.uh = uh
               /\ \A x \in Sn : a.buf[x] \in {buf[x], NoBuf} /\ KeepsSn(w, a, x)
<1> DEFINE w == [ur |-> ur, uh |-> uh, buf |-> buf]
<1>1. PICK m \in Sn : m <= WinSz /\ Value(ur, uh) <= m
                      /\ FindRxNextReassembly(w, next) = Advanced(w, m)
  BY FindAdvances
<1> DEFINE a == Advanced(w, m)
<1>2. /\ w.ur = ur /\ w.uh = uh /\ w.buf = buf
      /\ a.uh = uh /\ a.buf = [sn \in Sn |-> IF Value(sn, uh) < m THEN NoBuf ELSE buf[sn]]
  BY DEF Advanced
<1>3. Window(a) /\ Value(a.ur, uh) = m
  BY <1>1, AdvancedIsWindow
<1>4. ur \in Sn /\ uh \in Sn
  BY DEF Window, WindowBut
<1>5. m \in Int /\ Value(ur, uh) \in Int /\ \A x \in Sn : Value(x, uh) \in Int
  BY <1>4, ValueProperties DEF Sn
<1> HIDE DEF w, a
<1>6. ASSUME NEW x \in Sn
      PROVE  a.buf[x] \in {buf[x], NoBuf} /\ KeepsSn(w, a, x)
  <2>1. a.buf[x] = IF Value(x, uh) < m THEN NoBuf ELSE buf[x]
    BY <1>2
  <2>2. Value(x, uh) < Value(ur, uh) => Value(x, uh) < m
    BY <1>1, <1>5
  <2>3. QED
    BY <1>2, <1>3, <2>1, <2>2 DEF KeepsSn
<1>7. QED
  BY <1>1, <1>2, <1>3, <1>6 DEF w, a

\* The window after a PDU with sequence number sn, which is above the window
\* and may just have been placed.
LEMMA ShiftedProperties ==
    ASSUME NEW ur, NEW uh, NEW buf, NEW sn \in Sn,
           WindowBut([ur |-> ur, uh |-> uh, buf |-> buf], {sn}), Value(sn, uh) >= WinSz
    PROVE  LET w == [ur |-> ur, uh |-> uh, buf |-> buf]
               s == Shifted(w, sn)
           IN  Window(s) /\ s.uh = AddSn(sn, 1) /\ Keeps(w, s)
<1> DEFINE w == [ur |-> ur, uh |-> uh, buf |-> buf]
           h == AddSn(sn, 1)
           d == ModSn(h, uh)
           u == Value(ur, uh)
           edge == AddSn(h, WinSz)
           below == {x \in Sn : ModSn(x, ur) < ModSn(edge, ur)}
           moved == [ur |-> edge, uh |-> h, buf |-> Deleted(buf, below)]
           s == Shifted(w, sn)
<1>1. /\ ur \in Sn /\ uh \in Sn /\ buf \in [Sn -> Buf] /\ u <= WinSz
      /\ \A x \in Sn : buf[x] # NoBuf => u <= Value(x, uh) /\ (Value(x, uh) < WinSz \/ x = sn)
  BY DEF WindowBut
<1>2. /\ h \in Sn /\ d = Value(sn, uh) - WinSz + 1 /\ d \in 1 .. WinSz
      /\ Value(sn, h) = WinSz - 1
      /\ Value(edge, h) = 0 /\ Value(edge, uh) = d
      /\ \A x \in Sn : Value(x, uh) >= d => Value(x, h) = Value(x, uh) - d
      /\ \A x \in Sn : Value(x, uh) < d => Value(x, h) >= WinSz
  BY <1>1, UhMoves
<1>3. /\ edge \in Sn
      /\ \A x \in Sn : /\ Value(x, uh) \in Int /\ Value(x, uh) >= 0
                       /\ Value(x, h) \in Int /\ Value(x, h) >= 0
                       /\ InReassemblyWindow(x, h) <=> Value(x, h) < WinSz
  <2> HIDE DEF h
  <2>1. /\ edge \in Sn
        /\ \A x \in Sn : /\ Value(x, uh) \in Sn /\ Value(x, h) \in Sn
                         /\ InReassemblyWindow(x, h) <=> Value(x, h) < WinSz
    BY <1>1, <1>2, ValueProperties
  <2>2. \A k \in Sn : k \in Int /\ k >= 0
    BY DEF Sn
  <2> HIDE DEF edge
  <2>3. QED
    BY <2>1, <2>2
<1>4. d \in Int /\ u \in Int /\ u >= 0 /\ WinSz \in Int /\ WinSz >= 1 /\ d >= 1 /\ d <= WinSz
  BY <1>1, <1>2, <1>3, WinSzAssumption
<1>5. InReassemblyWindow(ur, h) <=> u >= d
  <2>1. u >= d => Value(ur, h) = u - d
    BY <1>1, <1>2
  <2>2. u < d => Value(ur, h) >= WinSz
    BY <1>1, <1>2
  <2> HIDE DEF u, d, h
  <2>3. u >= d => Value(ur, h) < WinSz
    BY <1>1, <1>4, <2>1
  <2>4. u >= d \/ u < d
    BY <1>4
  <2>5. Value(ur, h) \in Int
    BY <1>1, <1>3
  <2>6. QED
    BY <1>1, <1>3, <1>4, <2>2, <2>3, <2>4, <2>5
<1>6. w.ur = ur /\ w.uh = uh /\ w.buf = buf
  OBVIOUS
<1>7. ASSUME NEW x \in Sn, Value(x, uh) < WinSz \/ x = sn, Value(x, uh) >= d
      PROVE  Value(x, h) = Value(x, uh) - d /\ Value(x, h) < WinSz
  <2>1. Value(x, h) = Value(x, uh) - d
    BY <1>2, <1>7
  <2>2. CASE x = sn
    BY <1>2, <1>4, <2>1, <2>2
  <2>3. CASE Value(x, uh) < WinSz
    <3> HIDE DEF h, d
    <3>1. QED
      BY <1>3, <1>4, <2>1, <2>3
  <2>4. QED
    BY <1>7, <2>1, <2>2, <2>3
<1>8. CASE u >= d
  <2>1. s = [w EXCEPT !.uh = h]
    BY <1>5, <1>6, <1>8 DEF Shifted
  <2>2. s.ur = ur /\ s.uh = h /\ s.buf = buf
    BY <2>1
  <2>3. Value(ur, h) = u - d
    BY <1>1, <1>2, <1>8
  <2> HIDE DEF s, h, d, u, w
  <2>4. Value(ur, h) <= WinSz
    BY <1>1, <1>4, <2>3
  <2>5. ASSUME NEW x \in Sn, buf[x] # NoBuf
        PROVE  Value(ur, h) <= Value(x, h) /\ Value(x, h) < WinSz
    <3>1. u <= Value(x, uh) /\ (Value(x, uh) < WinSz \/ x = sn)
      BY <1>1, <2>5
    <3>2. Value(x, uh) >= d
      BY <1>3, <1>4, <1>8, <3>1
    <3>3. Value(x, h) = Value(x, uh) - d /\ Value(x, h) < WinSz
      BY <1>7, <3>1, <3>2
    <3>4. QED
      BY <1>3, <1>4, <2>3, <3>1, <3>3
  <2>6. Window(s)
    BY <1>1, <1>2, <2>2, <2>4, <2>5 DEF Window, WindowBut
  <2>7. ASSUME NEW x \in Sn, Value(x, uh) >= d
        PROVE  KeepsSn(w, s, x)
    <3>1. Value(x, h) = Value(x, uh) - d
      BY <1>2, <2>7
    <3>2. Value(x, uh) < u => Value(x, h) < Value(ur, h)
      BY <1>3, <1>4, <2>3, <3>1
    <3>3. QED
      BY <1>6, <2>2, <3>2 DEF KeepsSn, u
  <2>8. Keeps(w, s)
    BY <1>6, <2>2, <2>7 DEF Keeps, d
  <2>9. QED
    BY <2>2, <2>6, <2>8 DEF s, h, w
<1>9. CASE ~(u >= d)
  <2>1. ~InReassemblyWindow(ur, h)
    BY <1>5, <1>9
  <2>2. s = IF moved.buf[edge].allSegRcvd
            THEN FindRxNextReassembly(moved, AddSn(edge, 1)) ELSE moved
    BY <1>6, <2>1 DEF Shifted
  <2>3. \A x \in Sn : x \in below \/ (buf[x] # NoBuf => Value(x, uh) >= d)
    <3>1. ModSn(edge, ur) = d - u
      BY <1>1, <1>2, <1>3, <1>4, <1>9, ValueSteps
    <3>2. ASSUME NEW x \in Sn, buf[x] # NoBuf, Value(x, uh) < d
          PROVE  ModSn(x, ur) < ModSn(edge, ur)
      <4>1. Value(x, uh) >= u
        BY <1>1, <1>3, <1>4, <3>2
      <4>2. ModSn(x, ur) = Value(x, uh) - u
        BY <1>1, <4>1, ValueSteps
      <4> HIDE DEF u, d, edge, h
      <4>3. QED
        BY <1>3, <1>4, <3>1, <3>2, <4>1, <4>2
    <3> HIDE DEF edge, u, d, h
    <3>3. \A x \in Sn : Value(x, uh) >= d \/ Value(x, uh) < d
      BY <1>3, <1>4
    <3>4. QED
      BY <3>2, <3>3
  <2>4. \A x \in below : x \in Sn /\ (Value(x, uh) >= u => Value(x, uh) < d)
    <3>1. ModSn(edge, ur) = d - u
      BY <1>1, <1>2, <1>3, <1>4, <1>9, ValueSteps
    <3>2. ASSUME NEW x \in below, Value(x, uh) >= u
          PROVE  Value(x, uh) < d
      <4>1. ModSn(x, ur) = Value(x, uh) - u /\ ModSn(x, ur) < ModSn(edge, ur) /\ x \in Sn
        BY <1>1, <3>2, ValueSteps
      <4> HIDE DEF u, d, edge, h
      <4>2. QED
        BY <1>3, <1>4, <3>1, <3>2, <4>1
    <3>3. QED
      BY <3>2
  <2>5. moved.buf = [x \in Sn |-> IF x \in below THEN NoBuf ELSE buf[x]]
        /\ moved.ur = edge /\ moved.uh = h
    BY DEF Deleted
  <2> HIDE DEF s, u, d, w, below, edge
  <2>6. moved.buf \in [Sn -> Buf]
    BY <1>1, <2>5, NoBufIsBuf
  <2>7. ASSUME NEW x \in Sn, moved.buf[x] # NoBuf
        PROVE  0 <= Value(x, h) /\ Value(x, h) < WinSz
    <3>1. x \notin below /\ buf[x] # NoBuf
      BY <2>5, <2>7
    <3>2. Value(x, uh) >= d /\ (Value(x, uh) < WinSz \/ x = sn)
      BY <1>1, <2>3, <3>1
    <3>3. QED
      BY <1>3, <1>7, <3>2
  <2> HIDE DEF moved, h
  <2>8. Window(moved)
    BY <1>2, <1>3, <1>4, <2>5, <2>6, <2>7 DEF Window, WindowBut
  <2>9. ASSUME NEW x \in Sn, Value(x, uh) >= d
        PROVE  KeepsSn(w, moved, x)
    <3>1. ~(Value(x, uh) < u)
      BY <1>3, <1>4, <1>9, <2>9
    <3>2. moved.buf[x] = buf[x]
      <4>1. x \notin below
        BY <1>3, <1>4, <2>4, <2>9, <3>1
      <4>2. QED
        BY <2>5, <4>1
    <3>3. QED
      BY <1>6, <3>1, <3>2 DEF KeepsSn, u
  <2>10. \A x \in Sn : moved.buf[x] \in {buf[x], NoBuf}
    BY <2>5
  <2>11. CASE s = moved
    <3>1. Keeps(w, moved)
      BY <1>6, <2>5, <2>9, <2>10 DEF Keeps, d
    <3>2. QED
      BY <2>5, <2>8, <2>11, <3>1 DEF s, w, h
  <2>12. CASE s = FindRxNextReassembly(moved, AddSn(edge, 1)) /\ s # moved
    <3>1. Value(AddSn(edge, 1), h) = 1
      BY <1>2, <1>3, <1>4, ValueSteps
    <3>2. AddSn(edge, 1) \in Sn
      BY <1>3, ValueProperties
    <3>3. {edge + j : j \in 0 .. Value(AddSn(edge, 1), h) - Value(edge, h) - 1} \subseteq Sn
      <4>1. \A j \in 0 .. 0 : edge + j = edge
        BY <1>3 DEF Sn
      <4>2. 1 - 0 - 1 = 0
        OBVIOUS
      <4>3. QED
        BY <1>2, <1>3, <3>1, <4>1, <4>2
    <3>4. moved = [ur |-> edge, uh |-> h, buf |-> moved.buf]
      BY DEF moved
    <3>5. /\ Window(s) /\ s.uh = h
          /\ \A x \in Sn : s.buf[x] \in {moved.buf[x], NoBuf} /\ KeepsSn(moved, s, x)
      BY <1>4, <2>8, <2>12, <3>1, <3>2, <3>3, <3>4, FindKeeps
    <3>6. ASSUME NEW x \in Sn, Value(x, uh) >= d
          PROVE  KeepsSn(w, s, x)
      <4>1. KeepsSn(w, moved, x) /\ KeepsSn(moved, s, x)
        BY <2>9, <3>5, <3>6
      <4>2. QED
        BY <4>1, <2>5, <3>5 DEF KeepsSn
    <3>7. Keeps(w, s)
      BY <1>6, <2>10, <3>5, <3>6 DEF Keeps, d
    <3>8. QED
      BY <3>5, <3>7 DEF s, w, h
  <2>13. QED
    BY <2>2, <2>11, <2>12
<1>10. QED
  BY <1>8, <1>9


-----------------------------------------------------------------------------
(* Placing a segment *)

AirSeg == [sn : Sn, so : 0 .. LastByte, end : 0 .. LastByte, rnd : Rnd]
WholeSeg(p) == p.so = 0 /\ p.end = LastByte

LEMMA FirstGapProperties ==
    ASSUME NEW segs \in SUBSET Seg
    PROVE  /\ FirstGap(segs) \in 0 .. SduLen
           /\ FirstGap(segs) = SduLen =>
                \A k \in 0 .. LastByte : \E s \in segs : k \in s.so .. s.end
<1> DEFINE G == (0 .. SduLen) \ UNION {s.so .. s.end : s \in segs}
<1>1. SduLen \in G
  <2>1. SduLen \in 0 .. SduLen
    BY SduLenAssumption
  <2>2. ASSUME NEW s \in segs, SduLen \in s.so .. s.end
        PROVE  FALSE
    <3>1. s.end \in 0 .. LastByte
      BY DEF Seg
    <3>2. s.so \in 0 .. LastByte
      BY DEF Seg
    <3>3. QED
      BY <2>2, <3>1, <3>2, SduLenAssumption DEF LastByte
  <2>3. QED
    BY <2>1, <2>2
<1>2. G \in SUBSET Nat /\ G \in SUBSET (0 .. SduLen)
  BY SduLenAssumption
<1>3. Min(G) \in G /\ \A k \in G : Min(G) <= k
  BY <1>1, <1>2, MinOfNaturals
<1>4. FirstGap(segs) = Min(G)
  BY DEF FirstGap
<1>5. ASSUME Min(G) = SduLen, NEW k \in 0 .. LastByte
      PROVE  \E s \in segs : k \in s.so .. s.end
  <2>1. k \in 0 .. SduLen /\ ~(SduLen <= k)
    BY SduLenAssumption DEF LastByte
  <2>2. k \notin G
    BY <1>3, <1>5, <2>1
  <2>3. QED
    BY <2>1, <2>2
<1>6. QED
  BY <1>2, <1>3, <1>4, <1>5

LEMMA BufWithProperties ==
    ASSUME recBuf \in [Sn -> Buf], NEW p \in AirSeg
    PROVE  /\ BufWith(p) \in Buf /\ BufWith(p) # NoBuf
           /\ BufWith(p).segs = recBuf[p.sn].segs
                                    \union {[so |-> p.so, end |-> p.end, rnd |-> p.rnd]}
           /\ recBuf[p.sn] = NoBuf /\ BufWith(p).allSegRcvd => WholeSeg(p)
<1> DEFINE b == recBuf[p.sn]
           new == [so |-> p.so, end |-> p.end, rnd |-> p.rnd]
           segs == b.segs \union {new}
<1>1. p.sn \in Sn /\ p.so \in 0 .. LastByte /\ p.end \in 0 .. LastByte /\ p.rnd \in Rnd
  BY DEF AirSeg
<1>2. b \in Buf /\ b.segs \in SUBSET Seg /\ new \in Seg
  BY <1>1 DEF Buf, Seg
<1>3. segs \in SUBSET Seg /\ new \in segs
  BY <1>2
<1>4. FirstGap(segs) \in 0 .. SduLen
  BY <1>3, FirstGapProperties
<1>5. BufWith(p) = IF p.so # b.expSo THEN [b EXCEPT !.segs = segs]
                   ELSE [segs |-> segs, expSo |-> FirstGap(segs),
                         allSegRcvd |-> FirstGap(segs) = SduLen,
                         noMissingSeg |-> \A s \in segs : s.so < FirstGap(segs)]
  BY DEF BufWith
<1>6. new.so = p.so /\ new.end = p.end
  OBVIOUS
<1> HIDE DEF b, segs, new
<1>7. CASE p.so # b.expSo
  <2>1. BufWith(p) = [b EXCEPT !.segs = segs]
    BY <1>5, <1>7
  <2>2. BufWith(p) \in Buf /\ BufWith(p).segs = segs /\ BufWith(p).allSegRcvd = b.allSegRcvd
    BY <1>2, <1>3, <2>1 DEF Buf
  <2>3. BufWith(p).segs # NoBuf.segs
    BY <1>3, <2>2, NoBufIsBuf
  <2>4. b = NoBuf => ~b.allSegRcvd
    BY NoBufIsBuf
  <2>5. QED
    BY <2>2, <2>3, <2>4 DEF b, segs, new
<1>8. CASE p.so = b.expSo
  <2> DEFINE all == FirstGap(segs) = SduLen
             none == \A s \in segs : s.so < FirstGap(segs)
             r == [segs |-> segs, expSo |-> FirstGap(segs), allSegRcvd |-> all, noMissingSeg |-> none]
  <2>1. BufWith(p) = r
    BY <1>5, <1>8
  <2>2. all \in BOOLEAN /\ none \in BOOLEAN
    OBVIOUS
  <2> HIDE DEF all, none
  <2>3. r \in Buf /\ r.segs = segs /\ (r.allSegRcvd <=> all)
    BY <1>3, <1>4, <2>2 DEF Buf
  <2> HIDE DEF r
  <2>4. BufWith(p).segs # NoBuf.segs
    BY <1>3, <2>1, <2>3, NoBufIsBuf
  <2>5. ASSUME b = NoBuf, all
        PROVE  WholeSeg(p)
    <3>1. segs = {new}
      BY <2>5, NoBufIsBuf DEF segs
    <3>2. \A k \in 0 .. LastByte : k \in new.so .. new.end
      BY <1>3, <2>5, <3>1, FirstGapProperties DEF all
    <3>3. 0 \in 0 .. LastByte /\ LastByte \in 0 .. LastByte
      BY SduLenAssumption DEF LastByte
    <3>4. 0 \in p.so .. p.end /\ LastByte \in p.so .. p.end
      BY <1>6, <3>2, <3>3
    <3>5. QED
      BY <1>1, <3>3, <3>4, SduLenAssumption DEF WholeSeg, LastByte
  <2>6. QED
    BY <2>1, <2>3, <2>4, <2>5 DEF b, segs, new
<1>9. QED
  BY <1>7, <1>8

-----------------------------------------------------------------------------
(* The receiver *)

Here == [ur |-> vrUr, uh |-> vrUh, buf |-> recBuf]

\* The timer, if it runs, waits for sequence numbers up to vrUh.
UlInv ==
    /\ Window(Here)
    /\ vrUx \in Sn /\ reAsmblTmr \in BOOLEAN
    /\ reAsmblTmr => Value(vrUx, vrUh) <= WinSz

\* The window when the PDU has been placed, and when it has been processed.
Stored(p) == IF BufWith(p).allSegRcvd THEN [BufWith(p) EXCEPT !.segs = {}] ELSE BufWith(p)
WithPdu(p) == [ur |-> vrUr, uh |-> vrUh, buf |-> [recBuf EXCEPT ![p.sn] = Stored(p)]]
Moved(p) ==
    IF BufWith(p).allSegRcvd
    THEN IF p.sn = vrUr THEN FindRxNextReassembly(WithPdu(p), AddSn(vrUr, 1)) ELSE WithPdu(p)
    ELSE IF InReassemblyWindow(p.sn, vrUh) THEN WithPdu(p) ELSE Shifted(WithPdu(p), p.sn)

LEMMA RcvSegEffect ==
    ASSUME NEW p, RcvSeg(p), Placed(p)
    PROVE  /\ SetWindow(Moved(p))
           /\ LET runs == reAsmblTmr /\ ~TmrOvertaken(Moved(p))
                  starts == ~runs /\ HoleBelow(Moved(p), Moved(p).buf[p.sn])
              IN  /\ reAsmblTmr' = (runs \/ starts)
                  /\ vrUx' = IF starts THEN Moved(p).uh ELSE vrUx
  BY DEF RcvSeg, Moved, WithPdu, Stored

LEMMA HereProperties ==
    ASSUME Window(Here)
    PROVE  /\ vrUr \in Sn /\ vrUh \in Sn /\ recBuf \in [Sn -> Buf]
           /\ Value(vrUr, vrUh) <= WinSz
           /\ \A sn \in Sn : recBuf[sn] # NoBuf =>
                Value(vrUr, vrUh) <= Value(sn, vrUh) /\ Value(sn, vrUh) < WinSz
  BY DEF Window, WindowBut, Here

LEMMA StoredProperties ==
    ASSUME Window(Here), NEW p \in AirSeg
    PROVE  /\ Stored(p) \in Buf /\ WithPdu(p).buf \in [Sn -> Buf]
           /\ WithPdu(p).buf[p.sn] = Stored(p)
           /\ \A x \in Sn \ {p.sn} : WithPdu(p).buf[x] = recBuf[x]
           /\ Stored(p).segs = IF BufWith(p).allSegRcvd THEN {} ELSE BufWith(p).segs
           /\ Stored(p).allSegRcvd = BufWith(p).allSegRcvd
<1>1. BufWith(p) \in Buf /\ recBuf \in [Sn -> Buf] /\ p.sn \in Sn
  BY HereProperties, BufWithProperties DEF AirSeg
<1>2. /\ [BufWith(p) EXCEPT !.segs = {}] \in Buf
      /\ [BufWith(p) EXCEPT !.segs = {}].segs = {}
      /\ [BufWith(p) EXCEPT !.segs = {}].allSegRcvd = BufWith(p).allSegRcvd
  BY <1>1 DEF Buf
<1>3. /\ Stored(p) \in Buf
      /\ Stored(p).segs = IF BufWith(p).allSegRcvd THEN {} ELSE BufWith(p).segs
      /\ Stored(p).allSegRcvd = BufWith(p).allSegRcvd
  BY <1>1, <1>2 DEF Stored
<1>4. WithPdu(p).buf = [recBuf EXCEPT ![p.sn] = Stored(p)]
  BY DEF WithPdu
<1>5. QED
  BY <1>1, <1>3, <1>4

\* The PDU that is placed leaves a window, and discards only what vrUr passes.
LEMMA MovedProperties ==
    ASSUME Window(Here), NEW p \in AirSeg, ~WholeSeg(p), Placed(p)
    PROVE  /\ Window(Moved(p)) /\ Keeps(WithPdu(p), Moved(p))
           /\ \/ Moved(p).uh = vrUh
              \/ Moved(p).uh = AddSn(p.sn, 1) /\ Value(p.sn, vrUh) >= WinSz
<1> DEFINE buf == [recBuf EXCEPT ![p.sn] = Stored(p)]
           w == [ur |-> vrUr, uh |-> vrUh, buf |-> buf]
<1>1. /\ vrUr \in Sn /\ vrUh \in Sn /\ p.sn \in Sn
      /\ Value(vrUr, vrUh) <= WinSz /\ Value(p.sn, vrUh) >= Value(vrUr, vrUh)
      /\ Value(vrUr, vrUh) \in Int /\ Value(p.sn, vrUh) \in Int
      /\ Value(p.sn, vrUh) < WinSz <=> InReassemblyWindow(p.sn, vrUh)
  <2>1. /\ vrUr \in Sn /\ vrUh \in Sn /\ p.sn \in Sn
        /\ Value(vrUr, vrUh) <= WinSz /\ Value(p.sn, vrUh) >= Value(vrUr, vrUh)
    BY HereProperties DEF AirSeg, Placed
  <2>2. /\ Value(vrUr, vrUh) \in Sn /\ Value(p.sn, vrUh) \in Sn
        /\ Value(p.sn, vrUh) < WinSz <=> InReassemblyWindow(p.sn, vrUh)
    BY <2>1, ValueProperties
  <2>3. \A k \in Sn : k \in Int
    BY DEF Sn
  <2>4. QED
    BY <2>1, <2>2, <2>3
<1>2. WithPdu(p) = w /\ buf \in [Sn -> Buf] /\ \A x \in Sn \ {p.sn} : buf[x] = recBuf[x]
  BY StoredProperties DEF WithPdu
<1> HIDE DEF buf
<1>3. WindowBut(w, {p.sn})
  BY <1>1, <1>2, HereProperties DEF WindowBut
<1>4. ASSUME InReassemblyWindow(p.sn, vrUh)
      PROVE  Window(w)
  BY <1>1, <1>3, <1>4 DEF Window, WindowBut
<1>5. Keeps(w, w)
  BY DEF Keeps, KeepsSn
<1>6. w.uh = vrUh /\ w.buf = buf /\ w.ur = vrUr
  OBVIOUS
<1>7. CASE BufWith(p).allSegRcvd
  <2>1. recBuf[p.sn] # NoBuf
    BY <1>7, BufWithProperties, HereProperties
  <2>2. InReassemblyWindow(p.sn, vrUh) /\ Value(p.sn, vrUh) < WinSz
    BY <1>1, <2>1, HereProperties
  <2>3. CASE p.sn # vrUr
    BY <1>2, <1>4, <1>5, <1>7, <2>2, <2>3 DEF Moved
  <2>4. CASE p.sn = vrUr
    <3> DEFINE next == AddSn(vrUr, 1)
               a == FindRxNextReassembly(w, next)
    <3>1. Moved(p) = a
      BY <1>2, <1>7, <2>4 DEF Moved
    <3>2. next \in Sn /\ Value(next, vrUh) = Value(vrUr, vrUh) + 1 /\ Value(next, vrUh) <= WinSz
      <4>1. Value(next, vrUh) = Value(vrUr, vrUh) + 1
        BY <1>1, <2>2, <2>4, ValueSteps
      <4>2. next \in Sn
        BY <1>1, ValueProperties
      <4> HIDE DEF next
      <4>3. QED
        BY <1>1, <2>2, <2>4, <4>1, <4>2, WinSzAssumption
    <3>3. {vrUr + j : j \in 0 .. Value(next, vrUh) - Value(vrUr, vrUh) - 1} \subseteq Sn
      <4>1. \A j \in 0 .. 0 : vrUr + j = vrUr
        BY <1>1 DEF Sn
      <4>2. Value(vrUr, vrUh) + 1 - Value(vrUr, vrUh) - 1 = 0
        BY <1>1
      <4>3. QED
        BY <1>1, <3>2, <4>1, <4>2
    <3>4. /\ Window(a) /\ a.uh = vrUh
          /\ \A x \in Sn : a.buf[x] \in {buf[x], NoBuf} /\ KeepsSn(w, a, x)
      BY <1>4, <2>2, <3>2, <3>3, FindKeeps
    <3> HIDE DEF a
    <3>5. Keeps(w, a)
      BY <1>6, <3>4 DEF Keeps
    <3>6. QED
      BY <1>2, <3>1, <3>4, <3>5
  <2>5. QED
    BY <2>3, <2>4
<1>8. CASE ~BufWith(p).allSegRcvd /\ InReassemblyWindow(p.sn, vrUh)
  BY <1>2, <1>4, <1>5, <1>8 DEF Moved
<1>9. CASE ~BufWith(p).allSegRcvd /\ ~InReassemblyWindow(p.sn, vrUh)
  <2>1. Value(p.sn, vrUh) >= WinSz
    BY <1>1, <1>9, WinSzAssumption
  <2>2. Moved(p) = Shifted(w, p.sn)
    BY <1>2, <1>9 DEF Moved
  <2>3. LET s == Shifted(w, p.sn)
        IN  Window(s) /\ s.uh = AddSn(p.sn, 1) /\ Keeps(w, s)
    BY <1>1, <1>3, <2>1, ShiftedProperties
  <2>4. QED
    BY <1>2, <2>1, <2>2, <2>3
<1>10. QED
  BY <1>7, <1>8, <1>9


\* With more than one sequence number missing below vrUh, the condition to
\* start the timer holds.
LEMMA HoleStarts ==
    ASSUME NEW w, Window(w), NEW b, ModSn(w.uh, w.ur) > 1
    PROVE  HoleBelow(w, b)
<1>1. w.ur \in Sn /\ w.uh \in Sn /\ Value(w.ur, w.uh) <= WinSz
  BY DEF Window, WindowBut
<1>2. /\ ModSn(w.uh, w.ur) = WinSz - Value(w.ur, w.uh)
      /\ Value(w.ur, w.uh) < WinSz => Value(AddSn(w.ur, 1), w.uh) = Value(w.ur, w.uh) + 1
  BY <1>1, ValueSteps
<1>3. Value(w.uh, w.uh) = WinSz /\ Value(w.ur, w.uh) \in Sn
  BY <1>1, ValueProperties
<1>4. Value(w.ur, w.uh) \in Int /\ WinSz \in Int
  BY <1>3, WinSzAssumption DEF Sn
<1>5. Value(w.ur, w.uh) + 1 < WinSz
  BY <1>2, <1>4
<1>6. Value(w.uh, w.uh) > Value(AddSn(w.ur, 1), w.uh)
  BY <1>2, <1>3, <1>4, <1>5
<1>7. QED
  BY <1>6 DEF HoleBelow

\* A window that a step leaves, with the timer as the step sets it.
LEMMA TimedWindow ==
    ASSUME NEW w, NEW b, NEW runs \in BOOLEAN, Window(w), SetWindow(w),
           vrUx \in Sn, runs => Value(vrUx, w.uh) <= WinSz,
           reAsmblTmr' = (runs \/ (~runs /\ HoleBelow(w, b))),
           vrUx' = IF ~runs /\ HoleBelow(w, b) THEN w.uh ELSE vrUx
    PROVE  UlInv' /\ HoleIsTimed'
<1>1. vrUr' = w.ur /\ vrUh' = w.uh /\ recBuf' = w.buf
  BY DEF SetWindow
<1>2. Window(Here)'
  BY <1>1 DEF Window, WindowBut, Here
<1>3. w.uh \in Sn /\ Value(w.uh, w.uh) = WinSz /\ WinSz <= WinSz
  BY ValueProperties, WinSzAssumption DEF Window, WindowBut
<1>4. vrUx' \in Sn /\ reAsmblTmr' \in BOOLEAN
  BY <1>3 DEF HoleBelow
<1>5. reAsmblTmr' => Value(vrUx', w.uh) <= WinSz
  BY <1>3
<1>6. (reAsmblTmr => Value(vrUx, vrUh) <= WinSz)'
  BY <1>1, <1>5 DEF Value
<1>7. ModSn(w.uh, w.ur) > 1 => reAsmblTmr'
  BY HoleStarts
<1>8. HoleIsTimed'
  BY <1>1, <1>7 DEF HoleIsTimed, ModSn
<1>9. QED
  BY <1>2, <1>4, <1>6, <1>8 DEF UlInv

LEMMA RcvSegKeepsUlInv ==
    ASSUME UlInv, HoleIsTimed, NEW p \in AirSeg, ~WholeSeg(p), RcvSeg(p)
    PROVE  UlInv' /\ HoleIsTimed'
<1>1. CASE Placed(p)
  <2> DEFINE m == Moved(p)
             runs == reAsmblTmr /\ ~TmrOvertaken(m)
  <2>1. /\ SetWindow(m)
        /\ reAsmblTmr' = (runs \/ (~runs /\ HoleBelow(m, m.buf[p.sn])))
        /\ vrUx' = IF ~runs /\ HoleBelow(m, m.buf[p.sn]) THEN m.uh ELSE vrUx
    BY <1>1, RcvSegEffect
  <2>2. Window(m) /\ vrUx \in Sn /\ runs \in BOOLEAN
    BY <1>1, MovedProperties DEF UlInv
  <2>3. m.uh \in Sn
    BY <2>2 DEF Window, WindowBut
  <2>4. runs => InReassemblyWindow(vrUx, m.uh) \/ vrUx = m.uh
    BY DEF TmrOvertaken
  <2> HIDE DEF m, runs
  <2>5. /\ Value(vrUx, m.uh) \in Sn /\ Value(m.uh, m.uh) = WinSz
        /\ InReassemblyWindow(vrUx, m.uh) => Value(vrUx, m.uh) < WinSz
    BY <2>2, <2>3, ValueProperties
  <2>6. runs => Value(vrUx, m.uh) <= WinSz
    BY <2>4, <2>5, WinSzAssumption DEF Sn
  <2>7. QED
    BY <2>1, <2>2, <2>6, TimedWindow
<1>2. CASE ~Placed(p)
  BY <1>2 DEF RcvSeg, umUlVars, UlInv, HoleIsTimed, Window, WindowBut, Here, Value
<1>3. QED
  BY <1>1, <1>2

\* The expiry, with the sequence numbers that it skips not across the
\* wrap-around.
LEMMA ExpireProperties ==
    ASSUME UlInv, ReAsmblTmrExp, Skipped \subseteq Sn
    PROVE  LET a == FindRxNextReassembly(Here, vrUx)
           IN  /\ Window(a) /\ a.uh = vrUh /\ SetWindow(a)
               /\ \A x \in Sn : a.buf[x] \in {recBuf[x], NoBuf} /\ KeepsSn(Here, a, x)
<1>1. /\ Window([ur |-> vrUr, uh |-> vrUh, buf |-> recBuf])
      /\ vrUx \in Sn /\ Value(vrUx, vrUh) <= WinSz
  BY DEF UlInv, Here, ReAsmblTmrExp
<1>2. {vrUr + j : j \in 0 .. Value(vrUx, vrUh) - Value(vrUr, vrUh) - 1} \subseteq Sn
  BY DEF Skipped
<1>3. SetWindow(FindRxNextReassembly([ur |-> vrUr, uh |-> vrUh, buf |-> recBuf], vrUx))
  BY DEF ReAsmblTmrExp
<1>4. QED
  BY <1>1, <1>2, <1>3, FindKeeps DEF Here

LEMMA ExpireKeepsUlInv ==
    ASSUME UlInv, ReAsmblTmrExp, Skipped \subseteq Sn
    PROVE  UlInv' /\ HoleIsTimed'
<1> DEFINE a == FindRxNextReassembly(Here, vrUx)
<1>1. Window(a) /\ a.uh = vrUh /\ SetWindow(a)
  BY ExpireProperties
<1>2. /\ reAsmblTmr' = (FALSE \/ (~FALSE /\ HoleBelow(a, a.buf[a.ur])))
      /\ vrUx' = IF ~FALSE /\ HoleBelow(a, a.buf[a.ur]) THEN a.uh ELSE vrUx
  BY <1>1 DEF ReAsmblTmrExp, Here, HoleBelow
<1>3. vrUx \in Sn /\ (FALSE => Value(vrUx, a.uh) <= WinSz)
  BY DEF UlInv
<1> HIDE DEF a
<1>4. QED
  BY <1>1, <1>2, <1>3, TimedWindow

LEMMA UlReEstablishKeepsUlInv ==
    ASSUME UlInv, UlReEstablish
    PROVE  UlInv' /\ HoleIsTimed' /\ recBuf' = [sn \in Sn |-> NoBuf]
<1>1. /\ recBuf \in [Sn -> Buf] /\ vrUh \in Sn /\ vrUr \in Sn
      /\ \A sn \in Sn : recBuf[sn] # NoBuf =>
            Value(vrUr, vrUh) <= Value(sn, vrUh) /\ Value(sn, vrUh) < WinSz
  BY HereProperties DEF UlInv
<1>2. \A sn \in Sn : Value(sn, vrUh) \in Int
  BY <1>1, ValueProperties DEF Sn
<1>3. \A sn \in Sn : recBuf[sn] # NoBuf => Value(sn, vrUh) \in Value(vrUr, vrUh) .. WinSz - 1
  BY <1>1, <1>2, WinSzAssumption
<1>4. recBuf' = [sn \in Sn |-> NoBuf]
  BY <1>3 DEF UlReEstablish, Deleted
<1>5. vrUr' = 0 /\ vrUh' = 0 /\ vrUx' = 0 /\ reAsmblTmr' = FALSE
  BY DEF UlReEstablish
<1>6. 0 \in Sn /\ Value(0, 0) = WinSz /\ WinSz <= WinSz /\ ModSn(0, 0) = 0
  BY WinSzAssumption, SMT DEF Sn, SnMod, Value, AddSn, ModSn
<1>7. Window(Here)'
  BY <1>4, <1>5, <1>6, NoBufIsBuf DEF Window, WindowBut, Here
<1>8. ~(ModSn(vrUh, vrUr) > 1)'
  BY <1>5, <1>6, SMT DEF ModSn
<1>9. UlInv'
  BY <1>5, <1>6, <1>7 DEF UlInv
<1>10. QED
  BY <1>4, <1>8, <1>9 DEF HoleIsTimed

-----------------------------------------------------------------------------
(* The channel between the two halves *)

\* Of which SDU the sequence number sn was last, when txNext is the next one.
RndOf(sn) == IF sn <= txNext THEN rnd ELSE 1 - rnd

LinkTypes ==
    /\ txNext \in Sn /\ segOff \in 0 .. LastByte /\ sduQ \in 0 .. MaxQ
    /\ rnd \in Rnd /\ bad \in BOOLEAN /\ owed \subseteq Sn \X Rnd

\* The receiver is at most WinSz SDUs behind the transmitter, and ahead of it
\* only by the SDU of which a part has been sent.
Near ==
    \/ ModSn(txNext, vrUh) <= WinSz /\ (ModSn(txNext, vrUh) = WinSz => segOff = 0)
    \/ vrUh = AddSn(txNext, 1) /\ segOff > 0

\* What is in the air is of one of the last WinSz SDUs.
Recent(p) ==
    /\ p \in AirSeg /\ ~WholeSeg(p) /\ p.rnd = RndOf(p.sn)
    /\ ModSn(txNext, p.sn) <= WinSz
    /\ ModSn(txNext, p.sn) = WinSz => segOff = 0
    /\ ModSn(txNext, p.sn) = 0 => segOff > 0
AirInv == \A p \in air : Recent(p)

\* What is in the buffers is of the last SDU with that sequence number.
BufRnd(sn) == IF sn = txNext /\ segOff = 0 THEN 1 - rnd ELSE RndOf(sn)
BufInv == \A sn \in Sn : \A s \in recBuf[sn].segs : s.rnd = BufRnd(sn)

\* An SDU of which something is in the air is owed, or the receiver is done
\* with its sequence number.
Settled(p) ==
    \/ <<p.sn, p.rnd>> \in owed
    \/ recBuf[p.sn].allSegRcvd
    \/ Value(p.sn, vrUh) < Value(vrUr, vrUh)
OwedInv == \A p \in air : Settled(p)

UmInv == UlInv /\ HoleIsTimed /\ LinkTypes /\ Near /\ AirInv /\ BufInv /\ OwedInv /\ ~bad

\* What is in the air does not fall below the window when it moves up for
\* something else that was.
LEMMA AirStaysAbove ==
    ASSUME NEW t \in Sn, NEW uh \in Sn, NEW x \in Sn, NEW y \in Sn, NEW started \in BOOLEAN,
           \/ ModSn(t, uh) <= WinSz /\ (ModSn(t, uh) = WinSz => ~started)
           \/ uh = AddSn(t, 1) /\ started,
           ModSn(t, x) <= WinSz, ModSn(t, x) = WinSz => ~started, ModSn(t, x) = 0 => started,
           ModSn(t, y) <= WinSz, ModSn(t, y) = WinSz => ~started, ModSn(t, y) = 0 => started,
           Value(x, uh) >= WinSz
    PROVE  Value(y, uh) >= ModSn(AddSn(x, 1), uh)
<1>1. CASE started
  <2>1. ModSn(t, x) < WinSz /\ ModSn(t, y) < WinSz
    BY <1>1, WinSzAssumption, SMT DEF Sn, SnMod, ModSn
  <2>2. CASE ModSn(t, uh) < WinSz
    BY <2>1, <2>2, WinSzAssumption, SMT DEF Value, Sn, SnMod, AddSn, ModSn
  <2>3. CASE uh = AddSn(t, 1)
    BY <2>1, <2>3, WinSzAssumption, SMT DEF Value, Sn, SnMod, AddSn, ModSn
  <2>4. QED
    BY <1>1, <2>2, <2>3, WinSzAssumption, SMT DEF Sn, SnMod, ModSn
<1>2. CASE ~started
  BY <1>2, WinSzAssumption, SMT DEF Value, Sn, SnMod, AddSn, ModSn
<1>3. QED
  BY <1>1, <1>2

-----------------------------------------------------------------------------
(* Receiving *)

\* Where the receiver moves keeps what it was done with; not for the SDU that
\* is placed just now.
LEMMA MovedSettles ==
    ASSUME UmInv, NEW p \in air, Placed(p), NEW q \in air
    PROVE  /\ Value(q.sn, vrUh) >= ModSn(Moved(p).uh, vrUh)
           /\ KeepsSn(WithPdu(p), Moved(p), q.sn)
<1>1. /\ p \in AirSeg /\ q \in AirSeg /\ ~WholeSeg(p) /\ p.sn \in Sn /\ q.sn \in Sn
      /\ Recent(p) /\ Recent(q) /\ Window(Here)
  BY DEF UmInv, UlInv, AirInv, Recent, AirSeg
<1>2. /\ Keeps(WithPdu(p), Moved(p))
      /\ \/ Moved(p).uh = vrUh
         \/ Moved(p).uh = AddSn(p.sn, 1) /\ Value(p.sn, vrUh) >= WinSz
  BY <1>1, MovedProperties
<1>3. vrUh \in Sn /\ txNext \in Sn /\ segOff \in 0 .. LastByte
  BY <1>1, HereProperties DEF UmInv, LinkTypes
<1>4. Value(q.sn, vrUh) >= ModSn(Moved(p).uh, vrUh)
  <2>1. CASE Moved(p).uh = vrUh
    <3>1. ModSn(vrUh, vrUh) = 0 /\ Value(q.sn, vrUh) \in Sn
      BY <1>1, <1>3, ModSnType, ValueProperties
    <3>2. \A k \in Sn : k >= 0
      BY DEF Sn
    <3>3. QED
      BY <2>1, <3>1, <3>2
  <2>2. CASE Moved(p).uh = AddSn(p.sn, 1) /\ Value(p.sn, vrUh) >= WinSz
    <3> DEFINE started == segOff > 0
    <3>1. started \in BOOLEAN /\ (segOff = 0 => ~started)
      BY <1>3
    <3>2. /\ \/ ModSn(txNext, vrUh) <= WinSz /\ (ModSn(txNext, vrUh) = WinSz => ~started)
             \/ vrUh = AddSn(txNext, 1) /\ started
          /\ ModSn(txNext, p.sn) <= WinSz /\ (ModSn(txNext, p.sn) = WinSz => ~started)
          /\ ModSn(txNext, p.sn) = 0 => started
          /\ ModSn(txNext, q.sn) <= WinSz /\ (ModSn(txNext, q.sn) = WinSz => ~started)
          /\ ModSn(txNext, q.sn) = 0 => started
      BY <1>1, <3>1 DEF UmInv, Near, Recent
    <3> HIDE DEF started
    <3>3. Value(q.sn, vrUh) >= ModSn(AddSn(p.sn, 1), vrUh)
      BY <1>1, <1>3, <2>2, <3>1, <3>2, AirStaysAbove
    <3>4. QED
      BY <2>2, <3>3
  <2>3. QED
    BY <1>2, <2>1, <2>2
<1>5. WithPdu(p).uh = vrUh
  BY DEF WithPdu
<1>6. QED
  BY <1>1, <1>2, <1>4, <1>5 DEF Keeps

\* Everything handed up is of the SDU that the arriving segment is of, and that
\* one is owed.
LEMMA HandedUp ==
    ASSUME UmInv, NEW p \in air
    PROVE  /\ \A s \in SduInd(p) : s.rnd = p.rnd
           /\ SduInd(p) # {} => <<p.sn, p.rnd>> \in owed
<1>1. p \in AirSeg /\ p.sn \in Sn /\ recBuf \in [Sn -> Buf] /\ Recent(p) /\ Settled(p)
  BY HereProperties DEF UmInv, UlInv, AirInv, OwedInv, Recent, AirSeg
<1>2. BufWith(p).segs = recBuf[p.sn].segs \union {[so |-> p.so, end |-> p.end, rnd |-> p.rnd]}
  BY <1>1, BufWithProperties
<1>3. BufRnd(p.sn) = p.rnd
  BY <1>1, ModSnType DEF Recent, BufRnd, UmInv, LinkTypes
<1>4. \A s \in recBuf[p.sn].segs : s.rnd = p.rnd
  BY <1>1, <1>3 DEF UmInv, BufInv
<1>5. \A s \in BufWith(p).segs : s.rnd = p.rnd
  BY <1>2, <1>4
<1>6. SduInd(p) # {} => Placed(p)
  BY DEF SduInd
<1>7. ASSUME Placed(p)
      PROVE  <<p.sn, p.rnd>> \in owed
  <2>1. ~recBuf[p.sn].allSegRcvd
    BY <1>7 DEF Placed, Accepts
  <2>2. Value(p.sn, vrUh) >= Value(vrUr, vrUh)
    BY <1>7 DEF Placed
  <2>3. Value(p.sn, vrUh) \in Sn /\ Value(vrUr, vrUh) \in Sn
    BY <1>1, HereProperties, ValueProperties DEF UmInv, UlInv
  <2>4. ~(Value(p.sn, vrUh) < Value(vrUr, vrUh))
    BY <2>2, <2>3 DEF Sn
  <2>5. QED
    BY <1>1, <2>1, <2>4 DEF Settled
<1>8. QED
  BY <1>5, <1>6, <1>7 DEF SduInd

\* The buffers when the PDU has been processed hold segments of the same SDUs,
\* and the one that has just arrived.
LEMMA MovedBufs ==
    ASSUME UmInv, NEW p \in air, Placed(p), NEW x \in Sn, NEW s \in Moved(p).buf[x].segs
    PROVE  s.rnd = BufRnd(x)
<1>1. /\ p \in AirSeg /\ ~WholeSeg(p) /\ p.sn \in Sn /\ Recent(p) /\ Window(Here)
      /\ recBuf \in [Sn -> Buf]
  BY HereProperties DEF UmInv, UlInv, AirInv, Recent, AirSeg
<1>2. Moved(p).buf[x] \in {WithPdu(p).buf[x], NoBuf}
  BY <1>1, MovedProperties DEF Keeps
<1>3. s \in WithPdu(p).buf[x].segs
  BY <1>2, NoBufIsBuf
<1>4. CASE x = p.sn
  <2>1. s \in BufWith(p).segs
    BY <1>1, <1>3, <1>4, StoredProperties
  <2>2. BufWith(p).segs = recBuf[p.sn].segs \union {[so |-> p.so, end |-> p.end, rnd |-> p.rnd]}
    BY <1>1, BufWithProperties
  <2>3. BufRnd(p.sn) = p.rnd
    BY <1>1, ModSnType DEF Recent, BufRnd, UmInv, LinkTypes
  <2>4. \A r \in recBuf[p.sn].segs : r.rnd = p.rnd
    BY <1>1, <2>3 DEF UmInv, BufInv
  <2>5. QED
    BY <1>4, <2>1, <2>2, <2>3, <2>4
<1>5. CASE x # p.sn
  BY <1>1, <1>3, <1>5, StoredProperties DEF UmInv, BufInv
<1>6. QED
  BY <1>4, <1>5

Got(p) == {<<p.sn, s.rnd>> : s \in SduInd(p)}

LEMMA ReceiveKeepsUmInv ==
    ASSUME UmInv, NEW p \in air, Receive(p)
    PROVE  UmInv'
<1>1. /\ RcvSeg(p) /\ air' = air \ {p}
      /\ bad' = (bad \/ Cardinality(Got(p)) > 1 \/ ~(Got(p) \subseteq owed))
      /\ owed' = owed \ Got(p)
      /\ txNext' = txNext /\ segOff' = segOff /\ sduQ' = sduQ /\ rnd' = rnd
  BY DEF Receive, Got, umDlVars
<1>2. /\ p \in AirSeg /\ ~WholeSeg(p) /\ p.sn \in Sn /\ Recent(p) /\ Window(Here)
      /\ LinkTypes
  BY DEF UmInv, UlInv, AirInv, Recent, AirSeg
<1>3. UlInv' /\ HoleIsTimed'
  BY <1>1, <1>2, RcvSegKeepsUlInv DEF UmInv
<1>4. ~bad'
  <2>1. Got(p) \subseteq {<<p.sn, p.rnd>>}
    BY HandedUp DEF Got
  <2>2. Got(p) \subseteq owed
    BY <2>1, HandedUp DEF Got
  <2>3. Cardinality(Got(p)) <= 1
    <3>1. CASE Got(p) = {}
      BY <3>1, FS_EmptySet
    <3>2. CASE Got(p) = {<<p.sn, p.rnd>>}
      <4>1. Cardinality({<<p.sn, p.rnd>>}) = 1
        BY FS_Singleton
      <4>2. QED
        BY <3>2, <4>1
    <3>3. QED
      BY <2>1, <3>1, <3>2
  <2>4. Cardinality(Got(p)) \in Nat
    <3>1. IsFiniteSet({<<p.sn, p.rnd>>})
      BY FS_Singleton
    <3>2. QED
      BY <2>1, <3>1, FS_Subset, FS_CardinalityType
  <2>5. ~(Cardinality(Got(p)) > 1)
    BY <2>3, <2>4
  <2>6. QED
    BY <1>1, <2>2, <2>5 DEF UmInv
<1>5. LinkTypes'
  BY <1>1, <1>2 DEF LinkTypes
<1>6. \A x \in Sn : RndOf(x)' = RndOf(x) /\ BufRnd(x)' = BufRnd(x)
  BY <1>1 DEF RndOf, BufRnd
<1>7. AirInv'
  BY <1>1, <1>6 DEF UmInv, AirInv, Recent, RndOf, ModSn
<1>8. CASE ~Placed(p)
  <2>1. /\ UNCHANGED umUlVars /\ SduInd(p) = {}
    BY <1>1, <1>8 DEF RcvSeg, SduInd
  <2>2. Got(p) = {}
    BY <2>1 DEF Got
  <2>3. Near'
    BY <1>1, <2>1 DEF UmInv, Near, umUlVars, ModSn, AddSn
  <2>4. BufInv'
    BY <1>6, <2>1 DEF UmInv, BufInv, umUlVars
  <2>5. OwedInv'
    BY <1>1, <2>1, <2>2 DEF UmInv, OwedInv, Settled, umUlVars, Value, ModSn, AddSn
  <2>6. QED
    BY <1>3, <1>4, <1>5, <1>7, <2>3, <2>4, <2>5 DEF UmInv
<1>9. CASE Placed(p)
  <2> DEFINE m == Moved(p)
  <2>1. /\ vrUr' = m.ur /\ vrUh' = m.uh /\ recBuf' = m.buf
        /\ \/ m.uh = vrUh
           \/ m.uh = AddSn(p.sn, 1) /\ Value(p.sn, vrUh) >= WinSz
    BY <1>1, <1>2, <1>9, MovedProperties, RcvSegEffect DEF SetWindow
  <2>2. Near'
    <3>1. CASE m.uh = vrUh
      BY <1>1, <2>1, <3>1 DEF UmInv, Near, ModSn, AddSn
    <3>2. CASE m.uh = AddSn(p.sn, 1)
      <4>1. /\ txNext \in Sn /\ p.sn \in Sn /\ ModSn(txNext, p.sn) <= WinSz
            /\ ModSn(txNext, p.sn) = 0 => segOff > 0
        BY <1>2 DEF Recent, LinkTypes
      <4>2. CASE ModSn(txNext, p.sn) = 0
        <5>1. txNext = p.sn
          BY <4>1, <4>2, ModSnType
        <5>2. QED
          BY <1>1, <2>1, <3>2, <4>1, <4>2, <5>1 DEF Near, AddSn
      <4>3. CASE ModSn(txNext, p.sn) # 0
        <5>1. ModSn(txNext, AddSn(p.sn, 1)) < WinSz
          BY <4>1, <4>3, WinSzAssumption, SMT DEF Sn, SnMod, AddSn, ModSn
        <5>2. AddSn(p.sn, 1) \in Sn
          BY <4>1, ValueProperties
        <5>3. ModSn(txNext, AddSn(p.sn, 1)) \in Int
          BY <4>1, <5>2, ModSnType DEF Sn
        <5> DEFINE h == AddSn(p.sn, 1)
        <5>4. vrUh' = h /\ txNext' = txNext
          BY <1>1, <2>1, <3>2
        <5> HIDE DEF h, m
        <5>5. ModSn(txNext', vrUh') < WinSz /\ ModSn(txNext', vrUh') \in Int
          BY <5>1, <5>3, <5>4 DEF h
        <5>6. QED
          BY <5>5, WinSzAssumption DEF Near, ModSn
      <4>4. QED
        BY <4>2, <4>3
    <3>3. QED
      BY <2>1, <3>1, <3>2
  <2>3. BufInv'
    BY <1>6, <1>9, <2>1, MovedBufs DEF BufInv
  <2>4. ASSUME NEW q \in air, q # p
        PROVE  Settled(q)'
    <3>1. q.sn \in Sn /\ Settled(q)
      BY DEF UmInv, AirInv, OwedInv, Recent, AirSeg
    <3>2. KeepsSn(WithPdu(p), m, q.sn)
      BY <1>9, MovedSettles
    <3>3. WithPdu(p).uh = vrUh /\ WithPdu(p).ur = vrUr
      BY DEF WithPdu
    <3>4. /\ WithPdu(p).buf[p.sn].allSegRcvd = BufWith(p).allSegRcvd
          /\ q.sn # p.sn => WithPdu(p).buf[q.sn] = recBuf[q.sn]
      BY <1>2, <3>1, StoredProperties
    <3> HIDE DEF m
    <3>5. \/ <<q.sn, q.rnd>> \in owed'
          \/ WithPdu(p).buf[q.sn].allSegRcvd
          \/ Value(q.sn, vrUh) < Value(vrUr, vrUh)
      <4>1. CASE <<q.sn, q.rnd>> \in owed
        <5>1. Got(p) # {} => BufWith(p).allSegRcvd
          BY DEF Got, SduInd
        <5>2. <<q.sn, q.rnd>> \in Got(p) => q.sn = p.sn
          BY DEF Got
        <5>3. QED
          BY <1>1, <3>4, <4>1, <5>1, <5>2
      <4>2. CASE recBuf[q.sn].allSegRcvd
        <5>1. q.sn # p.sn
          BY <1>9, <4>2 DEF Placed, Accepts
        <5>2. QED
          BY <3>4, <4>2, <5>1
      <4>3. QED
        BY <3>1, <4>1, <4>2 DEF Settled
    <3>6. \/ <<q.sn, q.rnd>> \in owed'
          \/ m.buf[q.sn].allSegRcvd
          \/ Value(q.sn, m.uh) < Value(m.ur, m.uh)
      BY <3>2, <3>3, <3>5 DEF KeepsSn
    <3>7. QED
      BY <2>1, <3>6 DEF Settled, Value, ModSn, AddSn
  <2>5. OwedInv'
    BY <1>1, <2>4 DEF OwedInv
  <2>6. QED
    BY <1>3, <1>4, <1>5, <1>7, <2>2, <2>3, <2>5 DEF UmInv
<1>10. QED
  BY <1>8, <1>9

-----------------------------------------------------------------------------
(* Sending *)

LEMMA SegOfProperties ==
    ASSUME LinkTypes, NEW n \in 1 .. SduLen
    PROVE  LET s == SegOf(n) IN
           /\ s.sn = txNext /\ s.so = segOff /\ s.so \in 0 .. LastByte /\ s.end \in 0 .. LastByte
           /\ s.end # LastByte => s.end + 1 \in 1 .. LastByte
           /\ IsWhole(s) <=> segOff = 0 /\ s.end = LastByte
           /\ s.end = SduLen - 1 <=> s.end = LastByte
<1> DEFINE e == IF segOff + n > SduLen THEN SduLen - 1 ELSE segOff + n - 1
<1>1. segOff \in 0 .. LastByte
  BY DEF LinkTypes
<1>2. e \in 0 .. LastByte /\ (e # LastByte => e + 1 \in 1 .. LastByte) /\ (e = SduLen - 1 <=> e = LastByte)
  BY <1>1, SduLenAssumption DEF LastByte
<1>3. SegOf(n) = [sn |-> txNext, so |-> segOff, end |-> e]
  BY DEF SegOf
<1> HIDE DEF e
<1>4. QED
  BY <1>1, <1>2, <1>3 DEF IsWhole

\* What the next SDU finds in the buffer of its sequence number is nothing.
LEMMA NextIsUnused ==
    ASSUME UmInv, ModSn(txNext, vrUh) < WinSz
    PROVE  recBuf[txNext] = NoBuf
<1>1. /\ vrUh \in Sn /\ txNext \in Sn
      /\ \A sn \in Sn : recBuf[sn] # NoBuf => Value(sn, vrUh) < WinSz
  BY HereProperties DEF UmInv, UlInv, LinkTypes
<1>2. ~(Value(txNext, vrUh) < WinSz)
  BY <1>1, WinSzAssumption, SMT DEF Value, Sn, SnMod, AddSn, ModSn
<1>3. QED
  BY <1>1, <1>2

\* The sequence number that follows txNext
LEMMA NextSn ==
    ASSUME NEW t \in Sn
    PROVE  LET t2 == AddSn(t, 1) IN
           /\ t2 \in Sn /\ t2 # t /\ ModSn(t2, t) = 1 /\ ModSn(t2, t2) = 0
           /\ \A x \in Sn : ModSn(t, x) < WinSz => ModSn(t2, x) = ModSn(t, x) + 1 /\ x # t2
           /\ \A x \in Sn : x # t2 => IF t2 < t THEN x <= t /\ ~(x <= t2)
                                                ELSE x <= t2 <=> x <= t
           /\ IF t2 < t THEN t2 <= t ELSE ~(t2 <= t)
  BY WinSzAssumption, SMT DEF Sn, SnMod, AddSn, ModSn

\* What stays in the air, and stays owed.
LEMMA SentSettles ==
    ASSUME UmInv, NEW n \in 1 .. SduLen, Send(n), ~IsWhole(SegOf(n))
    PROVE  OwedInv'
<1> DEFINE s == SegOf(n)
           new == [sn |-> s.sn, so |-> s.so, end |-> s.end, rnd |-> rnd]
<1>1. /\ air' = {p \in air : ModSn(s.sn, p.sn) < WinSz} \union {new}
      /\ owed' = {o \in owed : ModSn(s.sn, o[1]) < WinSz} \union {<<s.sn, rnd>>}
      /\ vrUr' = vrUr /\ vrUh' = vrUh /\ recBuf' = recBuf
  BY DEF Send, OnAir, umUlVars
<1>2. new.sn = s.sn /\ new.rnd = rnd
  OBVIOUS
<1> HIDE DEF s, new
<1>3. ASSUME NEW p \in air'
      PROVE  Settled(p)'
  <2>1. CASE p = new
    BY <1>1, <1>2, <2>1 DEF Settled
  <2>2. CASE p \in air /\ ModSn(s.sn, p.sn) < WinSz
    <3>1. Settled(p)
      BY <2>2 DEF UmInv, OwedInv
    <3>2. CASE <<p.sn, p.rnd>> \in owed
      <4>1. <<p.sn, p.rnd>>[1] = p.sn
        OBVIOUS
      <4>2. <<p.sn, p.rnd>> \in owed'
        BY <1>1, <2>2, <3>2, <4>1
      <4>3. QED
        BY <4>2 DEF Settled
    <3>3. QED
      BY <1>1, <3>1, <3>2 DEF Settled, Value, ModSn, AddSn
  <2>3. QED
    BY <1>1, <2>1, <2>2
<1>4. QED
  BY <1>3 DEF OwedInv

\* What has been sent before stays recent, and the new segment is.
SentAsBefore(x) ==
    /\ RndOf(x)' = RndOf(x)
    /\ ModSn(txNext', x) <= WinSz
    /\ ModSn(txNext', x) = WinSz => segOff' = 0
    /\ ModSn(txNext', x) = 0 => segOff' > 0

LEMMA SentIsRecent ==
    ASSUME UmInv, NEW n \in 1 .. SduLen, Send(n), ~IsWhole(SegOf(n)),
           \A x \in Sn : ModSn(txNext, x) < WinSz => SentAsBefore(x)
    PROVE  AirInv'
<1> DEFINE s == SegOf(n)
           new == [sn |-> s.sn, so |-> s.so, end |-> s.end, rnd |-> rnd]
<1>1. air' = {p \in air : ModSn(s.sn, p.sn) < WinSz} \union {new}
  BY DEF Send, OnAir
<1>2. /\ s.sn = txNext /\ s.so \in 0 .. LastByte /\ s.end \in 0 .. LastByte
      /\ s.so = segOff
      /\ ~(segOff = 0 /\ s.end = LastByte) /\ rnd \in Rnd /\ txNext \in Sn
  BY SegOfProperties DEF UmInv, LinkTypes
<1>3. new \in AirSeg /\ ~WholeSeg(new) /\ new.sn = txNext /\ new.rnd = RndOf(txNext)
  <2>1. txNext <= txNext
    BY <1>2 DEF Sn
  <2>2. QED
    BY <1>2, <2>1 DEF AirSeg, WholeSeg, RndOf
<1>4. ModSn(txNext, txNext) < WinSz
  BY <1>2, ModSnType, WinSzAssumption
<1> HIDE DEF s, new
<1>5. ASSUME NEW p \in air'
      PROVE  p \in AirSeg /\ ~WholeSeg(p) /\ p.rnd = RndOf(p.sn) /\ ModSn(txNext, p.sn) < WinSz
  <2>1. CASE p = new
    BY <1>3, <1>4, <2>1
  <2>2. CASE p \in air /\ ModSn(s.sn, p.sn) < WinSz
    BY <1>2, <2>2 DEF UmInv, AirInv, Recent
  <2>3. QED
    BY <1>1, <2>1, <2>2
<1>6. ASSUME NEW p \in air'
      PROVE  Recent(p)'
  <2>1. p.sn \in Sn
    BY <1>5 DEF AirSeg
  <2>2. SentAsBefore(p.sn)
    BY <1>5, <2>1
  <2>3. QED
    BY <1>5, <2>2 DEF SentAsBefore, Recent, ModSn, RndOf
<1>7. QED
  BY <1>6 DEF AirInv

LEMMA SendKeepsUmInv ==
    ASSUME UmInv, NEW n \in 1 .. SduLen, Send(n)
    PROVE  UmInv'
<1> DEFINE s == SegOf(n)
<1>1. /\ sduQ > 0 /\ txNext' = TxNextAfter(s)
      /\ IF s.end = SduLen - 1
         THEN sduQ' = sduQ - 1 /\ segOff' = 0
         ELSE segOff' = s.end + 1 /\ sduQ' = sduQ
      /\ segOff = 0 => ModSn(txNext, vrUh) < WinSz
      /\ UNCHANGED <<umUlVars, bad>>
  BY SegOfProperties DEF Send, ProcessSdus, UmInv
<1>2. /\ s.sn = txNext /\ s.so = segOff /\ s.so \in 0 .. LastByte /\ s.end \in 0 .. LastByte
      /\ s.end # LastByte => s.end + 1 \in 1 .. LastByte
      /\ IsWhole(s) <=> segOff = 0 /\ s.end = LastByte
      /\ s.end = SduLen - 1 <=> s.end = LastByte
  BY SegOfProperties DEF UmInv
<1>3. LinkTypes /\ txNext \in Sn /\ vrUh \in Sn /\ segOff \in Nat /\ 0 \in 0 .. LastByte
  BY HereProperties, SduLenAssumption DEF UmInv, UlInv, LinkTypes, LastByte
<1>4. UlInv' /\ HoleIsTimed'
  BY <1>1 DEF UmInv, umUlVars, UlInv, HoleIsTimed, Window, WindowBut, Here, Value
<1>5. sduQ' \in 0 .. MaxQ
  BY <1>1, <1>3, MaxQAssumption DEF LinkTypes
<1> HIDE DEF s
<1>6. CASE IsWhole(s)
  <2>1. UNCHANGED <<air, owed, rnd>>
    BY <1>6 DEF Send, s
  <2>2. txNext' = txNext /\ segOff' = segOff
    BY <1>1, <1>2, <1>6 DEF TxNextAfter
  <2>3. LinkTypes'
    BY <1>1, <1>3, <1>5, <2>1, <2>2 DEF LinkTypes
  <2>4. \A x \in Sn : RndOf(x)' = RndOf(x) /\ BufRnd(x)' = BufRnd(x)
    BY <2>1, <2>2 DEF RndOf, BufRnd
  <2>5. AirInv'
    BY <2>1, <2>2 DEF UmInv, AirInv, Recent, RndOf, ModSn
  <2>6. Near'
    BY <1>1, <2>2 DEF UmInv, Near, umUlVars, ModSn, AddSn
  <2>7. BufInv'
    BY <1>1, <2>4 DEF UmInv, BufInv, umUlVars
  <2>8. OwedInv'
    BY <1>1, <2>1 DEF UmInv, OwedInv, Settled, umUlVars, Value, ModSn, AddSn
  <2>9. QED
    BY <1>1, <1>4, <2>3, <2>5, <2>6, <2>7, <2>8 DEF UmInv
<1>7. CASE ~IsWhole(s)
  <2>1. /\ rnd' = IF txNext' < txNext THEN 1 - rnd ELSE rnd
        /\ owed' = {o \in owed : ModSn(s.sn, o[1]) < WinSz} \union {<<s.sn, rnd>>}
    BY <1>7 DEF Send, s
  <2>2. OwedInv' /\ rnd' \in Rnd /\ owed' \subseteq Sn \X Rnd
    BY <1>2, <1>3, <1>7, <2>1, SentSettles, RlcUmAssumption DEF LinkTypes, s
  <2>3. CASE s.end # LastByte
    <3>1. txNext' = txNext /\ segOff' = s.end + 1 /\ segOff' \in 1 .. LastByte
      BY <1>1, <1>2, <2>3 DEF TxNextAfter
    <3>2. rnd' = rnd /\ segOff' > 0 /\ segOff' \in 0 .. LastByte
      BY <1>3, <2>1, <3>1 DEF Sn
    <3>3. LinkTypes'
      BY <1>1, <1>3, <1>5, <2>2, <3>1, <3>2 DEF LinkTypes
    <3>4. \A x \in Sn : RndOf(x)' = RndOf(x)
      BY <3>1, <3>2 DEF RndOf
    <3>5. AirInv'
      <4>1. \A x \in Sn : ModSn(txNext, x) < WinSz => SentAsBefore(x)
        <5>1. \A x \in Sn : ModSn(txNext, x) \in Int
          BY <1>3, ModSnType DEF Sn
        <5>2. QED
          BY <3>1, <3>2, <3>4, <5>1, WinSzAssumption DEF SentAsBefore
      <4>2. QED
        BY <1>7, <4>1, SentIsRecent DEF s
    <3>6. ModSn(txNext, vrUh) < WinSz \/ vrUh = AddSn(txNext, 1)
      <4>1. ModSn(txNext, vrUh) \in Int
        BY <1>3, ModSnType DEF Sn
      <4>2. CASE segOff = 0
        BY <1>1, <4>2
      <4>3. CASE segOff # 0
        BY <4>1, <4>3, WinSzAssumption DEF UmInv, Near
      <4>4. QED
        BY <4>2, <4>3
    <3>7. Near'
      <4>1. ModSn(txNext, vrUh) \in Int
        BY <1>3, ModSnType DEF Sn
      <4>2. (ModSn(txNext, vrUh) < WinSz \/ vrUh = AddSn(txNext, 1))'
        BY <1>1, <3>1, <3>6 DEF umUlVars, ModSn, AddSn
      <4>3. (ModSn(txNext, vrUh) \in Int)'
        BY <1>1, <3>1, <4>1 DEF umUlVars, ModSn
      <4>4. QED
        BY <3>2, <4>2, <4>3, WinSzAssumption DEF Near
    <3>8. BufInv'
      <4>1. ASSUME NEW x \in Sn, NEW r \in recBuf[x].segs
            PROVE  r.rnd = BufRnd(x)'
        <5>1. r.rnd = BufRnd(x)
          BY DEF UmInv, BufInv
        <5>2. CASE x = txNext /\ segOff = 0
          BY <1>1, <5>2, NextIsUnused, NoBufIsBuf
        <5>3. CASE ~(x = txNext /\ segOff = 0)
          BY <3>1, <3>2, <3>4, <5>1, <5>3 DEF BufRnd
        <5>4. QED
          BY <5>2, <5>3
      <4>2. QED
        BY <1>1, <4>1 DEF BufInv, umUlVars
    <3>9. QED
      BY <1>1, <1>4, <2>2, <3>3, <3>5, <3>7, <3>8 DEF UmInv
  <2>4. CASE s.end = LastByte
    <3>1. txNext' = AddSn(txNext, 1) /\ segOff' = 0 /\ segOff > 0
      BY <1>1, <1>2, <1>3, <1>7, <2>4 DEF TxNextAfter
    <3>2. /\ txNext' \in Sn /\ txNext' # txNext /\ ModSn(txNext', txNext') = 0
          /\ \A x \in Sn : ModSn(txNext, x) < WinSz =>
                ModSn(txNext', x) = ModSn(txNext, x) + 1 /\ x # txNext'
          /\ \A x \in Sn : x # txNext' =>
                IF txNext' < txNext THEN x <= txNext /\ ~(x <= txNext')
                                    ELSE x <= txNext' <=> x <= txNext
          /\ IF txNext' < txNext THEN txNext' <= txNext ELSE ~(txNext' <= txNext)
      BY <1>3, <3>1, NextSn
    <3>3. LinkTypes'
      BY <1>1, <1>3, <1>5, <2>2, <3>1, <3>2 DEF LinkTypes
    <3>4. rnd \in {0, 1} /\ 1 - (1 - rnd) = rnd
      BY <1>3, RlcUmAssumption DEF LinkTypes
    <3>5. \A x \in Sn : x # txNext' => RndOf(x)' = RndOf(x)
      BY <2>1, <3>2, <3>4 DEF RndOf
    <3>6. RndOf(txNext') = 1 - rnd'
      BY <2>1, <3>2, <3>4 DEF RndOf
    <3>7. AirInv'
      <4>1. \A x \in Sn : ModSn(txNext, x) < WinSz => SentAsBefore(x)
        <5>1. \A x \in Sn : ModSn(txNext, x) \in Nat
          BY <1>3, ModSnType DEF Sn
        <5>2. QED
          BY <3>1, <3>2, <3>5, <5>1, WinSzAssumption DEF SentAsBefore
      <4>2. QED
        BY <1>7, <4>1, SentIsRecent DEF s
    <3>8. Near'
      <4>1. ModSn(txNext, vrUh) \in Nat
        BY <1>3, ModSnType DEF Sn
      <4>2. ModSn(txNext', vrUh) <= WinSz
        <5>1. CASE vrUh # AddSn(txNext, 1)
          <6>1. ModSn(txNext, vrUh) < WinSz
            BY <3>1, <4>1, <5>1, WinSzAssumption DEF UmInv, Near
          <6>2. ModSn(txNext', vrUh) = ModSn(txNext, vrUh) + 1
            BY <1>3, <3>2, <6>1
          <6>3. QED
            BY <4>1, <6>1, <6>2, WinSzAssumption
        <5>2. CASE vrUh = AddSn(txNext, 1)
          BY <3>1, <3>2, <5>2, WinSzAssumption
        <5>3. QED
          BY <5>1, <5>2
      <4>3. QED
        BY <1>1, <3>1, <4>2 DEF Near, umUlVars, ModSn
    <3>9. BufInv'
      <4>1. ASSUME NEW x \in Sn, NEW r \in recBuf[x].segs
            PROVE  r.rnd = IF x = txNext' THEN 1 - rnd' ELSE RndOf(x)'
        <5>1. r.rnd = RndOf(x)
          BY <3>1 DEF UmInv, BufInv, BufRnd
        <5>2. QED
          BY <3>5, <3>6, <5>1
      <4>2. \A x \in Sn : BufRnd(x)' = IF x = txNext' THEN 1 - rnd' ELSE RndOf(x)'
        BY <3>1 DEF BufRnd
      <4>3. QED
        BY <1>1, <4>1, <4>2 DEF BufInv, umUlVars
    <3>10. QED
      BY <1>1, <1>4, <2>2, <3>3, <3>7, <3>8, <3>9 DEF UmInv
  <2>5. QED
    BY <2>3, <2>4
<1>8. QED
  BY <1>6, <1>7

-----------------------------------------------------------------------------
(* The other steps *)

LEMMA InitUmInv == UmInit => UmInv
<1> SUFFICES ASSUME UmInit
             PROVE  UmInv
  OBVIOUS
<1>1. /\ vrUr = 0 /\ vrUh = 0 /\ vrUx = 0 /\ recBuf = [sn \in Sn |-> NoBuf]
      /\ reAsmblTmr = FALSE /\ txNext = 0 /\ sduQ = 0 /\ segOff = 0
      /\ rnd = 0 /\ air = {} /\ owed = {} /\ bad = FALSE
  BY DEF UmInit, UmUlInit, UmDlInit
<1>2. 0 \in Sn /\ Value(0, 0) = WinSz /\ WinSz <= WinSz /\ ModSn(0, 0) = 0
  BY WinSzAssumption, SMT DEF Sn, SnMod, Value, AddSn, ModSn
<1>3. UlInv /\ HoleIsTimed
  <2>1. Window(Here)
    BY <1>1, <1>2, NoBufIsBuf DEF Window, WindowBut, Here
  <2>2. ~(ModSn(vrUh, vrUr) > 1)
    BY <1>1, <1>2
  <2>3. reAsmblTmr \in BOOLEAN /\ ~reAsmblTmr
    BY <1>1
  <2>4. QED
    BY <1>1, <1>2, <2>1, <2>2, <2>3 DEF UlInv, HoleIsTimed
<1>4. LinkTypes
  <2>1. 0 \in 0 .. LastByte /\ 0 \in 0 .. MaxQ /\ 0 \in Rnd /\ {} \subseteq Sn \X Rnd
    BY SduLenAssumption, MaxQAssumption, RlcUmAssumption DEF LastByte
  <2>2. bad \in BOOLEAN
    BY <1>1
  <2>3. QED
    BY <1>1, <1>2, <2>1, <2>2 DEF LinkTypes
<1>5. Near /\ AirInv /\ OwedInv
  BY <1>1, <1>2, WinSzAssumption DEF Near, AirInv, OwedInv
<1>6. BufInv
  BY <1>1, NoBufIsBuf DEF BufInv
<1>7. QED
  BY <1>1, <1>3, <1>4, <1>5, <1>6 DEF UmInv

LEMMA QueueKeepsUmInv ==
    ASSUME UmInv, QSdu \/ DiscSdu, UNCHANGED <<umUlVars, chVars>>
    PROVE  UmInv'
<1>1. txNext' = txNext /\ segOff' = segOff /\ sduQ' \in 0 .. MaxQ
  BY MaxQAssumption DEF UmInv, LinkTypes, QSdu, DiscSdu
<1>2. UlInv' /\ HoleIsTimed'
  BY DEF UmInv, umUlVars, UlInv, HoleIsTimed, Window, WindowBut, Here, Value
<1>3. LinkTypes'
  BY <1>1 DEF UmInv, LinkTypes, chVars
<1>4. \A x \in Sn : RndOf(x)' = RndOf(x) /\ BufRnd(x)' = BufRnd(x)
  BY <1>1 DEF RndOf, BufRnd, chVars
<1>5. AirInv'
  BY <1>1 DEF UmInv, AirInv, Recent, RndOf, ModSn, chVars
<1>6. Near'
  BY <1>1 DEF UmInv, Near, umUlVars, ModSn, AddSn
<1>7. BufInv'
  BY <1>4 DEF UmInv, BufInv, umUlVars
<1>8. OwedInv'
  BY DEF UmInv, OwedInv, Settled, umUlVars, chVars, Value, ModSn, AddSn
<1>9. QED
  BY <1>2, <1>3, <1>5, <1>6, <1>7, <1>8 DEF UmInv, chVars

LEMMA StutterKeepsUmInv ==
    ASSUME UmInv, UNCHANGED umVars
    PROVE  UmInv'
<1>1. UNCHANGED <<umUlVars, umDlVars, chVars>>
  BY DEF umVars
<1>2. UlInv' /\ HoleIsTimed'
  BY <1>1 DEF UmInv, umUlVars, UlInv, HoleIsTimed, Window, WindowBut, Here, Value
<1>3. LinkTypes' /\ ~bad'
  BY <1>1 DEF UmInv, LinkTypes, chVars, umDlVars
<1>4. \A x \in Sn : RndOf(x)' = RndOf(x) /\ BufRnd(x)' = BufRnd(x)
  BY <1>1 DEF RndOf, BufRnd, chVars, umDlVars
<1>5. AirInv'
  BY <1>1 DEF UmInv, AirInv, Recent, RndOf, ModSn, chVars, umDlVars
<1>6. Near'
  BY <1>1 DEF UmInv, Near, umUlVars, umDlVars, ModSn, AddSn
<1>7. BufInv'
  BY <1>1, <1>4 DEF UmInv, BufInv, umUlVars
<1>8. OwedInv'
  BY <1>1 DEF UmInv, OwedInv, Settled, umUlVars, chVars, Value, ModSn, AddSn
<1>9. QED
  BY <1>2, <1>3, <1>5, <1>6, <1>7, <1>8 DEF UmInv

LEMMA ExpireKeepsUmInv ==
    ASSUME UmInv, Expire, AcrossWrap = FALSE
    PROVE  UmInv'
<1> DEFINE a == FindRxNextReassembly(Here, vrUx)
<1>1. ReAsmblTmrExp /\ Skipped \subseteq Sn /\ UNCHANGED <<umDlVars, chVars>> /\ UlInv
  BY DEF Expire, ReAsmblTmrExp, UmInv
<1>2. UlInv' /\ HoleIsTimed'
  BY <1>1, ExpireKeepsUlInv
<1>3. /\ vrUr' = a.ur /\ vrUh' = vrUh /\ a.uh = vrUh /\ recBuf' = a.buf
      /\ \A x \in Sn : a.buf[x] \in {recBuf[x], NoBuf} /\ KeepsSn(Here, a, x)
  BY <1>1, ExpireProperties DEF SetWindow
<1> HIDE DEF a
<1>4. LinkTypes' /\ ~bad'
  BY <1>1 DEF UmInv, LinkTypes, chVars, umDlVars
<1>5. \A x \in Sn : RndOf(x)' = RndOf(x) /\ BufRnd(x)' = BufRnd(x)
  BY <1>1 DEF RndOf, BufRnd, chVars, umDlVars
<1>6. AirInv'
  BY <1>1 DEF UmInv, AirInv, Recent, RndOf, ModSn, chVars, umDlVars
<1>7. Near'
  BY <1>1, <1>3 DEF UmInv, Near, umDlVars, ModSn, AddSn
<1>8. BufInv'
  <2>1. ASSUME NEW x \in Sn, NEW s \in a.buf[x].segs
        PROVE  s.rnd = BufRnd(x)
    <3>1. s \in recBuf[x].segs
      BY <1>3, NoBufIsBuf
    <3>2. QED
      BY <3>1 DEF UmInv, BufInv
  <2>2. QED
    BY <1>3, <1>5, <2>1 DEF BufInv
<1>9. OwedInv'
  <2>1. ASSUME NEW q \in air
        PROVE  Settled(q)'
    <3>1. q.sn \in Sn /\ Settled(q)
      BY DEF UmInv, AirInv, OwedInv, Recent, AirSeg
    <3>2. KeepsSn(Here, a, q.sn)
      BY <1>3, <3>1
    <3>3. Here.uh = vrUh /\ Here.ur = vrUr /\ Here.buf = recBuf
      BY DEF Here
    <3>4. \/ <<q.sn, q.rnd>> \in owed
          \/ a.buf[q.sn].allSegRcvd
          \/ Value(q.sn, a.uh) < Value(a.ur, a.uh)
      BY <3>1, <3>2, <3>3 DEF KeepsSn, Settled
    <3>5. QED
      BY <1>1, <1>3, <3>4 DEF Settled, Value, ModSn, AddSn, chVars
  <2>2. QED
    BY <1>1, <2>1 DEF OwedInv, chVars
<1>10. QED
  BY <1>2, <1>4, <1>6, <1>7, <1>8, <1>9 DEF UmInv

LEMMA ReEstablishKeepsUmInv ==
    ASSUME UmInv, ReEstablish
    PROVE  UmInv'
<1>1. /\ vrUr' = 0 /\ vrUh' = 0 /\ txNext' = 0 /\ sduQ' = 0 /\ segOff' = 0
      /\ rnd' = 1 - rnd /\ air' = {} /\ owed' = {} /\ bad' = bad
  BY DEF ReEstablish, UlReEstablish, DlReEstablish
<1>2. UlInv' /\ HoleIsTimed' /\ recBuf' = [sn \in Sn |-> NoBuf]
  BY UlReEstablishKeepsUlInv DEF ReEstablish, UmInv
<1>3. 0 \in Sn /\ ModSn(0, 0) = 0 /\ 0 \in 0 .. LastByte /\ 0 \in 0 .. MaxQ
  BY WinSzAssumption, SduLenAssumption, MaxQAssumption, SMT DEF Sn, SnMod, ModSn, LastByte
<1>4. LinkTypes' /\ ~bad'
  BY <1>1, <1>3, RlcUmAssumption DEF UmInv, LinkTypes
<1>5. (ModSn(txNext, vrUh) = 0)'
  BY <1>1, <1>3 DEF ModSn
<1>6. Near' /\ AirInv' /\ OwedInv'
  BY <1>1, <1>5, WinSzAssumption DEF Near, AirInv, OwedInv
<1>7. BufInv'
  BY <1>2, NoBufIsBuf DEF BufInv
<1>8. QED
  BY <1>2, <1>4, <1>6, <1>7 DEF UmInv

-----------------------------------------------------------------------------
(* The theorems *)

LEMMA NextUmInv ==
    ASSUME UmInv, [UmNext]_umVars, AcrossWrap = FALSE
    PROVE  UmInv'
<1>1. CASE (QSdu \/ DiscSdu) /\ UNCHANGED <<umUlVars, chVars>>
  BY <1>1, QueueKeepsUmInv
<1>2. ASSUME NEW n \in 1 .. SduLen, Send(n)
      PROVE  UmInv'
  BY <1>2, SendKeepsUmInv
<1>3. ASSUME NEW p \in air, Receive(p)
      PROVE  UmInv'
  BY <1>3, ReceiveKeepsUmInv
<1>4. CASE Expire
  BY <1>4, ExpireKeepsUmInv
<1>5. CASE ReEstablish
  BY <1>5, ReEstablishKeepsUmInv
<1>6. CASE UNCHANGED umVars
  BY <1>6, StutterKeepsUmInv
<1>7. QED
  BY <1>1, <1>2, <1>3, <1>4, <1>5, <1>6 DEF UmNext

LEMMA UmInvIsInvariant == AcrossWrap = FALSE => (UmSpec => []UmInv)
<1> SUFFICES ASSUME AcrossWrap = FALSE
             PROVE  UmSpec => []UmInv
  OBVIOUS
<1>1. UmInit => UmInv
  BY InitUmInv
<1>2. UmInv /\ [UmNext]_umVars => UmInv'
  BY NextUmInv
<1>3. QED
  BY <1>1, <1>2, PTL DEF UmSpec

\* As long as the timer does not expire with the sequence numbers it skips
\* across the wrap-around (rlcUmmFindRxNextReassembly, rlc_umm_ul.c), every
\* variable keeps its type.
THEOREM TypeCorrect == AcrossWrap = FALSE => (UmSpec => []TypeOK)
<1> SUFFICES ASSUME AcrossWrap = FALSE
             PROVE  UmSpec => []TypeOK
  OBVIOUS
<1>1. UmInv => TypeOK
  <2> SUFFICES ASSUME UmInv
               PROVE  TypeOK
    OBVIOUS
  <2>1. vrUr \in Sn /\ vrUh \in Sn /\ vrUx \in Sn /\ recBuf \in [Sn -> Buf]
    BY HereProperties DEF UmInv, UlInv
  <2>2. air \subseteq [sn : Sn, so : 0 .. LastByte, end : 0 .. LastByte, rnd : Rnd]
    BY DEF UmInv, AirInv, Recent, AirSeg
  <2>3. QED
    BY <2>1, <2>2 DEF UmInv, UlInv, LinkTypes, TypeOK
<1>2. UmSpec => []UmInv
  BY UmInvIsInvariant
<1>3. QED
  BY <1>1, <1>2, PTL

\* Under the same condition, the reassembly timer runs while a sequence number
\* is missing below the highest one received: rlcUmmProcessPdus and
\* rlcUmmReAsmblTmrExp start it again whenever they leave a hole.
THEOREM HolesAreTimed == AcrossWrap = FALSE => (UmSpec => []HoleIsTimed)
<1> SUFFICES ASSUME AcrossWrap = FALSE
             PROVE  UmSpec => []HoleIsTimed
  OBVIOUS
<1>1. UmInv => HoleIsTimed
  BY DEF UmInv
<1>2. UmSpec => []UmInv
  BY UmInvIsInvariant
<1>3. QED
  BY <1>1, <1>2, PTL

\* Under the same condition, what rlcUmmReAssembleSdus hands up is an SDU as
\* rlcUmmProcessSdus segmented it: no mixture of two SDUs that had the same
\* sequence number, and none twice; for a window, an SDU and a queue of any
\* size, over a channel that loses and reorders segments.
THEOREM SdusAreDeliveredWhole == AcrossWrap = FALSE => (UmSpec => []DeliveredWhole)
<1> SUFFICES ASSUME AcrossWrap = FALSE
             PROVE  UmSpec => []DeliveredWhole
  OBVIOUS
<1>1. UmInv => DeliveredWhole
  BY DEF UmInv, DeliveredWhole
<1>2. UmSpec => []UmInv
  BY UmInvIsInvariant
<1>3. QED
  BY <1>1, <1>2, PTL

=============================================================================

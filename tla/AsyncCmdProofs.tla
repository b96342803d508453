---------------------------- MODULE AsyncCmdProofs ----------------------------
(***************************************************************************)
(* mongoc_async_run runs each command on its own events and calls it back  *)
(* once, and tells the truth about its exchange, for any commands, any     *)
(* request and any parts it goes in.                                       *)
(***************************************************************************)
EXTENDS AsyncCmd, FiniteSetTheorems, SequenceTheorems, WellFoundedInduction, TLAPS

\* What command c has done on its connection n.
Progresses(c, n) ==
    /\ c.state # "error"
    /\ Bytes(c.iov) + n.written = Bytes(Request)
    /\ c.state \in {"setup", "send"} => c.iov = Request /\ n.written = 0 /\ n.read = 0
    /\ c.state = "length" => n.read + c.toRead = LengthSize /\ c.toRead > 0 /\ c.events = "in"
    /\ c.state = "reply" => n.read + c.toRead = ReplySize /\ c.toRead > 0 /\ c.events = "in"

\* The server answers a whole request, and no more is read than came.
Answers(n) ==
    /\ n.read <= n.came
    /\ n.came > 0 => n.written = Bytes(Request) /\ n.reply # "none"

Untouched(n) == n.written = 0 /\ n.came = 0 /\ n.read = 0

ExchangesFit ==
    \A c \in Cmd :
        /\ Answers(net[c])
        /\ outcome[c] = "none" => Progresses(cmd[c], net[c])
        /\ outcome[c] = "unborn" => cmd[c] = New /\ Untouched(net[c])

\* The events that are still to be seen from position i on.
ToSee(revents, i) == {k \in i .. Len(revents) : revents[k] # "nothing"}

\* From position i of the poller on, the streams are polled in the order of their commands
\* from place k of the list on.
Ahead(list, poller, i, k) ==
    \A j \in 0 .. Len(poller) - i : k + j \in DOMAIN list /\ list[k + j] = poller[i + j]

\* A command that waits for its reply and got events has something to read.
EventFits(event, c) ==
    event = "events" /\ cmd[c].state \in {"length", "reply"}
    => net[c].status = "closed" \/ Available(net[c]) > 0

\* Where the walk is: what it has not come to matches the list, and what was begun since
\* comes after that.
WalkFits ==
    /\ Len(loop.revents) = Len(loop.poller) /\ loop.i \in DOMAIN loop.poller
    /\ loop.active = Cardinality(ToSee(loop.revents, loop.i)) /\ loop.active > 0
    /\ \E k \in DOMAIN cmds :
          /\ loop.at = cmds[k]
          /\ loop.next = IF k = Len(cmds) THEN None ELSE cmds[k + 1]
          /\ Ahead(cmds, loop.poller, loop.i, k)
    /\ \A j \in loop.i .. Len(loop.poller) : EventFits(loop.revents[j], loop.poller[j])

\* Expiring goes on with the first command.
ExpiryFits ==
    IF cmds = <<>> THEN loop.at = None
    ELSE loop.at = cmds[1] /\ loop.next = IF Len(cmds) = 1 THEN None ELSE cmds[2]

LoopFits ==
    /\ loop.pc = "polling" => loop = Idle
    /\ loop.pc = "visiting" => WalkFits
    /\ loop.pc = "expiring" => ExpiryFits

\* The inductive invariant.
Inv == AsyncTypeOK /\ PositionsMatch /\ CalledBackOnce /\ ExchangesFit /\ LoopFits /\ OutcomesAreTrue

-----------------------------------------------------------------------------
(* Sums.                                                                   *)

LEMMA Least ==
    ASSUME NEW S \in SUBSET Nat, S # {} PROVE \E m \in S : \A x \in S : ~(x < m)
<1>1. PICK m \in S : \A x \in S : ~(<<x, m>> \in OpToRel(<, Nat))
  BY NatLessThanWellFounded, WFMin, Zenon
<1>2. ASSUME NEW x \in S, x < m PROVE FALSE
  <2>1. <<x, m>> \in Nat \X Nat
    OBVIOUS
  <2>2. <<x, m>>[1] < <<x, m>>[2]
    BY <1>2
  <2>3. <<x, m>> \in OpToRel(<, Nat)
    BY <2>1, <2>2, Zenon DEF OpToRel
  <2>4. QED BY <1>1, <2>3
<1>3. QED BY <1>2

\* g has the sums of the first m lengths of iov.
Adds(g, iov, m) ==
    /\ g \in [0 .. m -> Nat] /\ g[0] = 0
    /\ \A k \in 1 .. m : g[k] = g[k - 1] + iov[k]

\* The least number of lengths that could not be added up would follow one that can.
LEMMA SumsExist ==
    ASSUME NEW iov \in Seq(Nat), NEW m \in 0 .. Len(iov)
    PROVE  \E g : Adds(g, iov, m)
<1> DEFINE B == {x \in 0 .. Len(iov) : ~\E g : Adds(g, iov, x)}
<1>1. SUFFICES ASSUME B # {} PROVE FALSE
  OBVIOUS
<1>2. PICK x \in B : \A y \in B : ~(y < x)
  <2>1. B \in SUBSET Nat
    OBVIOUS
  <2> HIDE DEF B
  <2>2. QED BY <1>1, <2>1, Least
<1>3. x # 0
  <2>1. Adds([k \in 0 .. 0 |-> 0], iov, 0)
    BY DEF Adds
  <2>2. QED BY <1>2, <2>1
<1>4. x - 1 \in 0 .. Len(iov) /\ x - 1 < x /\ x \in 1 .. Len(iov)
  BY <1>2, <1>3
<1>5. PICK g : Adds(g, iov, x - 1)
  BY <1>2, <1>4
<1> DEFINE h == [k \in 0 .. x |-> IF k = x THEN g[x - 1] + iov[x] ELSE g[k]]
<1>6. Adds(h, iov, x)
  <2>1. iov[x] \in Nat /\ g[x - 1] \in Nat
    BY <1>4, <1>5 DEF Adds
  <2>2. h \in [0 .. x -> Nat] /\ h[0] = 0
    BY <1>4, <1>5, <2>1 DEF Adds
  <2>3. ASSUME NEW k \in 1 .. x PROVE h[k] = h[k - 1] + iov[k]
    BY <1>4, <1>5 DEF Adds
  <2> HIDE DEF h
  <2>4. QED BY <2>2, <2>3 DEF Adds
<1>7. QED BY <1>2, <1>6

LEMMA SumsAdd ==
    ASSUME NEW iov \in Seq(Nat)
    PROVE  Adds(Sums(iov), iov, Len(iov))
<1> DEFINE F(g) == [k \in 0 .. Len(iov) |-> IF k = 0 THEN 0 ELSE g[k - 1] + iov[k]]
<1>1. Len(iov) \in 0 .. Len(iov)
  OBVIOUS
<1>2. PICK g : Adds(g, iov, Len(iov))
  BY <1>1, SumsExist
<1>3. g = F(g)
  <2>1. g = [k \in 0 .. Len(iov) |-> g[k]]
    BY <1>2 DEF Adds
  <2>2. ASSUME NEW k \in 0 .. Len(iov) PROVE g[k] = IF k = 0 THEN 0 ELSE g[k - 1] + iov[k]
    BY <1>2 DEF Adds
  <2>3. QED BY <2>1, <2>2
<1>4. Sums(iov) = CHOOSE s : s = F(s)
  BY DEF Sums
<1>5. Sums(iov) = F(Sums(iov))
  <2> HIDE DEF F
  <2>1. QED BY <1>3, <1>4
<1> DEFINE s == Sums(iov)
<1>6. s = [k \in 0 .. Len(iov) |-> IF k = 0 THEN 0 ELSE s[k - 1] + iov[k]]
  BY <1>5
<1>7. \A k \in 0 .. Len(iov) : s[k] = IF k = 0 THEN 0 ELSE s[k - 1] + iov[k]
  <2> HIDE DEF s
  <2>1. QED BY <1>6
<1>8. \A k \in 0 .. Len(iov) : s[k] = g[k]
  <2> DEFINE B == {x \in 0 .. Len(iov) : s[x] # g[x]}
  <2>1. SUFFICES ASSUME B # {} PROVE FALSE
    OBVIOUS
  <2>2. PICK x \in B : \A y \in B : ~(y < x)
    <3>1. B \in SUBSET Nat
      OBVIOUS
    <3> HIDE DEF B
    <3>2. QED BY <2>1, <3>1, Least
  <2> HIDE DEF s
  <2>3. x # 0
    BY <1>2, <1>7, <2>2 DEF Adds
  <2>4. s[x - 1] = g[x - 1]
    BY <2>2, <2>3
  <2>5. QED BY <1>2, <1>7, <2>2, <2>3, <2>4 DEF Adds
<1>9. s = g
  <2>1. g = [k \in 0 .. Len(iov) |-> g[k]]
    BY <1>2 DEF Adds
  <2>2. s = [k \in 0 .. Len(iov) |-> s[k]]
    <3>1. DOMAIN s = 0 .. Len(iov)
      <4> HIDE DEF s
      <4>1. QED BY <1>6
    <3> HIDE DEF s
    <3>2. QED BY <1>6, <1>7
  <2> HIDE DEF s
  <2>3. QED BY <1>8, <2>1, <2>2
<1>10. QED BY <1>2, <1>9

LEMMA SumIs ==
    ASSUME NEW iov \in Seq(Nat), NEW k \in 0 .. Len(iov)
    PROVE  /\ Sums(iov)[k] \in Nat
           /\ IF k = 0 THEN Sums(iov)[k] = 0
              ELSE iov[k] \in Nat /\ Sums(iov)[k] = Sums(iov)[k - 1] + iov[k]
BY SumsAdd, SMTT(30) DEF Adds

LEMMA SumsGrow ==
    ASSUME NEW iov \in Seq(Nat), NEW i \in 0 .. Len(iov), NEW j \in 0 .. Len(iov), i <= j
    PROVE  Sums(iov)[i] <= Sums(iov)[j]
<1> DEFINE s == Sums(iov)
           B == {x \in i .. Len(iov) : ~(s[i] <= s[x])}
<1>1. SUFFICES ASSUME B # {} PROVE FALSE
  OBVIOUS
<1>2. PICK x \in B : \A y \in B : ~(y < x)
  <2>1. B \in SUBSET Nat
    OBVIOUS
  <2> HIDE DEF B
  <2>2. QED BY <1>1, <2>1, Least
<1>3. s[i] \in Nat
  BY SumIs
<1>4. x # i /\ x \in 1 .. Len(iov) /\ x - 1 \in i .. Len(iov)
  <2> HIDE DEF s
  <2>1. QED BY <1>2, <1>3
<1>5. s[i] <= s[x - 1]
  BY <1>2, <1>4
<1>6. s[x] = s[x - 1] + iov[x] /\ s[x - 1] \in Nat /\ iov[x] \in Nat
  <2> HIDE DEF B
  <2>1. x \in 0 .. Len(iov) /\ x - 1 \in 0 .. Len(iov) /\ x # 0
    BY <1>4
  <2>2. QED BY <2>1, SumIs
<1> HIDE DEF s
<1>7. QED BY <1>2, <1>3, <1>5, <1>6

LEMMA BytesAre ==
    ASSUME NEW iov \in Seq(Nat)
    PROVE  Bytes(iov) \in Nat /\ iov \in Seq(0 .. Bytes(iov))
<1>1. Adds(Sums(iov), iov, Len(iov))
  BY SumsAdd
<1>2. Bytes(iov) \in Nat /\ Len(iov) \in Nat
  BY <1>1 DEF Adds, Bytes
<1>3. ASSUME NEW k \in 1 .. Len(iov) PROVE iov[k] \in 0 .. Bytes(iov)
  <2>1. Sums(iov)[k] <= Sums(iov)[Len(iov)]
    BY SumsGrow
  <2>2. Sums(iov)[k] = Sums(iov)[k - 1] + iov[k] /\ Sums(iov)[k - 1] \in Nat /\ iov[k] \in Nat
    BY <1>1, SMTT(30) DEF Adds
  <2>3. QED BY <1>2, <2>1, <2>2 DEF Bytes
<1>4. QED BY <1>2, <1>3

\* r is what is left of iov past its first k lengths: x and the lengths from k + 2 on.
IsRest(r, iov, k, x) ==
    /\ k \in 0 .. Len(iov) - 1
    /\ Len(r) = Len(iov) - k /\ r[1] = x
    /\ \A j \in 2 .. Len(r) : r[j] = iov[k + j]

LEMMA RestAdds ==
    ASSUME NEW iov \in Seq(Nat), NEW r \in Seq(Nat), NEW x \in Nat, NEW k \in Nat,
           IsRest(r, iov, k, x)
    PROVE  Bytes(r) = x + Bytes(iov) - Sums(iov)[k + 1]
<1>0. PICK n \in Nat, m \in Nat \ {0} :
        Len(iov) = n /\ Len(r) = m /\ k + m = n /\ r[1] = x /\ \A j \in 2 .. m : r[j] = iov[k + j]
  <2>1. PICK n \in Nat : Len(iov) = n
    OBVIOUS
  <2>2. n - k \in Nat \ {0} /\ Len(r) = n - k /\ k + (n - k) = n
    BY <2>1 DEF IsRest
  <2>3. QED BY <2>1, <2>2 DEF IsRest
<1> USE <1>0
<1> DEFINE s == Sums(iov)
           t == Sums(r)
           B == {j \in 1 .. m : t[j] # x + s[k + j] - s[k + 1]}
<1>1. \A j \in 1 .. m : /\ s[k + j] \in Nat /\ s[(k + j) - 1] \in Nat /\ iov[k + j] \in Nat
                        /\ s[k + j] = s[(k + j) - 1] + iov[k + j]
  <2> SUFFICES ASSUME NEW j \in 1 .. m
               PROVE  /\ s[k + j] \in Nat /\ s[(k + j) - 1] \in Nat /\ iov[k + j] \in Nat
                      /\ s[k + j] = s[(k + j) - 1] + iov[k + j]
    OBVIOUS
  <2>1. k + j \in 0 .. Len(iov) /\ k + j # 0 /\ (k + j) - 1 \in 0 .. Len(iov)
    OBVIOUS
  <2>2. QED BY <2>1, SumIs
<1>2. \A j \in 1 .. m : t[j] = t[j - 1] + r[j]
  <2> SUFFICES ASSUME NEW j \in 1 .. m PROVE t[j] = t[j - 1] + r[j]
    OBVIOUS
  <2>1. j \in 0 .. Len(r) /\ j # 0
    OBVIOUS
  <2>2. QED BY <2>1, SumIs
<1>3. t[0] = 0
  <2>1. 0 \in 0 .. Len(r)
    OBVIOUS
  <2>2. QED BY <2>1, SumIs
<1>4. s[n] = Bytes(iov) /\ t[m] = Bytes(r)
  BY DEF Bytes
<1> HIDE DEF s, t
<1>5. ASSUME B # {} PROVE FALSE
  <2>1. PICK j \in B : \A y \in B : ~(y < j)
    <3>1. B \in SUBSET Nat
      OBVIOUS
    <3> HIDE DEF B
    <3>2. QED BY <1>5, <3>1, Least
  <2>2. j \in 1 .. m /\ t[j] # x + s[k + j] - s[k + 1]
    BY <2>1
  <2>3. 1 \in 1 .. m /\ 1 - 1 = 0
    OBVIOUS
  <2>4. t[1] = x /\ s[k + 1] \in Nat
    <3>1. t[1] = t[0] + r[1]
      BY <1>2, <2>3
    <3>2. QED BY <1>1, <1>3, <2>3, <3>1
  <2>5. j # 1
    BY <2>2, <2>4
  <2>6. t[j - 1] = x + s[k + (j - 1)] - s[k + 1]
    <3>1. j - 1 \in 1 .. m /\ j - 1 < j
      BY <2>2, <2>5
    <3>2. QED BY <2>1, <3>1
  <2> HIDE DEF B
  <2>7. t[j] = t[j - 1] + iov[k + j]
    <3>1. j \in 2 .. m
      BY <2>2, <2>5
    <3>2. QED BY <1>2, <2>2, <3>1
  <2>8. /\ s[k + j] \in Nat /\ s[(k + j) - 1] \in Nat /\ iov[k + j] \in Nat
        /\ s[k + j] = s[(k + j) - 1] + iov[k + j]
    BY <1>1, <2>2
  <2>9. k + (j - 1) = (k + j) - 1
    BY <2>2
  <2>10. t[j] = (x + s[(k + j) - 1] - s[k + 1]) + iov[k + j]
    BY <2>6, <2>7, <2>9
  <2>11. t[j] = x + s[k + j] - s[k + 1]
    BY <2>4, <2>8, <2>10, SMTT(30)
  <2>12. QED BY <2>2, <2>11
<1>6. t[m] = x + s[k + m] - s[k + 1]
  <2>1. m \in 1 .. m
    OBVIOUS
  <2>2. B = {}
    <3> HIDE DEF B
    <3>1. QED BY <1>5
  <2>3. m \notin B
    <3> HIDE DEF B
    <3>1. QED BY <2>2
  <2>4. QED BY <2>1, <2>3
<1>7. QED BY <1>4, <1>6 DEF s

\* Sending w bytes leaves the others, in lengths that are not negative.
LEMMA AdvancedLeaves ==
    ASSUME NEW iov \in Seq(Nat), iov # <<>>, NEW w \in 0 .. Bytes(iov)
    PROVE  /\ Advanced(iov, w) \in Seq(Nat)
           /\ Bytes(Advanced(iov, w)) + w = Bytes(iov)
<1> DEFINE s == Sums(iov)
           passed == {k \in 0 .. Len(iov) - 1 : k = 0 \/ s[k] < w}
           k == CHOOSE m \in passed : \A j \in passed : j <= m
           x == iov[k + 1] - (w - s[k])
<1>1. Len(iov) \in Nat \ {0} /\ Bytes(iov) \in Nat
  BY BytesAre
<1>2. k \in passed /\ \A j \in passed : j <= k
  <2> DEFINE B == {m \in 0 .. Len(iov) : \A j \in passed : j <= m}
  <2>1. Len(iov) - 1 \in B /\ B \in SUBSET Nat
    BY <1>1
  <2>2. PICK m \in B : \A y \in B : ~(y < m)
    <3> HIDE DEF B
    <3>1. QED BY <2>1, Least
  <2>3. 0 \in passed
    BY <1>1
  <2>4. m \in passed
    <3> SUFFICES ASSUME m \notin passed PROVE FALSE
      OBVIOUS
    <3>1. m # 0 /\ m \in Nat
      BY <2>2, <2>3
    <3>2. m - 1 \in B
      <4>1. \A j \in passed : j \in Nat /\ j <= m /\ j # m
        BY <2>2
      <4>2. m \in 0 .. Len(iov)
        BY <2>2
      <4> HIDE DEF passed
      <4>3. m - 1 \in 0 .. Len(iov) /\ \A j \in passed : j <= m - 1
        BY <1>1, <3>1, <4>1, <4>2
      <4>4. QED BY <4>3
    <3> HIDE DEF B
    <3>3. QED BY <2>2, <3>1, <3>2
  <2>5. \E y \in passed : \A j \in passed : j <= y
    BY <2>2, <2>4
  <2> HIDE DEF passed
  <2>6. QED BY <2>5
<1>3. k \in 0 .. Len(iov) - 1 /\ (k = 0 \/ s[k] < w)
  BY <1>2
<1>4. k + 1 = Len(iov) \/ ~(s[k + 1] < w)
  <2>1. k + 1 \notin passed
    <3> HIDE DEF passed
    <3>1. k \in Nat
      BY <1>3
    <3> HIDE DEF k
    <3>2. QED BY <1>2, <3>1
  <2> HIDE DEF k
  <2>2. QED BY <1>1, <1>3, <2>1
<1> HIDE DEF k, passed
<1>5. s[k] \in Nat /\ (k = 0 => s[k] = 0)
  <2>1. k \in 0 .. Len(iov)
    BY <1>1, <1>3
  <2>2. QED BY <2>1, SumIs
<1>6. s[k + 1] = s[k] + iov[k + 1] /\ s[k + 1] \in Nat /\ iov[k + 1] \in Nat
  <2>1. k + 1 \in 0 .. Len(iov) /\ k + 1 # 0 /\ (k + 1) - 1 = k
    BY <1>1, <1>3
  <2>2. QED BY <2>1, SumIs
<1>7. w <= s[k + 1] /\ s[k + 1] <= Bytes(iov)
  <2>1. k + 1 \in 0 .. Len(iov) /\ Len(iov) \in 0 .. Len(iov)
    BY <1>1, <1>3
  <2>2. s[k + 1] <= s[Len(iov)]
    BY <1>1, <1>3, <2>1, SumsGrow
  <2>3. s[Len(iov)] = Bytes(iov)
    BY DEF Bytes
  <2> HIDE DEF s
  <2>4. QED BY <1>1, <1>4, <1>6, <2>2, <2>3
<1>8. x \in Nat /\ x = s[k + 1] - w
  <2> HIDE DEF s
  <2>1. QED BY <1>3, <1>5, <1>6, <1>7
<1> DEFINE r == <<x>> \o SubSeq(iov, k + 2, Len(iov))
<1>9. Advanced(iov, w) = r
  BY DEF Advanced, k, passed
<1>10. r \in Seq(Nat) /\ Len(r) = Len(iov) - k /\ r[1] = x /\ \A j \in 2 .. Len(r) : r[j] = iov[k + j]
  <2> DEFINE q == SubSeq(iov, k + 2, Len(iov))
  <2>1. q \in Seq(Nat) /\ Len(q) = Len(iov) - (k + 1)
    <3> HIDE DEF k
    <3>1. QED BY <1>1, <1>3
  <2>2. \A j \in 1 .. Len(q) : q[j] = iov[(k + 1) + j]
    <3> HIDE DEF k
    <3>1. QED BY <1>1, <1>3
  <2> HIDE DEF q, x
  <2>3. <<x>> \in Seq(Nat) /\ Len(<<x>>) = 1 /\ <<x>>[1] = x
    BY <1>8
  <2>4. r \in Seq(Nat) /\ Len(r) = 1 + Len(q) /\ r[1] = x
    BY <2>1, <2>3 DEF q
  <2>5. ASSUME NEW j \in 2 .. Len(r) PROVE r[j] = iov[k + j]
    <3>1. j - 1 \in 1 .. Len(q) /\ r[j] = q[j - 1]
      BY <2>1, <2>3, <2>4 DEF q
    <3>2. QED BY <1>3, <2>2, <3>1
  <2> HIDE DEF r
  <2>6. QED BY <1>1, <1>3, <2>1, <2>4, <2>5
<1>11. Bytes(r) = x + Bytes(iov) - s[k + 1]
  <2> HIDE DEF r, x
  <2>1. IsRest(r, iov, k, x) /\ k \in Nat /\ x \in Nat /\ r \in Seq(Nat)
    BY <1>3, <1>8, <1>10 DEF IsRest
  <2>2. QED BY <2>1, RestAdds
<1>12. Bytes(r) \in Nat
  BY <1>10, BytesAre
<1> HIDE DEF r
<1>13. QED
  <2> HIDE DEF s, x
  <2>1. QED BY <1>1, <1>6, <1>8, <1>9, <1>10, <1>11, <1>12

-----------------------------------------------------------------------------
(* Lists.                                                                  *)

LEMMA InSeq ==
    ASSUME NEW S, NEW T, NEW list \in Seq(S), \A k \in 1 .. Len(list) : list[k] \in T
    PROVE  list \in Seq(T)
OBVIOUS

LEMMA PlaceIs ==
    ASSUME NEW list, IsInjective(list), NEW k \in DOMAIN list
    PROVE  Place(list, list[k]) = k
BY DEF Place, IsInjective

LEMMA AfterIs ==
    ASSUME NEW list, IsInjective(list), NEW k \in DOMAIN list
    PROVE  After(list, list[k]) = IF k = Len(list) THEN None ELSE list[k + 1]
BY PlaceIs DEF After

LEMMA Removed ==
    ASSUME NEW list \in Seq(Cmd), NEW k \in 1 .. Len(list), NEW rest, rest = RemoveAt(list, k)
    PROVE  /\ rest \in Seq(Cmd) /\ Len(rest) = Len(list) - 1
           /\ \A j \in 1 .. Len(list) - 1 : rest[j] = IF j < k THEN list[j] ELSE list[j + 1]
<1> DEFINE p == SubSeq(list, 1, k - 1)
           q == SubSeq(list, k + 1, Len(list))
<1>1. p \in Seq(Cmd) /\ Len(p) = k - 1 /\ \A j \in 1 .. k - 1 : p[j] = list[j]
  OBVIOUS
<1>2. q \in Seq(Cmd) /\ Len(q) = Len(list) - k /\ \A j \in 1 .. Len(list) - k : q[j] = list[k + j]
  OBVIOUS
<1>3. rest = p \o q
  BY DEF RemoveAt
<1> HIDE DEF p, q
<1>4. rest \in Seq(Cmd) /\ Len(rest) = Len(list) - 1
  BY <1>1, <1>2, <1>3
<1>5. ASSUME NEW j \in 1 .. Len(list) - 1 PROVE rest[j] = IF j < k THEN list[j] ELSE list[j + 1]
  <2>1. CASE j < k
    BY <1>1, <1>2, <1>3, <2>1
  <2>2. CASE ~(j < k)
    <3>1. j - (k - 1) \in 1 .. Len(list) - k /\ k + (j - (k - 1)) = j + 1
      BY <2>2
    <3>2. rest[j] = q[j - (k - 1)]
      BY <1>1, <1>2, <1>3, <2>2
    <3>3. QED BY <1>2, <2>2, <3>1, <3>2
  <2>3. QED BY <2>1, <2>2
<1>6. QED BY <1>4, <1>5

LEMMA SeqsOfASet ==
    ASSUME NEW S \in SUBSET Cmd, NEW list \in SetToSeqs(S)
    PROVE  list \in Seq(Cmd) /\ IsInjective(list) /\ Range(list) = S
<1>1. IsFiniteSet(S) /\ Cardinality(S) \in Nat
  BY AsyncAssumption, FS_Subset, FS_CardinalityType
<1> DEFINE D == 1 .. Cardinality(S)
<1>2. list \in [D -> S] /\ \A i, j \in D : i # j => list[i] # list[j]
  BY DEF SetToSeqs
<1>3. IsFiniteSet(D) /\ Cardinality(D) = Cardinality(S)
  BY <1>1, FS_Interval
<1>4. IsInjective(list) /\ list \in Injection(D, S)
  BY <1>2 DEF IsInjective, Injection
<1>5. list \in Surjection(D, S)
  <2> HIDE DEF D
  <2>1. QED BY <1>1, <1>3, <1>4, FS_Injection
<1>6. Range(list) = S
  BY <1>2, <1>5 DEF Surjection, Range
<1>7. list \in Seq(Cmd)
  <2>1. list \in [D -> Cmd]
    BY <1>2
  <2>2. QED BY <1>1, <2>1
<1>8. QED BY <1>4, <1>6, <1>7

\* The list new is old without its k-th command, and with those of begun at its end.
Leaves(new, old, k, begun) ==
    /\ new \in Seq(Cmd) /\ IsInjective(new)
    /\ Range(new) = (Range(old) \ {old[k]}) \cup begun
    /\ Len(new) >= Len(old) - 1
    /\ begun = {} => Len(new) = Len(old) - 1
    /\ \A j \in 1 .. Len(old) - 1 : new[j] = IF j < k THEN old[j] ELSE old[j + 1]

LEMMA ListLeaves ==
    ASSUME NEW old \in Seq(Cmd), IsInjective(old), NEW k \in 1 .. Len(old),
           NEW begun \in SUBSET Cmd, begun \cap Range(old) = {}, NEW list \in SetToSeqs(begun)
    PROVE  Leaves(RemoveAt(old, Place(old, old[k])) \o list, old, k, begun)
<1> DEFINE rest == RemoveAt(old, k)
           new == rest \o list
<1>1. Place(old, old[k]) = k
  BY PlaceIs
<1>2. /\ rest \in Seq(Cmd) /\ Len(rest) = Len(old) - 1
      /\ \A j \in 1 .. Len(old) - 1 : rest[j] = IF j < k THEN old[j] ELSE old[j + 1]
  BY Removed
<1>3. list \in Seq(Cmd) /\ IsInjective(list) /\ Range(list) = begun
  BY SeqsOfASet
<1> HIDE DEF rest
<1>4. new \in Seq(Cmd) /\ Len(new) = Len(rest) + Len(list)
  BY <1>2, <1>3
<1>5. \A j \in 1 .. Len(rest) : new[j] = rest[j]
  BY <1>2, <1>3
<1>6. \A j \in 1 .. Len(list) : new[Len(rest) + j] = list[j]
  BY <1>2, <1>3
<1>7. \A j \in 1 .. Len(new) : j \in 1 .. Len(rest) \/ \E m \in 1 .. Len(list) : j = Len(rest) + m
  <2> SUFFICES ASSUME NEW j \in 1 .. Len(new), j \notin 1 .. Len(rest)
               PROVE  \E m \in 1 .. Len(list) : j = Len(rest) + m
    OBVIOUS
  <2>1. j - Len(rest) \in 1 .. Len(list) /\ j = Len(rest) + (j - Len(rest))
    BY <1>2, <1>3, <1>4
  <2>2. QED BY <2>1
<1> HIDE DEF new
<1>8. \A j \in 1 .. Len(rest) : rest[j] \in Range(old) \ {old[k]}
  BY <1>2 DEF Range, IsInjective
<1>9. \A c \in Range(old) \ {old[k]} : \E j \in 1 .. Len(rest) : rest[j] = c
  <2> SUFFICES ASSUME NEW m \in 1 .. Len(old), m # k PROVE \E j \in 1 .. Len(rest) : rest[j] = old[m]
    BY DEF Range
  <2>1. CASE m < k
    BY <1>2, <2>1
  <2>2. CASE m > k
    <3>1. m - 1 \in 1 .. Len(old) - 1 /\ ~(m - 1 < k) /\ (m - 1) + 1 = m
      BY <2>2
    <3>2. QED BY <1>2, <3>1
  <2>3. QED BY <2>1, <2>2
<1>10. \A i, j \in 1 .. Len(rest) : rest[i] = rest[j] => i = j
  BY <1>2 DEF IsInjective
<1>11. Range(new) = (Range(old) \ {old[k]}) \cup begun
  <2>1. ASSUME NEW c \in Range(new) PROVE c \in (Range(old) \ {old[k]}) \cup begun
    <3>1. PICK j \in 1 .. Len(new) : new[j] = c
      BY <1>4 DEF Range
    <3>2. CASE j \in 1 .. Len(rest)
      BY <1>5, <1>8, <3>1, <3>2
    <3>3. CASE j \notin 1 .. Len(rest)
      <4>1. PICK m \in 1 .. Len(list) : j = Len(rest) + m
        BY <1>7, <3>3
      <4>2. c = list[m]
        BY <1>6, <3>1, <4>1
      <4>3. QED BY <1>3, <4>2 DEF Range
    <3>4. QED BY <3>2, <3>3
  <2>2. ASSUME NEW c \in Range(old) \ {old[k]} PROVE c \in Range(new)
    <3>1. PICK j \in 1 .. Len(rest) : rest[j] = c
      BY <1>9
    <3>2. j \in 1 .. Len(new) /\ new[j] = c
      BY <1>2, <1>3, <1>4, <1>5, <3>1
    <3>3. QED BY <1>4, <3>2 DEF Range
  <2>3. ASSUME NEW c \in begun PROVE c \in Range(new)
    <3>1. PICK j \in 1 .. Len(list) : list[j] = c
      BY <1>3 DEF Range
    <3>2. Len(rest) + j \in 1 .. Len(new) /\ new[Len(rest) + j] = c
      BY <1>2, <1>3, <1>4, <1>6, <3>1
    <3>3. QED BY <1>4, <3>2 DEF Range
  <2>4. QED BY <2>1, <2>2, <2>3
<1>12. IsInjective(new)
  <2> SUFFICES ASSUME NEW i \in 1 .. Len(new), NEW j \in 1 .. Len(new), new[i] = new[j] PROVE i = j
    BY <1>4 DEF IsInjective
  <2>1. \A a \in 1 .. Len(list) : list[a] \in begun
    BY <1>3 DEF Range
  <2>2. CASE i \in 1 .. Len(rest) /\ j \in 1 .. Len(rest)
    BY <1>5, <1>10, <2>2
  <2>3. CASE i \notin 1 .. Len(rest) /\ j \notin 1 .. Len(rest)
    <3>1. PICK a \in 1 .. Len(list) : i = Len(rest) + a
      BY <1>7, <2>3
    <3>2. PICK b \in 1 .. Len(list) : j = Len(rest) + b
      BY <1>7, <2>3
    <3>3. list[a] = list[b]
      BY <1>6, <3>1, <3>2
    <3>4. a = b
      BY <1>3, <3>3 DEF IsInjective
    <3>5. QED BY <3>1, <3>2, <3>4
  <2>4. CASE i \in 1 .. Len(rest) /\ j \notin 1 .. Len(rest)
    BY <1>5, <1>6, <1>7, <1>8, <2>1, <2>4
  <2>5. CASE i \notin 1 .. Len(rest) /\ j \in 1 .. Len(rest)
    BY <1>5, <1>6, <1>7, <1>8, <2>1, <2>5
  <2>6. QED BY <2>2, <2>3, <2>4, <2>5
<1>13. Len(new) >= Len(old) - 1 /\ (begun = {} => Len(new) = Len(old) - 1)
  <2>1. begun = {} => Len(list) = 0
    <3> SUFFICES ASSUME begun = {}, Len(list) # 0 PROVE FALSE
      OBVIOUS
    <3>1. 1 \in DOMAIN list
      BY <1>3
    <3>2. QED BY <1>3, <3>1 DEF Range
  <2>2. QED BY <1>2, <1>3, <1>4, <2>1
<1>14. \A j \in 1 .. Len(old) - 1 : new[j] = IF j < k THEN old[j] ELSE old[j + 1]
  BY <1>2, <1>5
<1>15. Leaves(new, old, k, begun)
  BY <1>4, <1>11, <1>12, <1>13, <1>14 DEF Leaves
<1>16. QED BY <1>1, <1>15 DEF new, rest

-----------------------------------------------------------------------------
(* The phases.                                                             *)

\* p may become of a command whose connection is n.
Follows(p) ==
    /\ p.n \in NetType /\ Answers(p.n)
    /\ p.o \in {"none", "success", "failed", "closed", "timeout"}
    /\ p.o = "none" => p.c \in CmdType /\ Progresses(p.c, p.n)
    /\ p.o = "success" => /\ p.n.written = Bytes(Request) /\ p.n.reply = "good"
                          /\ p.n.read = ReplySize
    /\ p.o = "closed" => \/ p.n.status = "closed"
                         \/ p.n.came = LengthSize /\ p.n.read = LengthSize

\* Command c is ready to go on over n.
Goes(c, n) ==
    /\ c \in CmdType /\ n \in NetType
    /\ Progresses(c, n) /\ Answers(n)

LEMMA Sizes ==
    /\ Request \in Seq(Nat) /\ Request # <<>>
    /\ Bytes(Request) \in Nat \ {0} /\ Request \in Seq(0 .. Bytes(Request))
    /\ LengthSize \in Nat \ {0} /\ RestSize \in Nat \ {0}
    /\ ReplySize = LengthSize + RestSize /\ ReplySize \in Nat \ {0}
    /\ 0 \in 0 .. ReplySize /\ LengthSize \in 0 .. ReplySize /\ RestSize \in 0 .. ReplySize
<1>1. Request \in Seq(Nat) /\ Request # <<>>
  BY AsyncAssumption
<1>2. Bytes(Request) \in Nat /\ Request \in Seq(0 .. Bytes(Request))
  BY <1>1, BytesAre
<1>3. Bytes(Request) # 0
  <2>1. Request[1] \in Nat \ {0} /\ Request[1] \in 0 .. Bytes(Request)
    BY <1>1, <1>2, AsyncAssumption
  <2>2. QED BY <1>2, <2>1
<1>4. QED BY <1>1, <1>2, <1>3, AsyncAssumption DEF ReplySize

LEMMA NewIs ==
    /\ New \in CmdType
    /\ New.state \in {"setup", "send"} /\ New.iov = Request
BY Sizes DEF New, CmdType

LEMMA Begins ==
    ASSUME NEW n \in NetType, Untouched(n)
    PROVE  Goes(New, n)
BY Sizes, NewIs DEF Untouched, Goes, Progresses, Answers, NetType

LEMMA Fails ==
    ASSUME NEW c, NEW n, Goes(c, n), NEW d PROVE Follows(Left(d, n, "failed"))
BY DEF Goes, Left, Follows

LEMMA SetupFollows ==
    ASSUME NEW c, NEW n, Goes(c, n), c.state = "setup", NEW p \in Setup(c, n)
    PROVE  Follows(p)
<1>1. ASSUME NEW e \in {"in", "out"}, p = Left([c EXCEPT !.events = e], n, "none") PROVE Follows(p)
  <2> DEFINE d == [c EXCEPT !.events = e]
  <2>1. d \in CmdType
    BY <1>1 DEF Goes, CmdType
  <2>2. d.state = c.state /\ d.iov = c.iov /\ d.toRead = c.toRead
    BY DEF Goes, CmdType
  <2> HIDE DEF d
  <2>3. Progresses(d, n)
    BY <2>2 DEF Goes, Progresses
  <2>4. p.c = d /\ p.n = n /\ p.o = "none"
    BY <1>1 DEF Left, d
  <2>5. QED BY <2>1, <2>3, <2>4 DEF Follows, Goes
<1>2. CASE p = Left([c EXCEPT !.state = "send", !.events = "out"], n, "none")
  <2> DEFINE d == [c EXCEPT !.state = "send", !.events = "out"]
  <2>1. d \in CmdType
    BY DEF Goes, CmdType
  <2>2. d.state = "send" /\ d.iov = c.iov /\ d.toRead = c.toRead
    BY DEF Goes, CmdType
  <2> HIDE DEF d
  <2>3. Progresses(d, n)
    BY <2>2 DEF Goes, Progresses
  <2>4. p.c = d /\ p.n = n /\ p.o = "none"
    BY <1>2 DEF Left, d
  <2>5. QED BY <2>1, <2>3, <2>4 DEF Follows, Goes
<1>3. CASE p = Left(c, n, "failed")
  BY <1>3, Fails
<1>4. QED BY <1>1, <1>2, <1>3 DEF Setup

LEMMA SendFollows ==
    ASSUME NEW c, NEW n, Goes(c, n), c.state = "send", NEW p \in Send(c, n)
    PROVE  Follows(p)
<1>1. CASE p = Left(c, n, "failed")
  BY <1>1, Fails
<1>2. ASSUME NEW w \in 0 .. Bytes(c.iov),
             p = Left([c EXCEPT !.iov = Advanced(c.iov, w), !.state = "length",
                                !.toRead = LengthSize, !.events = "in"],
                      [n EXCEPT !.written = @ + w], "none")
      PROVE  Follows(p)
  <2> DEFINE iov == Advanced(c.iov, w)
             d == [c EXCEPT !.iov = iov, !.state = "length", !.toRead = LengthSize, !.events = "in"]
             m == [n EXCEPT !.written = @ + w]
  <2>1. c.iov = Request /\ n.written = 0 /\ n.read = 0 /\ n.came = 0
    BY Sizes DEF Goes, Progresses, Answers, NetType
  <2>2. iov \in Seq(Nat) /\ Bytes(iov) + w = Bytes(Request) /\ w \in Nat
    BY <2>1, Sizes, AdvancedLeaves
  <2>3. iov \in Seq(0 .. Bytes(Request))
    <3>1. Bytes(iov) \in Nat /\ iov \in Seq(0 .. Bytes(iov))
      BY <2>2, BytesAre
    <3> HIDE DEF iov
    <3>2. \A j \in 1 .. Len(iov) : iov[j] \in 0 .. Bytes(Request)
      BY <2>2, <3>1, Sizes, SMTT(30)
    <3>3. QED BY <2>2, <3>2, InSeq
  <2> HIDE DEF iov
  <2>4. d \in CmdType
    <3>1. c \in CmdType
      BY DEF Goes
    <3>2. QED BY <2>3, <3>1, Sizes DEF CmdType
  <2>5. d.state = "length" /\ d.iov = iov /\ d.toRead = LengthSize /\ d.events = "in"
    BY DEF Goes, CmdType
  <2>6. m \in NetType /\ m.written = w /\ m.read = 0 /\ m.came = 0
    <3>1. n.written + w = w /\ w \in 0 .. Bytes(Request)
      BY <2>1, <2>2, Sizes
    <3>2. m \in NetType
      BY <3>1 DEF Goes, NetType
    <3>3. QED BY <2>1, <3>1, <3>2 DEF Goes, NetType
  <2>7. p.c = d /\ p.n = m /\ p.o = "none"
    BY <1>2 DEF Left, iov
  <2> HIDE DEF d, m
  <2>8. Progresses(d, m) /\ Answers(m)
    BY <2>2, <2>5, <2>6, Sizes DEF Progresses, Answers
  <2>9. QED BY <2>4, <2>6, <2>7, <2>8 DEF Follows
<1>3. QED BY <1>1, <1>2 DEF Send

\* What a read of b bytes by command c over n does to the counts of bytes.
Reads(c, n, b, d, m) ==
    /\ b \in Nat /\ (b = 0 => Available(n) = 0)
    /\ d \in CmdType /\ d.state = c.state /\ d.iov = c.iov /\ d.events = "in"
    /\ m \in NetType /\ m.read + d.toRead = n.read + c.toRead
    /\ m.written = n.written /\ m.came = n.came /\ m.reply = n.reply /\ m.status = n.status
    /\ Answers(m) /\ (b > 0 => m.written = Bytes(Request) /\ m.reply # "none")

LEMMA ReadCounts ==
    ASSUME NEW c, NEW n, Goes(c, n), c.state \in {"length", "reply"},
           NEW d, d = [c EXCEPT !.toRead = @ - Read(c, n)],
           NEW m, m = [n EXCEPT !.read = @ + Read(c, n)]
    PROVE  Reads(c, n, Read(c, n), d, m)
<1> DEFINE b == Read(c, n)
<1>1. /\ c.toRead \in Nat /\ n.came \in 0 .. ReplySize /\ n.read \in 0 .. ReplySize
      /\ c.toRead > 0 /\ c.toRead <= ReplySize /\ n.read <= n.came /\ c.events = "in"
  BY Sizes DEF Goes, CmdType, NetType, Progresses, Answers
<1>2. b \in Nat /\ b <= c.toRead /\ b <= n.came - n.read /\ (b = 0 => n.came - n.read = 0)
  BY <1>1, Sizes DEF Read, Available
<1>3. d = [c EXCEPT !.toRead = @ - b] /\ m = [n EXCEPT !.read = @ + b]
  OBVIOUS
<1> HIDE DEF b
<1>4. d.state = c.state /\ d.iov = c.iov /\ d.events = c.events /\ d.toRead = c.toRead - b
  BY <1>3 DEF Goes, CmdType
<1>5. d \in CmdType
  <2>1. c.toRead - b \in 0 .. ReplySize
    BY <1>1, <1>2, Sizes
  <2>2. QED BY <1>3, <2>1 DEF Goes, CmdType
<1>6. /\ m.read = n.read + b /\ m.written = n.written /\ m.came = n.came
      /\ m.reply = n.reply /\ m.status = n.status
  BY <1>3 DEF Goes, NetType
<1>7. m \in NetType
  <2>1. n.read + b \in 0 .. ReplySize
    BY <1>1, <1>2, Sizes
  <2>2. QED BY <1>3, <2>1 DEF Goes, NetType
<1>8. Answers(m)
  BY <1>1, <1>2, <1>6, Sizes DEF Goes, Answers
<1>9. b > 0 => m.written = Bytes(Request) /\ m.reply # "none"
  BY <1>1, <1>2, <1>6, Sizes DEF Goes, Answers
<1>10. m.read + d.toRead = n.read + c.toRead
  BY <1>1, <1>2, <1>4, <1>6
<1>11. Reads(c, n, b, d, m)
  BY <1>1, <1>2, <1>4, <1>5, <1>6, <1>7, <1>8, <1>9, <1>10 DEF Available, Reads
<1>12. QED BY <1>11 DEF b

LEMMA RestFollows ==
    ASSUME NEW c, NEW n, Goes(c, n), c.state = "reply",
           n.status = "closed" \/ Available(n) > 0 \/ n.read = LengthSize
    PROVE  Follows(ReceiveRest(c, n))
<1> DEFINE b == Read(c, n)
           d == [c EXCEPT !.toRead = @ - b]
           m == [n EXCEPT !.read = @ + b]
           p == ReceiveRest(c, n)
<1>1. /\ b \in Nat /\ (b = 0 => Available(n) = 0)
      /\ d \in CmdType /\ d.state = c.state /\ d.iov = c.iov /\ d.events = "in"
      /\ m \in NetType /\ m.read + d.toRead = n.read + c.toRead
      /\ m.written = n.written /\ m.came = n.came /\ m.reply = n.reply /\ m.status = n.status
      /\ Answers(m) /\ (b > 0 => m.written = Bytes(Request) /\ m.reply # "none")
  <2>1. Reads(c, n, b, d, m)
    BY ReadCounts
  <2> HIDE DEF b, d, m
  <2>2. QED BY <2>1 DEF Reads
<1>2. p = CASE b = 0 -> Left(c, n, "closed")
            [] b > 0 /\ d.toRead # 0 -> Left(d, m, "none")
            [] b > 0 /\ d.toRead = 0 -> Left(d, m, IF n.reply = "good" THEN "success" ELSE "failed")
  BY DEF ReceiveRest
<1> HIDE DEF b, d, m, p
<1>3. n.read + c.toRead = ReplySize /\ n.read \in Nat /\ n.came \in Nat
  BY Sizes DEF Goes, Progresses, NetType
<1>4. d.toRead \in Nat /\ m.read \in Nat
  BY <1>1, Sizes DEF CmdType, NetType
<1>5. CASE b = 0
  <2>1. p.n = n /\ p.o = "closed"
    BY <1>2, <1>5 DEF Left
  <2>2. n.status = "closed" \/ (n.came = LengthSize /\ n.read = LengthSize)
    BY <1>1, <1>3, <1>5, Sizes, SMTT(30) DEF Available
  <2>3. Follows(p)
    BY <2>1, <2>2 DEF Follows, Goes
  <2>4. QED BY <2>3 DEF p
<1>6. CASE b > 0 /\ d.toRead # 0
  <2>1. p.c = d /\ p.n = m /\ p.o = "none"
    BY <1>1, <1>2, <1>6 DEF Left
  <2>2. Progresses(d, m)
    BY <1>1, <1>3, <1>4, <1>6 DEF Goes, Progresses
  <2>3. Follows(p)
    BY <1>1, <2>1, <2>2 DEF Follows
  <2>4. QED BY <2>3 DEF p
<1>7. CASE b > 0 /\ d.toRead = 0
  <2>1. p.n = m /\ p.o = IF n.reply = "good" THEN "success" ELSE "failed"
    BY <1>1, <1>2, <1>7 DEF Left
  <2>2. m.read = ReplySize
    BY <1>1, <1>3, <1>4, <1>7, Sizes
  <2>3. Follows(p)
    BY <1>1, <1>7, <2>1, <2>2 DEF Follows
  <2>4. QED BY <2>3 DEF p
<1>8. QED BY <1>1, <1>5, <1>6, <1>7

LEMMA LengthFollows ==
    ASSUME NEW c, NEW n, Goes(c, n), c.state = "length",
           n.status = "closed" \/ Available(n) > 0, NEW p \in ReceiveLength(c, n)
    PROVE  Follows(p)
<1> DEFINE b == Read(c, n)
           d == [c EXCEPT !.toRead = @ - b]
           m == [n EXCEPT !.read = @ + b]
           e == [d EXCEPT !.state = "reply", !.toRead = RestSize]
<1>1. /\ b \in Nat /\ (b = 0 => Available(n) = 0)
      /\ d \in CmdType /\ d.state = c.state /\ d.iov = c.iov /\ d.events = "in"
      /\ m \in NetType /\ m.read + d.toRead = n.read + c.toRead
      /\ m.written = n.written /\ m.came = n.came /\ m.reply = n.reply /\ m.status = n.status
      /\ Answers(m) /\ (b > 0 => m.written = Bytes(Request) /\ m.reply # "none")
  <2>1. Reads(c, n, b, d, m)
    BY ReadCounts
  <2> HIDE DEF b, d, m
  <2>2. QED BY <2>1 DEF Reads
<1>2. p \in CASE b = 0 -> {Left(c, n, "closed")}
              [] b > 0 /\ d.toRead # 0 -> {Left(d, m, "none")}
              [] b > 0 /\ d.toRead = 0 ->
                   {ReceiveRest(e, m)} \cup (IF n.reply = "bad" THEN {Left(d, m, "failed")} ELSE {})
  BY DEF ReceiveLength
<1> HIDE DEF b, d, m
<1>3. n.read + c.toRead = LengthSize /\ n.read \in Nat /\ n.came \in Nat
  BY Sizes DEF Goes, Progresses, NetType
<1>4. d.toRead \in Nat /\ m.read \in Nat
  BY <1>1, Sizes DEF CmdType, NetType
<1>5. CASE b = 0
  <2>1. p.n = n /\ p.o = "closed"
    BY <1>2, <1>5 DEF Left
  <2>2. n.status = "closed"
    BY <1>1, <1>5
  <2>3. QED BY <2>1, <2>2 DEF Follows, Goes
<1>6. CASE b > 0 /\ d.toRead # 0
  <2>1. p.c = d /\ p.n = m /\ p.o = "none"
    BY <1>1, <1>2, <1>6 DEF Left
  <2>2. Progresses(d, m)
    BY <1>1, <1>3, <1>4, <1>6 DEF Goes, Progresses
  <2>3. QED BY <1>1, <2>1, <2>2 DEF Follows
<1>7. CASE b > 0 /\ d.toRead = 0
  <2>1. p = ReceiveRest(e, m) \/ p = Left(d, m, "failed")
    BY <1>1, <1>2, <1>7
  <2>2. e \in CmdType /\ e.state = "reply" /\ e.iov = c.iov /\ e.events = "in" /\ e.toRead = RestSize
    <3>1. e \in CmdType
      BY <1>1, Sizes DEF CmdType
    <3>2. QED BY <1>1, <3>1 DEF CmdType
  <2>3. m.read = LengthSize
    BY <1>1, <1>3, <1>4, <1>7, Sizes
  <2> HIDE DEF e
  <2>4. Progresses(e, m)
    BY <1>1, <2>2, <2>3, Sizes DEF Goes, Progresses
  <2>5. CASE p = ReceiveRest(e, m)
    <3>1. Goes(e, m)
      BY <1>1, <2>2, <2>4 DEF Goes
    <3>2. QED BY <2>2, <2>3, <2>5, <3>1, RestFollows
  <2>6. CASE p = Left(d, m, "failed")
    BY <1>1, <2>6 DEF Left, Follows
  <2>7. QED BY <2>1, <2>5, <2>6
<1>8. QED BY <1>1, <1>5, <1>6, <1>7

\* Only a command that gets an event for it is run, so that a read of nothing is the end.
LEMMA PhaseFollows ==
    ASSUME NEW c, NEW n, Goes(c, n),
           c.state \in {"length", "reply"} => n.status = "closed" \/ Available(n) > 0,
           NEW p \in Phase(c, n)
    PROVE  Follows(p)
<1>1. CASE c.state = "setup"
  <2>1. p \in Setup(c, n)
    BY <1>1 DEF Phase
  <2>2. QED BY <1>1, <2>1, SetupFollows
<1>2. CASE c.state = "send"
  <2>1. p \in Send(c, n)
    BY <1>2 DEF Phase
  <2>2. QED BY <1>2, <2>1, SendFollows
<1>3. CASE c.state = "length"
  <2>1. p \in ReceiveLength(c, n)
    BY <1>3 DEF Phase
  <2>2. QED BY <1>3, <2>1, LengthFollows
<1>4. CASE c.state = "reply"
  <2>1. p = ReceiveRest(c, n)
    BY <1>4 DEF Phase
  <2>2. QED BY <1>4, <2>1, RestFollows
<1>5. CASE c.state = "canceled"
  <2>1. p = Left(c, n, "failed")
    BY <1>5 DEF Phase
  <2>2. QED BY <2>1, Fails
<1>6. c.state \in {"setup", "send", "length", "reply", "canceled"}
  BY DEF Goes, CmdType, Progresses
<1>7. QED BY <1>1, <1>2, <1>3, <1>4, <1>5, <1>6

-----------------------------------------------------------------------------
(* A command is run.                                                       *)

\* The list is of the commands that are to be called back.
ListFits ==
    /\ cmds \in Seq(Cmd) /\ IsInjective(cmds)
    /\ outcome \in [Cmd -> Outcomes]
    /\ \A c \in Cmd : c \in Range(cmds) <=> outcome[c] = "none"

\* What the inductive invariant says of all but the loop.
DataFits ==
    /\ ListFits
    /\ cmd \in [Cmd -> CmdType] /\ net \in [Cmd -> NetType]
    /\ ExchangesFit /\ OutcomesAreTrue

Ends4 == {"success", "failed", "closed", "timeout"}

\* The callback of the command at place k was told o.
CalledBack(k, o, begun, canceled) ==
    /\ ListFits' /\ Leaves(cmds', cmds, k, begun)
    /\ begun \cap Range(cmds) = {} /\ canceled \subseteq Range(cmds) \ {cmds[k]}
    /\ \A b \in begun : outcome[b] = "unborn"
    /\ \A d \in Cmd : outcome'[d] = IF d = cmds[k] THEN o ELSE IF d \in begun THEN "none"
                                   ELSE outcome[d]

LEMMA CallbackKeepsList ==
    ASSUME ListFits, NEW k \in 1 .. Len(cmds), NEW o \in Ends4,
           NEW begun \in SUBSET Cmd, NEW canceled \in SUBSET Cmd,
           CallsBack(cmds[k], o, begun, canceled)
    PROVE  CalledBack(k, o, begun, canceled)
<1>1. /\ begun \subseteq {b \in Cmd : outcome[b] = "unborn"}
      /\ canceled \subseteq Range(cmds) \ {cmds[k]}
      /\ outcome' = [d \in Cmd |-> IF d = cmds[k] THEN o ELSE IF d \in begun THEN "none" ELSE outcome[d]]
  BY DEF CallsBack
<1>2. begun \cap Range(cmds) = {}
  BY <1>1 DEF ListFits
<1>3. PICK list \in SetToSeqs(begun) : cmds' = RemoveAt(cmds, Place(cmds, cmds[k])) \o list
  BY DEF CallsBack
<1>4. Leaves(cmds', cmds, k, begun)
  <2>1. Leaves(RemoveAt(cmds, Place(cmds, cmds[k])) \o list, cmds, k, begun)
    BY <1>2, ListLeaves DEF ListFits
  <2>2. QED BY <1>3, <2>1, Zenon
<1>5. \A d \in Cmd : outcome'[d] = IF d = cmds[k] THEN o ELSE IF d \in begun THEN "none"
                                  ELSE outcome[d]
  BY <1>1
<1>6. cmds[k] \in Cmd /\ cmds[k] \in Range(cmds)
  BY DEF ListFits, Range
<1>7. outcome' \in [Cmd -> Outcomes]
  BY <1>1 DEF ListFits, Outcomes, Ends4
<1>8. ASSUME NEW c \in Cmd PROVE c \in Range(cmds') <=> outcome'[c] = "none"
  <2>1. c \in Range(cmds') <=> (c \in Range(cmds) /\ c # cmds[k]) \/ c \in begun
    BY <1>4 DEF Leaves
  <2>2. c \in Range(cmds) <=> outcome[c] = "none"
    BY DEF ListFits
  <2>3. CASE c = cmds[k]
    BY <1>2, <1>5, <1>6, <2>1, <2>3 DEF Ends4
  <2>4. CASE c # cmds[k]
    BY <1>2, <1>5, <2>1, <2>2, <2>4
  <2>5. QED BY <2>3, <2>4
<1>9. ListFits'
  BY <1>4, <1>7, <1>8 DEF ListFits, Leaves
<1>10. QED BY <1>1, <1>2, <1>4, <1>5, <1>9 DEF CalledBack

\* Only the command that is run, at the k-th place, and those its callback cancels change.
Ran(k) ==
    /\ cmds' = cmds \/ \E begun \in SUBSET Cmd : Leaves(cmds', cmds, k, begun)
    /\ \A d \in Cmd \ {cmds[k]} : /\ net'[d] = net[d]
                                  /\ cmd'[d] = cmd[d] \/ cmd'[d].state = "canceled"

\* The command at place k becomes p.
Does(k, p, canceled) ==
    /\ net' = [net EXCEPT ![cmds[k]] = p.n]
    /\ cmd' = [d \in Cmd |-> IF d = cmds[k] THEN IF p.o = "none" THEN p.c ELSE New
                             ELSE IF d \in canceled THEN [cmd[d] EXCEPT !.state = "canceled"]
                             ELSE cmd[d]]

LEMMA RunGoesOn ==
    ASSUME DataFits, NEW k \in 1 .. Len(cmds), NEW p, Follows(p), p.o = "none",
           UNCHANGED <<cmds, outcome>>, NEW canceled, canceled = {}, Does(k, p, canceled)
    PROVE  DataFits' /\ Ran(k)
<1>1. cmds[k] \in Cmd /\ outcome[cmds[k]] = "none"
  BY DEF DataFits, ListFits, Range
<1>2. p.n \in NetType /\ Answers(p.n) /\ p.c \in CmdType /\ Progresses(p.c, p.n)
  BY DEF Follows
<1>3. net' \in [Cmd -> NetType] /\ cmd' \in [Cmd -> CmdType]
  BY <1>1, <1>2 DEF DataFits, Does
<1>4. net'[cmds[k]] = p.n /\ cmd'[cmds[k]] = p.c
  BY <1>1 DEF DataFits, Does
<1>5. \A d \in Cmd \ {cmds[k]} : net'[d] = net[d] /\ cmd'[d] = cmd[d]
  BY DEF DataFits, Does
<1>6. ListFits'
  BY DEF DataFits, ListFits
<1>7. ExchangesFit'
  <2> SUFFICES ASSUME NEW d \in Cmd
               PROVE  /\ Answers(net'[d])
                      /\ outcome[d] = "none" => Progresses(cmd'[d], net'[d])
                      /\ outcome[d] = "unborn" => cmd'[d] = New /\ Untouched(net'[d])
    BY DEF ExchangesFit
  <2>1. CASE d = cmds[k]
    BY <1>1, <1>2, <1>4, <2>1
  <2>2. CASE d # cmds[k]
    BY <1>5, <2>2 DEF DataFits, ExchangesFit
  <2>3. QED BY <2>1, <2>2
<1>8. OutcomesAreTrue'
  <2>1. \A d \in Cmd : outcome[d] \in {"success", "closed"} => net'[d] = net[d]
    BY <1>1, <1>5
  <2>2. QED BY <2>1 DEF DataFits, OutcomesAreTrue, SuccessMeansAnswered, ClosedMeansClosed
<1>9. QED BY <1>3, <1>5, <1>6, <1>7, <1>8 DEF DataFits, Ran

LEMMA RunCallsBack ==
    ASSUME DataFits, NEW k \in 1 .. Len(cmds), NEW p, Follows(p), p.o # "none",
           NEW begun \in SUBSET Cmd, NEW canceled \in SUBSET Cmd,
           CallsBack(cmds[k], p.o, begun, canceled), Does(k, p, canceled)
    PROVE  DataFits' /\ Ran(k)
<1>1. cmds[k] \in Cmd /\ outcome[cmds[k]] = "none"
  BY DEF DataFits, ListFits, Range
<1>2. p.n \in NetType /\ Answers(p.n) /\ p.o \in Ends4
  BY DEF Follows, Ends4
<1>3. CalledBack(k, p.o, begun, canceled)
  <2>1. ListFits
    BY DEF DataFits
  <2>2. QED BY <1>2, <2>1, CallbackKeepsList
<1> USE DEF CalledBack
<1>4. net' \in [Cmd -> NetType] /\ net'[cmds[k]] = p.n
  BY <1>1, <1>2 DEF DataFits, Does
<1>5. \A d \in Cmd \ {cmds[k]} : net'[d] = net[d]
  BY DEF DataFits, Does
<1>6. cmd' \in [Cmd -> CmdType]
  <2>1. \A d \in Cmd : [cmd[d] EXCEPT !.state = "canceled"] \in CmdType
    BY DEF DataFits, CmdType
  <2>2. \A d \in Cmd : cmd[d] \in CmdType
    BY DEF DataFits
  <2>3. QED BY <2>1, <2>2, NewIs, <1>2 DEF Does, Follows
<1>7. \A d \in Cmd \ {cmds[k]} :
        cmd'[d] = IF d \in canceled THEN [cmd[d] EXCEPT !.state = "canceled"] ELSE cmd[d]
  BY DEF Does
<1>8. \A d \in Cmd : LET x == [cmd[d] EXCEPT !.state = "canceled"]
                     IN  x.state = "canceled" /\ x.iov = cmd[d].iov
  BY DEF DataFits, CmdType
<1>9. ExchangesFit'
  <2> SUFFICES ASSUME NEW d \in Cmd
               PROVE  /\ Answers(net'[d])
                      /\ outcome'[d] = "none" => Progresses(cmd'[d], net'[d])
                      /\ outcome'[d] = "unborn" => cmd'[d] = New /\ Untouched(net'[d])
    BY DEF ExchangesFit
  <2>0. /\ Answers(net[d])
        /\ outcome[d] = "none" => Progresses(cmd[d], net[d])
        /\ outcome[d] = "unborn" => cmd[d] = New /\ Untouched(net[d])
    BY DEF DataFits, ExchangesFit
  <2>1. CASE d = cmds[k]
    BY <1>2, <1>3, <1>4, <2>1 DEF Ends4
  <2>2. CASE d # cmds[k] /\ d \in begun
    <3>1. net'[d] = net[d] /\ cmd'[d] = cmd[d] /\ outcome[d] = "unborn" /\ outcome'[d] = "none"
      BY <1>3, <1>5, <1>7, <2>2
    <3>2. Goes(New, net[d])
      BY <2>0, <3>1, Begins DEF DataFits
    <3>3. QED BY <2>0, <3>1, <3>2 DEF Goes
  <2>3. CASE d # cmds[k] /\ d \notin begun /\ d \in canceled
    <3>1. net'[d] = net[d] /\ outcome'[d] = outcome[d] /\ outcome[d] = "none"
      BY <1>3, <1>5, <2>3 DEF DataFits, ListFits
    <3>2. cmd'[d].state = "canceled" /\ cmd'[d].iov = cmd[d].iov
      BY <1>7, <1>8, <2>3
    <3>3. Progresses(cmd'[d], net[d])
      BY <2>0, <3>1, <3>2 DEF Progresses
    <3>4. QED BY <2>0, <3>1, <3>3
  <2>4. CASE d # cmds[k] /\ d \notin begun /\ d \notin canceled
    BY <1>3, <1>5, <1>7, <2>0, <2>4
  <2>5. QED BY <2>1, <2>2, <2>3, <2>4
<1>10. OutcomesAreTrue'
  <2>1. \A d \in Cmd \ {cmds[k]} :
          outcome'[d] \in {"success", "closed"} => outcome'[d] = outcome[d] /\ net'[d] = net[d]
    BY <1>3, <1>5
  <2>2. outcome'[cmds[k]] = p.o
    BY <1>1, <1>3
  <2>3. SuccessMeansAnswered'
    BY <1>4, <2>1, <2>2 DEF DataFits, OutcomesAreTrue, SuccessMeansAnswered, Follows
  <2>4. ClosedMeansClosed'
    BY <1>4, <2>1, <2>2 DEF DataFits, OutcomesAreTrue, ClosedMeansClosed, Follows
  <2>5. QED BY <2>3, <2>4 DEF OutcomesAreTrue
<1>11. Ran(k)
  BY <1>3, <1>5, <1>7, <1>8, ZenonT(40) DEF Ran
<1>12. QED BY <1>3, <1>4, <1>6, <1>9, <1>10, <1>11 DEF DataFits

\* The command at place k may be run on an event.
MayRun(k, hup) ==
    LET c == cmds[k]
    IN ~hup /\ cmd[c].state \in {"length", "reply"} => net[c].status = "closed" \/ Available(net[c]) > 0

LEMMA RunKeeps ==
    ASSUME DataFits, NEW k \in 1 .. Len(cmds), NEW hup \in BOOLEAN, MayRun(k, hup), Runs(cmds[k], hup)
    PROVE  DataFits' /\ Ran(k)
<1> DEFINE c == cmds[k]
           x == IF hup THEN [cmd[c] EXCEPT !.state = "error"] ELSE cmd[c]
<1>1. PICK p \in Phase(x, net[c]) :
        /\ net' = [net EXCEPT ![c] = p.n]
        /\ \E begun, canceled \in SUBSET Cmd :
              /\ IF p.o = "none" THEN begun = {} /\ canceled = {} /\ UNCHANGED <<cmds, outcome>>
                                 ELSE CallsBack(c, p.o, begun, canceled)
              /\ cmd' = [d \in Cmd |-> IF d = c THEN IF p.o = "none" THEN p.c ELSE New
                                       ELSE IF d \in canceled THEN [cmd[d] EXCEPT !.state = "canceled"]
                                       ELSE cmd[d]]
  BY DEF Runs
<1>2. PICK begun \in SUBSET Cmd, canceled \in SUBSET Cmd :
        /\ IF p.o = "none" THEN begun = {} /\ canceled = {} /\ UNCHANGED <<cmds, outcome>>
                           ELSE CallsBack(c, p.o, begun, canceled)
        /\ cmd' = [d \in Cmd |-> IF d = c THEN IF p.o = "none" THEN p.c ELSE New
                                 ELSE IF d \in canceled THEN [cmd[d] EXCEPT !.state = "canceled"]
                                 ELSE cmd[d]]
  BY <1>1
<1>3. Goes(cmd[c], net[c])
  <2>1. c \in Cmd /\ outcome[c] = "none"
    BY DEF DataFits, ListFits, Range
  <2>2. QED BY <2>1 DEF DataFits, ExchangesFit, Goes
<1>4. Follows(p)
  <2>1. CASE hup
    <3>1. x.state = "error"
      BY <1>3, <2>1 DEF Goes, CmdType
    <3>2. p = Left(x, net[c], "failed")
      <4> HIDE DEF x, c
      <4>1. QED BY <3>1 DEF Phase
    <3>3. QED BY <1>3, <3>2, Fails
  <2>2. CASE ~hup
    <3>1. p \in Phase(cmd[c], net[c])
      BY <2>2
    <3>2. cmd[c].state \in {"length", "reply"} => net[c].status = "closed" \/ Available(net[c]) > 0
      BY <2>2 DEF MayRun
    <3>3. QED BY <1>3, <3>1, <3>2, PhaseFollows
  <2>3. QED BY <2>1, <2>2
<1>5. Does(k, p, canceled)
  BY <1>1, <1>2 DEF Does
<1>6. CASE p.o = "none"
  <2>1. UNCHANGED <<cmds, outcome>> /\ canceled = {}
    BY <1>2, <1>6
  <2> HIDE DEF x
  <2>2. QED BY <1>4, <1>5, <1>6, <2>1, RunGoesOn
<1>7. CASE p.o # "none"
  <2>1. CallsBack(cmds[k], p.o, begun, canceled)
    BY <1>2, <1>7
  <2> HIDE DEF x
  <2>2. QED BY <1>4, <1>5, <1>7, <2>1, RunCallsBack
<1>8. QED BY <1>6, <1>7

-----------------------------------------------------------------------------
(* The walk.                                                               *)

\* What the inductive invariant says of the loop.
LoopKeeps ==
    /\ loop \in LoopType /\ {loop.at, loop.next} \subseteq Range(cmds) \cup {None}
    /\ late \in BOOLEAN /\ mixed \in BOOLEAN /\ ~mixed
    /\ loop.pc = "off" => cmds = <<>>
    /\ LoopFits

LEMMA InvParts == Inv <=> DataFits /\ LoopKeeps
BY DEF Inv, DataFits, LoopKeeps, ListFits, AsyncTypeOK, PositionsMatch, CalledBackOnce

LEMMA ToSeeNext ==
    ASSUME NEW r \in Seq(Reports), NEW i \in 1 .. Len(r)
    PROVE  /\ Cardinality(ToSee(r, i)) \in Nat /\ Cardinality(ToSee(r, i + 1)) \in Nat
           /\ Cardinality(ToSee(r, i + 1))
                = IF r[i] = "nothing" THEN Cardinality(ToSee(r, i)) ELSE Cardinality(ToSee(r, i)) - 1
           /\ Cardinality(ToSee(r, i + 1)) > 0 => i + 1 \in 1 .. Len(r)
<1>1. IsFiniteSet(ToSee(r, i)) /\ IsFiniteSet(ToSee(r, i + 1))
  <2>1. IsFiniteSet(i .. Len(r)) /\ IsFiniteSet(i + 1 .. Len(r))
    BY FS_Interval
  <2>2. ToSee(r, i) \subseteq i .. Len(r) /\ ToSee(r, i + 1) \subseteq i + 1 .. Len(r)
    BY DEF ToSee
  <2>3. QED BY <2>1, <2>2, FS_Subset
<1>2. ToSee(r, i + 1) = ToSee(r, i) \ {i} /\ (i \in ToSee(r, i) <=> r[i] # "nothing")
  BY DEF ToSee
<1>3. Cardinality(ToSee(r, i)) \in Nat /\ Cardinality(ToSee(r, i + 1)) \in Nat
  BY <1>1, FS_CardinalityType
<1>4. Cardinality(ToSee(r, i) \ {i})
        = IF i \in ToSee(r, i) THEN Cardinality(ToSee(r, i)) - 1 ELSE Cardinality(ToSee(r, i))
  BY <1>1, FS_RemoveElement
<1>5. ASSUME Cardinality(ToSee(r, i + 1)) > 0 PROVE i + 1 \in 1 .. Len(r)
  <2>1. ToSee(r, i + 1) # {}
    <3> SUFFICES ASSUME ToSee(r, i + 1) = {} PROVE FALSE
      OBVIOUS
    <3>1. Cardinality(ToSee(r, i + 1)) = 0
      BY FS_EmptySet, Zenon
    <3>2. QED BY <1>5, <3>1
  <2>2. PICK j \in ToSee(r, i + 1) : TRUE
    BY <2>1
  <2>3. j \in i + 1 .. Len(r)
    BY <2>2 DEF ToSee
  <2>4. QED BY <2>3
<1>6. QED BY <1>2, <1>3, <1>4, <1>5

\* The next command of the walk, before and after a callback.
LEMMA AheadStays ==
    ASSUME DataFits, NEW k \in 1 .. Len(cmds), Ran(k), DataFits',
           NEW poller \in Seq(Cmd), NEW i \in Nat, i + 1 \in 1 .. Len(poller),
           Ahead(cmds, poller, i, k)
    PROVE  /\ k + 1 \in 1 .. Len(cmds)
           /\ \E m \in 1 .. Len(cmds') : cmds'[m] = cmds[k + 1] /\ Ahead(cmds', poller, i + 1, m)
<1>1. \A j \in 0 .. Len(poller) - i : k + j \in 1 .. Len(cmds) /\ cmds[k + j] = poller[i + j]
  BY DEF Ahead, DataFits, ListFits
<1>2. PICK n \in Nat : n = Len(poller)
  OBVIOUS
<1>3. \A j \in 0 .. n - (i + 1) : /\ 1 + j \in 0 .. n - i
                                 /\ k + (1 + j) = (k + 1) + j /\ i + (1 + j) = (i + 1) + j
  BY <1>2
<1>4. \A j \in 0 .. n - (i + 1) :
        (k + 1) + j \in 1 .. Len(cmds) /\ cmds[(k + 1) + j] = poller[(i + 1) + j]
  BY <1>1, <1>2, <1>3
<1>5. k + 1 \in 1 .. Len(cmds)
  <2>1. 0 \in 0 .. n - (i + 1) /\ (k + 1) + 0 = k + 1
    BY <1>2
  <2>2. QED BY <1>4, <2>1
<1>6. CASE cmds' = cmds
  <2>1. \A j \in 0 .. Len(poller) - (i + 1) :
          (k + 1) + j \in DOMAIN cmds /\ cmds[(k + 1) + j] = poller[(i + 1) + j]
    BY <1>2, <1>4 DEF DataFits, ListFits
  <2>2. Ahead(cmds, poller, i + 1, k + 1)
    BY <2>1, Zenon DEF Ahead
  <2>3. QED BY <1>5, <1>6, <2>2
<1>7. ASSUME NEW begun \in SUBSET Cmd, Leaves(cmds', cmds, k, begun)
      PROVE  \E m \in 1 .. Len(cmds') : cmds'[m] = cmds[k + 1] /\ Ahead(cmds', poller, i + 1, m)
  <2>1. PICK l \in Nat : l = Len(cmds)
    BY DEF DataFits, ListFits
  <2>2. PICK q \in Nat : q = Len(cmds')
    BY DEF DataFits, ListFits
  <2>3. q >= l - 1 /\ \A j \in 1 .. l - 1 : cmds'[j] = IF j < k THEN cmds[j] ELSE cmds[j + 1]
    BY <1>7, <2>1, <2>2 DEF Leaves
  <2>4. \A j \in k .. l - 1 : j \in 1 .. q /\ cmds'[j] = cmds[j + 1]
    BY <2>1, <2>2, <2>3
  <2>5. ASSUME NEW j \in 0 .. n - (i + 1)
        PROVE  k + j \in 1 .. q /\ cmds'[k + j] = poller[(i + 1) + j]
    <3>1. (k + 1) + j \in 1 .. l /\ cmds[(k + 1) + j] = poller[(i + 1) + j]
      BY <1>4, <2>1
    <3>2. k + j \in k .. l - 1 /\ (k + j) + 1 = (k + 1) + j
      BY <2>1, <3>1
    <3>3. QED BY <2>4, <3>1, <3>2
  <2>6. Ahead(cmds', poller, i + 1, k)
    BY <1>2, <2>2, <2>5 DEF Ahead, DataFits, ListFits
  <2>7. k \in 1 .. Len(cmds') /\ cmds'[k] = cmds[k + 1]
    BY <1>5, <2>1, <2>2, <2>4
  <2>8. QED BY <2>6, <2>7
<1>8. QED BY <1>5, <1>6, <1>7 DEF Ran

LEMMA IdleIs ==
    /\ Idle \in LoopType /\ Idle.pc = "polling" /\ Idle.at = None /\ Idle.next = None
<1>1. <<>> \in Seq(Cmd) /\ <<>> \in Seq(Reports)
  OBVIOUS
<1>2. QED BY <1>1 DEF Idle, LoopType

LEMMA RoundEndsFit ==
    ASSUME ListFits', loop' = RoundEnds(cmds'), late' \in BOOLEAN, mixed' = FALSE
    PROVE  LoopKeeps'
<1>1. cmds' \in Seq(Cmd) /\ IsInjective(cmds')
  BY DEF ListFits
<1>2. CASE loop' = Idle
  <2>1. LoopFits'
    BY <1>2, IdleIs DEF LoopFits
  <2>2. QED BY <1>2, <2>1, IdleIs DEF LoopKeeps
<1>3. CASE loop' # Idle
  <2>1. /\ cmds' # <<>>
        /\ loop' = [Idle EXCEPT !.pc = "expiring", !.at = Head(cmds'), !.next = After(cmds', Head(cmds'))]
    BY <1>3 DEF RoundEnds
  <2>2. 1 \in DOMAIN cmds' /\ Head(cmds') = cmds'[1] /\ Len(cmds') \in Nat
    BY <1>1, <2>1
  <2>3. After(cmds', cmds'[1]) = IF 1 = Len(cmds') THEN None ELSE cmds'[1 + 1]
    BY <1>1, <2>2, AfterIs
  <2>4. loop'.pc = "expiring" /\ loop'.at = cmds'[1] /\ loop'.next = IF Len(cmds') = 1 THEN None ELSE cmds'[2]
    BY <2>1, <2>2, <2>3 DEF Idle
  <2>5. ExpiryFits'
    BY <2>1, <2>4 DEF ExpiryFits
  <2>6. loop'.at \in Range(cmds') /\ loop'.next \in Range(cmds') \cup {None}
    <3>1. Len(cmds') # 1 => 2 \in DOMAIN cmds'
      <4>1. PICK n \in Nat : n = Len(cmds')
        BY <2>2
      <4>2. DOMAIN cmds' = 1 .. n
        BY <1>1, <4>1
      <4>3. QED BY <2>2, <4>1, <4>2
    <3>2. \A j \in DOMAIN cmds' : cmds'[j] \in Range(cmds')
      BY DEF Range
    <3>3. QED BY <2>2, <2>4, <3>1, <3>2
  <2>7. Range(cmds') \subseteq Cmd
    BY <1>1 DEF Range
  <2>8. loop' \in LoopType
    <3>1. Head(cmds') \in Cmd \cup {None} /\ After(cmds', Head(cmds')) \in Cmd \cup {None}
      BY <2>1, <2>2, <2>4, <2>6, <2>7, IdleIs DEF LoopType
    <3>2. QED BY <2>1, <3>1, IdleIs DEF LoopType
  <2>9. QED BY <2>4, <2>5, <2>6, <2>8 DEF LoopKeeps, LoopFits
<1>4. QED BY <1>2, <1>3

-----------------------------------------------------------------------------
(* The steps.                                                              *)

\* What a connection does while the loop polls.
LEMMA NetChanges ==
    ASSUME DataFits, LoopKeeps, NEW c \in Cmd, Env(c), NEW n \in NetType,
           net' = [net EXCEPT ![c] = n], Answers(n),
           n.written = net[c].written, n.read = net[c].read,
           UNCHANGED <<cmds, cmd, loop, late, outcome, mixed>>
    PROVE  DataFits' /\ LoopKeeps'
<1>1. loop.pc = "polling" /\ outcome[c] = "none"
  BY DEF Env
<1>2. net' \in [Cmd -> NetType] /\ net'[c] = n /\ \A d \in Cmd \ {c} : net'[d] = net[d]
  BY DEF DataFits
<1>3. ExchangesFit'
  <2> SUFFICES ASSUME NEW d \in Cmd
               PROVE  /\ Answers(net'[d])
                      /\ outcome[d] = "none" => Progresses(cmd[d], net'[d])
                      /\ outcome[d] = "unborn" => cmd[d] = New /\ Untouched(net'[d])
    BY DEF ExchangesFit
  <2>1. /\ Answers(net[d])
        /\ outcome[d] = "none" => Progresses(cmd[d], net[d])
        /\ outcome[d] = "unborn" => cmd[d] = New /\ Untouched(net[d])
    BY DEF DataFits, ExchangesFit
  <2>2. CASE d = c
    <3>1. Progresses(cmd[c], n)
      BY <1>1, <2>1, <2>2 DEF Progresses
    <3>2. QED BY <1>1, <1>2, <2>2, <3>1
  <2>3. CASE d # c
    BY <1>2, <2>1, <2>3
  <2>4. QED BY <2>2, <2>3
<1>4. OutcomesAreTrue'
  <2>1. \A d \in Cmd : outcome[d] # "none" => net'[d] = net[d]
    BY <1>1, <1>2
  <2>2. QED BY <2>1 DEF DataFits, OutcomesAreTrue, SuccessMeansAnswered, ClosedMeansClosed
<1>5. ListFits'
  BY DEF DataFits, ListFits
<1>6. LoopFits'
  <2>1. loop' = Idle /\ loop'.pc = "polling"
    BY <1>1 DEF LoopKeeps, LoopFits
  <2>2. QED BY <2>1 DEF LoopFits
<1>7. LoopKeeps'
  BY <1>6 DEF LoopKeeps
<1>8. QED BY <1>2, <1>3, <1>4, <1>5, <1>7 DEF DataFits

LEMMA ConnectsKeeps ==
    ASSUME Inv, NEW c \in Cmd, Connects(c) PROVE Inv'
<1>1. DataFits /\ LoopKeeps
  BY InvParts
<1>2. PICK s \in {"open", "refused"} : net' = [net EXCEPT ![c].status = s]
  BY DEF Connects
<1> DEFINE n == [net[c] EXCEPT !.status = s]
<1>3. n \in NetType /\ net' = [net EXCEPT ![c] = n]
  BY <1>1, <1>2 DEF DataFits, NetType
<1>4. n.written = net[c].written /\ n.read = net[c].read /\ n.came = net[c].came /\ n.reply = net[c].reply
  BY <1>1 DEF DataFits, NetType
<1> HIDE DEF n
<1>5. Answers(n)
  BY <1>1, <1>4 DEF DataFits, ExchangesFit, Answers
<1>6. Env(c) /\ UNCHANGED <<cmds, cmd, loop, late, outcome, mixed>>
  BY DEF Connects
<1>7. DataFits' /\ LoopKeeps'
  BY <1>1, <1>3, <1>4, <1>5, <1>6, NetChanges
<1>8. QED BY <1>7, InvParts, PTL

LEMMA ArrivesKeeps ==
    ASSUME Inv, NEW c \in Cmd, Arrives(c) PROVE Inv'
<1>1. DataFits /\ LoopKeeps
  BY InvParts
<1>2. PICK k \in net[c].came + 1 .. ReplySize, r \in {"good", "bad"} :
        net' = [net EXCEPT ![c].came = k, ![c].reply = r]
  BY DEF Arrives
<1>3. net[c] \in NetType /\ net[c].came \in 0 .. ReplySize /\ net[c].read \in Nat
  BY <1>1, Sizes DEF DataFits, NetType
<1>4. k \in 0 .. ReplySize /\ k > net[c].came
  BY <1>3, Sizes
<1> DEFINE n == [net[c] EXCEPT !.came = k, !.reply = r]
<1>5. n \in NetType
  BY <1>3, <1>4 DEF NetType
<1>6. net' = [net EXCEPT ![c] = n]
  BY <1>1, <1>2 DEF DataFits
<1>7. n.written = net[c].written /\ n.read = net[c].read /\ n.came = k /\ n.reply = r
  BY <1>3 DEF NetType
<1> HIDE DEF n
<1>8. Answers(n)
  <2>1. net[c].read <= net[c].came /\ net[c].written = Bytes(Request)
    BY <1>1 DEF DataFits, ExchangesFit, Answers, Arrives
  <2>2. net[c].read <= k
    BY <1>3, <1>4, <2>1, Sizes
  <2>3. QED BY <1>7, <2>1, <2>2 DEF Answers
<1>9. Env(c) /\ UNCHANGED <<cmds, cmd, loop, late, outcome, mixed>>
  BY DEF Arrives
<1>10. DataFits' /\ LoopKeeps'
  BY <1>1, <1>5, <1>6, <1>7, <1>8, <1>9, NetChanges
<1>11. QED BY <1>10, InvParts, PTL

LEMMA ClosesKeeps ==
    ASSUME Inv, NEW c \in Cmd, Closes(c) PROVE Inv'
<1>1. DataFits /\ LoopKeeps
  BY InvParts
<1> DEFINE n == [net[c] EXCEPT !.status = "closed"]
<1>2. net' = [net EXCEPT ![c].status = "closed"]
  BY DEF Closes
<1>3. n \in NetType /\ net' = [net EXCEPT ![c] = n]
  BY <1>1, <1>2 DEF DataFits, NetType
<1>4. n.written = net[c].written /\ n.read = net[c].read /\ n.came = net[c].came /\ n.reply = net[c].reply
  BY <1>1 DEF DataFits, NetType
<1> HIDE DEF n
<1>5. Answers(n)
  BY <1>1, <1>4 DEF DataFits, ExchangesFit, Answers
<1>6. Env(c) /\ UNCHANGED <<cmds, cmd, loop, late, outcome, mixed>>
  BY DEF Closes
<1>7. DataFits' /\ LoopKeeps'
  BY <1>1, <1>3, <1>4, <1>5, <1>6, NetChanges
<1>8. QED BY <1>7, InvParts, PTL

LEMMA DataStays ==
    ASSUME DataFits, UNCHANGED <<cmds, cmd, net, outcome>> PROVE DataFits'
BY DEF DataFits, ListFits, ExchangesFit, OutcomesAreTrue, SuccessMeansAnswered, ClosedMeansClosed

LEMMA LoopStays ==
    ASSUME LoopKeeps, UNCHANGED <<cmds, cmd, net, loop, outcome, mixed>>, late' \in BOOLEAN
    PROVE  LoopKeeps'
<1>1. LoopFits'
  BY DEF LoopKeeps, LoopFits, WalkFits, ExpiryFits, EventFits
<1>2. QED BY <1>1 DEF LoopKeeps

LEMMA EndsKeeps ==
    ASSUME Inv, Ends PROVE Inv'
<1>1. DataFits /\ LoopKeeps /\ DataFits'
  BY InvParts, DataStays DEF Ends
<1>2. loop' = [Idle EXCEPT !.pc = "off"] /\ UNCHANGED <<cmds, late, mixed>>
  BY DEF Ends
<1>3. loop'.pc = "off" /\ loop' \in LoopType /\ loop'.at = None /\ loop'.next = None
  BY <1>2, IdleIs DEF LoopType
<1>4. cmds = <<>>
  <2>1. CASE loop.pc = "expiring" /\ loop.at = None
    <3>1. ExpiryFits
      BY <1>1, <2>1 DEF LoopKeeps, LoopFits
    <3>2. cmds # <<>> => cmds[1] \in Cmd
      BY <1>1 DEF DataFits, ListFits
    <3>3. QED BY <2>1, <3>1, <3>2, AsyncAssumption DEF ExpiryFits
  <2>2. QED BY <2>1 DEF Ends
<1>5. LoopKeeps'
  BY <1>1, <1>2, <1>3, <1>4 DEF LoopKeeps, LoopFits
<1>6. QED BY <1>1, <1>5, InvParts, PTL

LEMMA ExpireKeeps ==
    ASSUME Inv, Expire PROVE Inv'
<1>1. DataFits /\ LoopKeeps
  BY InvParts
<1>2. /\ loop.pc = "expiring" /\ loop.at # None
      /\ cmd' = [cmd EXCEPT ![loop.at] = New]
      /\ loop' = [loop EXCEPT !.at = loop.next,
                              !.next = IF loop.next = None THEN None ELSE After(cmds, loop.next)]
      /\ UNCHANGED <<net, late, mixed>>
  BY DEF Expire
<1>3. /\ cmds # <<>> /\ loop.at = cmds[1]
      /\ loop.next = IF Len(cmds) = 1 THEN None ELSE cmds[2]
  BY <1>1, <1>2 DEF LoopKeeps, LoopFits, ExpiryFits
<1>4. PICK none \in SUBSET Cmd : none = {}
  OBVIOUS
<1>5. PICK o \in Ends4 : o = "timeout"
  BY DEF Ends4
<1>6. CallsBack(cmds[1], o, none, none)
  BY <1>3, <1>4, <1>5 DEF Expire
<1>7. cmds \in Seq(Cmd) /\ IsInjective(cmds) /\ 1 \in 1 .. Len(cmds)
  BY <1>1, <1>3 DEF DataFits, ListFits
<1>8. CalledBack(1, o, none, none)
  <2>1. ListFits
    BY <1>1 DEF DataFits
  <2>2. PICK k \in 1 .. Len(cmds) : k = 1
    BY <1>7
  <2>3. CallsBack(cmds[k], o, none, none)
    BY <1>6, <2>2
  <2>4. CalledBack(k, o, none, none)
    BY <2>1, <2>3, CallbackKeepsList
  <2>5. QED BY <2>2, <2>4
<1>9. PICK p : p = Left(New, net[cmds[1]], o)
  OBVIOUS
<1>10. p.n = net[cmds[1]] /\ p.o = "timeout"
  BY <1>5, <1>9 DEF Left
<1>11. cmds[1] \in Cmd
  BY <1>7
<1>12. Follows(p)
  BY <1>1, <1>10, <1>11 DEF Follows, DataFits, ExchangesFit
<1>13. Does(1, p, none)
  <2>1. net' = [net EXCEPT ![cmds[1]] = p.n]
    BY <1>1, <1>2, <1>10, <1>11 DEF DataFits
  <2>2. cmd' = [d \in Cmd |-> IF d = cmds[1] THEN New ELSE cmd[d]]
    BY <1>1, <1>2, <1>3 DEF DataFits
  <2>3. QED BY <1>4, <1>10, <2>1, <2>2 DEF Does
<1>14. DataFits'
  <2>1. PICK k \in 1 .. Len(cmds) : k = 1
    BY <1>7
  <2>2. p.o # "none" /\ CallsBack(cmds[k], p.o, none, none) /\ Does(k, p, none)
    BY <1>5, <1>6, <1>10, <1>13, <2>1
  <2>3. QED BY <1>1, <1>12, <2>2, RunCallsBack
<1>15. PICK l \in Nat : l = Len(cmds)
  BY <1>7
<1>16. /\ cmds' \in Seq(Cmd) /\ Len(cmds') = l - 1
       /\ \A j \in 1 .. l - 1 : cmds'[j] = cmds[j + 1]
  BY <1>4, <1>8, <1>15 DEF CalledBack, Leaves
<1>17. /\ loop'.pc = "expiring" /\ loop'.at = loop.next
       /\ loop'.next = IF loop.next = None THEN None ELSE After(cmds, loop.next)
  BY <1>1, <1>2 DEF LoopKeeps, LoopType
<1>18. CASE l = 1
  <2>1. cmds' = <<>>
    BY <1>16, <1>18
  <2>2. loop'.at = None /\ loop'.next = None
    BY <1>3, <1>15, <1>17, <1>18
  <2>3. loop' \in LoopType
    BY <1>1, <1>2, <2>2, <1>17 DEF LoopKeeps, LoopType
  <2>4. LoopFits'
    BY <1>17, <2>1, <2>2 DEF LoopFits, ExpiryFits
  <2>5. LoopKeeps'
    BY <1>1, <1>2, <1>17, <2>2, <2>3, <2>4 DEF LoopKeeps
  <2>6. QED BY <1>14, <2>5, InvParts, PTL
<1>19. CASE l # 1
  <2>1. l \in Nat \ {0, 1}
    BY <1>7, <1>15, <1>19
  <2>2. 2 \in DOMAIN cmds /\ cmds' # <<>> /\ 1 \in 1 .. l - 1
    BY <1>7, <1>15, <1>16, <2>1
  <2>3. loop.next = cmds[2] /\ cmds[2] \in Cmd
    BY <1>3, <1>7, <1>15, <2>1, <2>2
  <2>4. After(cmds, cmds[2]) = IF 2 = Len(cmds) THEN None ELSE cmds[2 + 1]
    BY <1>7, <2>2, AfterIs
  <2>5. loop'.next = IF 2 = l THEN None ELSE cmds[2 + 1]
    BY <1>15, <1>17, <2>3, <2>4, AsyncAssumption
  <2>6. loop'.at = cmds'[1]
    BY <1>16, <1>17, <2>2, <2>3
  <2>7. loop'.next = IF l - 1 = 1 THEN None ELSE cmds'[2]
    <3>1. l # 2 => 2 \in 1 .. l - 1
      BY <2>1
    <3>2. l - 1 = 1 <=> 2 = l
      BY <2>1
    <3>3. QED BY <1>16, <2>5, <3>1, <3>2
  <2>8. ExpiryFits'
    BY <1>16, <2>2, <2>6, <2>7 DEF ExpiryFits
  <2>9. loop'.at \in Range(cmds') /\ loop'.next \in Range(cmds') \cup {None}
    <3>1. \A j \in 1 .. l - 1 : cmds'[j] \in Range(cmds')
      BY <1>16 DEF Range
    <3>2. l - 1 # 1 => 2 \in 1 .. l - 1
      BY <2>1
    <3>3. QED BY <2>2, <2>6, <2>7, <3>1, <3>2
  <2>10. loop'.at \in Cmd \cup {None} /\ loop'.next \in Cmd \cup {None}
    BY <1>16, <2>9 DEF Range
  <2>11. loop' \in LoopType
    BY <1>1, <1>2, <1>17, <2>10 DEF LoopKeeps, LoopType
  <2>12. LoopFits'
    BY <1>17, <2>8 DEF LoopFits
  <2>13. LoopKeeps'
    BY <1>1, <1>2, <1>17, <2>9, <2>11, <2>12 DEF LoopKeeps
  <2>14. QED BY <1>14, <2>13, InvParts, PTL
<1>20. QED BY <1>18, <1>19

LEMMA PollVisits ==
    ASSUME Inv, cmds # <<>>, NEW r \in [DOMAIN cmds -> Reports],
           \A k \in DOMAIN cmds : r[k] \in Events(cmds[k]),
           NEW active, active = Cardinality({k \in DOMAIN cmds : r[k] # "nothing"}), active > 0,
           loop' = [pc |-> "visiting", poller |-> cmds, revents |-> r, i |-> 1,
                    active |-> active, at |-> Head(cmds), next |-> After(cmds, Head(cmds))],
           UNCHANGED <<cmds, cmd, net, late, outcome, mixed>>
    PROVE  LoopKeeps'
<1>1. DataFits /\ LoopKeeps
  BY InvParts
<1>2. PICK l \in Nat \ {0} : l = Len(cmds) /\ DOMAIN cmds = 1 .. l
  BY <1>1 DEF DataFits, ListFits
<1>3. cmds \in Seq(Cmd) /\ IsInjective(cmds) /\ Head(cmds) = cmds[1] /\ 1 \in DOMAIN cmds
  BY <1>1, <1>2 DEF DataFits, ListFits
<1>4. r \in Seq(Reports) /\ Len(r) = l
  BY <1>2
<1>5. active = Cardinality(ToSee(r, 1)) /\ active \in Nat
  <2>1. {k \in DOMAIN cmds : r[k] # "nothing"} = ToSee(r, 1)
    BY <1>2, <1>4 DEF ToSee
  <2>2. 1 \in 1 .. Len(r)
    BY <1>4
  <2>3. Cardinality(ToSee(r, 1)) \in Nat
    BY <1>4, <2>2, ToSeeNext
  <2>4. QED BY <2>1, <2>3
<1>6. After(cmds, cmds[1]) = IF 1 = Len(cmds) THEN None ELSE cmds[1 + 1]
  BY <1>3, AfterIs
<1>7. /\ loop'.pc = "visiting" /\ loop'.poller = cmds /\ loop'.revents = r /\ loop'.i = 1
      /\ loop'.active = active /\ loop'.at = cmds[1] /\ loop'.next = After(cmds, cmds[1])
  BY <1>3
<1>8. loop'.next = IF 1 = Len(cmds) THEN None ELSE cmds[1 + 1]
  BY <1>6, <1>7
<1>9. cmds[1] \in Range(cmds) /\ loop'.next \in Range(cmds) \cup {None}
  <2>1. l # 1 => 1 + 1 \in 1 .. l
    BY <1>2
  <2>2. \A j \in 1 .. l : cmds[j] \in Range(cmds)
    BY <1>2 DEF Range
  <2>3. QED BY <1>2, <1>3, <1>8, <2>1, <2>2
<1>10. Range(cmds) \subseteq Cmd
  BY <1>3 DEF Range
<1>11. loop' \in LoopType
  <2>1. Head(cmds) \in Cmd \cup {None} /\ After(cmds, Head(cmds)) \in Cmd \cup {None}
    BY <1>3, <1>7, <1>9, <1>10
  <2>2. QED BY <1>3, <1>4, <1>5, <2>1 DEF LoopType
<1>12. Ahead(cmds, cmds, 1, 1)
  <2>1. \A j \in 0 .. Len(cmds) - 1 : 1 + j \in DOMAIN cmds /\ cmds[1 + j] = cmds[1 + j]
    BY <1>2
  <2>2. QED BY <2>1 DEF Ahead
<1>13. ASSUME NEW j \in 1 .. l PROVE EventFits(r[j], cmds[j])
  <2>1. r[j] \in Events(cmds[j])
    BY <1>2
  <2>2. cmds[j] \in Cmd /\ outcome[cmds[j]] = "none"
    BY <1>1, <1>2, <1>3 DEF DataFits, ListFits, Range
  <2>3. Progresses(cmd[cmds[j]], net[cmds[j]])
    BY <1>1, <2>2 DEF DataFits, ExchangesFit
  <2>4. QED BY <2>1, <2>3 DEF Events, EventFits, Progresses
<1>14. WalkFits'
  <2>1. Len(r) = Len(cmds) /\ 1 \in DOMAIN cmds
    BY <1>2, <1>3, <1>4
  <2>2. \E k \in DOMAIN cmds : /\ cmds[1] = cmds[k]
                               /\ loop'.next = IF k = Len(cmds) THEN None ELSE cmds[k + 1]
                               /\ Ahead(cmds, cmds, 1, k)
    BY <1>3, <1>8, <1>12
  <2>3. \A j \in 1 .. Len(cmds) : EventFits(r[j], cmds[j])'
    BY <1>2, <1>13 DEF EventFits, Available
  <2>4. QED BY <1>5, <1>7, <2>1, <2>2, <2>3 DEF WalkFits
<1>15. LoopFits'
  BY <1>7, <1>14 DEF LoopFits
<1>16. loop'.at \in Range(cmds) /\ mixed' \in BOOLEAN /\ ~mixed' /\ late' \in BOOLEAN
  BY <1>1, <1>7, <1>9 DEF LoopKeeps
<1>17. QED BY <1>7, <1>9, <1>11, <1>15, <1>16 DEF LoopKeeps

LEMMA PollKeeps ==
    ASSUME Inv, Poll PROVE Inv'
<1>1. DataFits /\ LoopKeeps
  BY InvParts
<1>2. cmds # <<>> /\ UNCHANGED <<cmds, cmd, net, late, outcome, mixed>>
  BY DEF Poll
<1>3. DataFits'
  BY <1>1, <1>2, DataStays
<1>4. PICK r \in [DOMAIN cmds -> Reports] :
        LET active == Cardinality({k \in DOMAIN cmds : r[k] # "nothing"})
        IN /\ \A k \in DOMAIN cmds : r[k] \in Events(cmds[k])
           /\ loop' = IF active > 0
                      THEN [pc |-> "visiting", poller |-> cmds, revents |-> r, i |-> 1,
                            active |-> active, at |-> Head(cmds), next |-> After(cmds, Head(cmds))]
                      ELSE IF late THEN [Idle EXCEPT !.pc = "expiring", !.at = Head(cmds),
                                                     !.next = After(cmds, Head(cmds))]
                      ELSE loop
  BY DEF Poll
<1>5. PICK active : active = Cardinality({k \in DOMAIN cmds : r[k] # "nothing"})
  OBVIOUS
<1>6. CASE active > 0
  <2>1. loop' = [pc |-> "visiting", poller |-> cmds, revents |-> r, i |-> 1,
                 active |-> active, at |-> Head(cmds), next |-> After(cmds, Head(cmds))]
    BY <1>4, <1>5, <1>6
  <2>2. \A k \in DOMAIN cmds : r[k] \in Events(cmds[k])
    BY <1>4
  <2>3. LoopKeeps'
    BY <1>2, <1>5, <1>6, <2>1, <2>2, PollVisits
  <2>4. QED BY <1>3, <2>3, InvParts, PTL
<1>7. CASE ~(active > 0) /\ late
  <2>1. loop' = RoundEnds(cmds')
    BY <1>2, <1>4, <1>5, <1>7 DEF RoundEnds
  <2>2. ListFits' /\ late' \in BOOLEAN /\ mixed' = FALSE
    BY <1>1, <1>2, <1>3 DEF DataFits, LoopKeeps
  <2>3. LoopKeeps'
    BY <2>1, <2>2, RoundEndsFit
  <2>4. QED BY <1>3, <2>3, InvParts, PTL
<1>8. CASE ~(active > 0) /\ ~late
  <2>1. UNCHANGED loop
    BY <1>4, <1>5, <1>8
  <2>2. late' \in BOOLEAN
    BY <1>1, <1>2 DEF LoopKeeps
  <2>3. LoopKeeps'
    BY <1>1, <1>2, <2>1, <2>2, LoopStays
  <2>4. QED BY <1>3, <2>3, InvParts, PTL
<1>9. QED BY <1>6, <1>7, <1>8

\* The walk goes to the next command and the next position together.
LEMMA WalkGoesOn ==
    ASSUME DataFits, LoopKeeps, loop.pc = "visiting", DataFits',
           NEW k \in 1 .. Len(cmds), loop.at = cmds[k], Ran(k),
           loop.next = IF k = Len(cmds) THEN None ELSE cmds[k + 1],
           Ahead(cmds, loop.poller, loop.i, k), loop.next # None,
           NEW active, active = Cardinality(ToSee(loop.revents, loop.i + 1)), active # 0,
           loop' = [loop EXCEPT !.i = @ + 1, !.active = active, !.at = loop.next,
                                !.next = After(cmds', loop.next)],
           UNCHANGED late, mixed' = FALSE
    PROVE  LoopKeeps'
<1>1. WalkFits /\ loop \in LoopType
  BY DEF LoopKeeps, LoopFits
<1>2. PICK poller \in Seq(Cmd), revents \in Seq(Reports), i \in Nat :
        poller = loop.poller /\ revents = loop.revents /\ i = loop.i
  BY <1>1 DEF LoopType
<1>3. Len(revents) = Len(poller) /\ i \in 1 .. Len(revents) /\ i \in 1 .. Len(poller)
  BY <1>1, <1>2 DEF WalkFits
<1>4. /\ loop'.pc = "visiting" /\ loop'.poller = poller /\ loop'.revents = revents
      /\ loop'.i = i + 1 /\ loop'.active = active /\ loop'.at = loop.next
      /\ loop'.next = After(cmds', loop.next)
  BY <1>1, <1>2 DEF LoopType
<1>5. active \in Nat /\ active > 0 /\ i + 1 \in 1 .. Len(revents)
  <2>1. active = Cardinality(ToSee(revents, i + 1))
    BY <1>2
  <2>2. active \in Nat
    BY <1>3, <2>1, ToSeeNext
  <2>3. active > 0
    BY <2>2
  <2>4. QED BY <1>3, <2>1, <2>2, <2>3, ToSeeNext
<1>6. i + 1 \in 1 .. Len(poller)
  BY <1>3, <1>5
<1>7. /\ k + 1 \in 1 .. Len(cmds)
      /\ \E m \in 1 .. Len(cmds') : cmds'[m] = cmds[k + 1] /\ Ahead(cmds', poller, i + 1, m)
  BY <1>2, <1>6, AheadStays
<1>8. PICK m \in 1 .. Len(cmds') : cmds'[m] = cmds[k + 1] /\ Ahead(cmds', poller, i + 1, m)
  BY <1>7
<1>9. cmds' \in Seq(Cmd) /\ IsInjective(cmds') /\ m \in DOMAIN cmds'
  BY <1>8 DEF DataFits, ListFits
<1>10. loop.next = cmds'[m]
  BY <1>7, <1>8
<1>11. After(cmds', cmds'[m]) = IF m = Len(cmds') THEN None ELSE cmds'[m + 1]
  BY <1>9, AfterIs
<1>12. loop'.at = cmds'[m] /\ loop'.next = IF m = Len(cmds') THEN None ELSE cmds'[m + 1]
  BY <1>4, <1>10, <1>11
<1>13. loop'.at \in Range(cmds') /\ loop'.next \in Range(cmds') \cup {None}
  <2>1. PICK n \in Nat : n = Len(cmds') /\ DOMAIN cmds' = 1 .. n
    BY <1>9
  <2>2. m # n => m + 1 \in 1 .. n
    BY <2>1
  <2>3. \A j \in 1 .. n : cmds'[j] \in Range(cmds')
    BY <2>1 DEF Range
  <2>4. QED BY <1>9, <1>12, <2>1, <2>2, <2>3
<1>14. Range(cmds') \subseteq Cmd
  BY <1>9 DEF Range
<1>15. loop' \in LoopType
  <2>1. loop.next \in Cmd \cup {None} /\ After(cmds', loop.next) \in Cmd \cup {None}
    BY <1>4, <1>13, <1>14
  <2>2. loop.i + 1 \in Nat
    BY <1>2
  <2>3. QED BY <1>1, <1>5, <2>1, <2>2 DEF LoopType
<1>16. ASSUME NEW j \in i + 1 .. Len(poller) PROVE EventFits(revents[j], poller[j])'
  <2>1. j \in i .. Len(poller) /\ j - i \in 0 .. Len(poller) - i /\ i + (j - i) = j /\ j - i # 0
    BY <1>3
  <2>2. EventFits(revents[j], poller[j])
    BY <1>1, <1>2, <2>1 DEF WalkFits
  <2>3. k + (j - i) \in DOMAIN cmds /\ cmds[k + (j - i)] = poller[j]
    BY <1>2, <2>1 DEF Ahead
  <2>4. k + (j - i) # k
    BY <2>1, SMTT(30)
  <2>5. poller[j] \in Cmd \ {cmds[k]}
    BY <2>3, <2>4 DEF DataFits, ListFits, IsInjective
  <2>6. /\ net'[poller[j]] = net[poller[j]]
        /\ cmd'[poller[j]] = cmd[poller[j]] \/ cmd'[poller[j]].state = "canceled"
    BY <2>5 DEF Ran
  <2>7. QED BY <2>2, <2>6 DEF EventFits, Available
<1>17. WalkFits'
  <2>1. Len(loop'.revents) = Len(loop'.poller) /\ loop'.i \in DOMAIN loop'.poller
    BY <1>3, <1>4, <1>6
  <2>2. loop'.active = Cardinality(ToSee(loop'.revents, loop'.i)) /\ loop'.active > 0
    BY <1>2, <1>4, <1>5
  <2>3. \E n \in DOMAIN cmds' : /\ loop'.at = cmds'[n]
                                /\ loop'.next = IF n = Len(cmds') THEN None ELSE cmds'[n + 1]
                                /\ Ahead(cmds', loop'.poller, loop'.i, n)
    BY <1>4, <1>8, <1>9, <1>12
  <2>4. \A j \in loop'.i .. Len(loop'.poller) : EventFits(loop.revents[j], loop.poller[j])'
    BY <1>4, <1>16
  <2>5. QED BY <2>1, <2>2, <2>3, <2>4 DEF WalkFits
<1>18. LoopFits'
  BY <1>4, <1>17 DEF LoopFits
<1>19. QED BY <1>4, <1>13, <1>15, <1>18 DEF LoopKeeps

LEMMA VisitKeeps ==
    ASSUME Inv, Visit PROVE Inv'
<1>1. DataFits /\ LoopKeeps
  BY InvParts
<1>2. PICK e \in Reported :
        LET runs == e # "nothing" \/ cmd[loop.at].state = "error"
            active == IF runs THEN loop.active - 1 ELSE loop.active
        IN /\ IF runs THEN Runs(loop.at, e = "hup") ELSE UNCHANGED <<cmds, cmd, net, outcome>>
           /\ mixed' = (mixed \/ (runs /\ ~(/\ loop.i \in DOMAIN loop.poller
                                            /\ loop.poller[loop.i] = loop.at)))
           /\ loop' = IF (runs /\ active = 0) \/ loop.next = None THEN RoundEnds(cmds')
                      ELSE [loop EXCEPT !.i = @ + 1, !.active = active, !.at = loop.next,
                                        !.next = After(cmds', loop.next)]
  BY DEF Visit
<1>3. loop.pc = "visiting" /\ UNCHANGED late
  BY DEF Visit
<1>4. WalkFits /\ loop \in LoopType
  BY <1>1, <1>3 DEF LoopKeeps, LoopFits
<1>5. PICK poller \in Seq(Cmd), revents \in Seq(Reports), i \in Nat :
        poller = loop.poller /\ revents = loop.revents /\ i = loop.i
  BY <1>4 DEF LoopType
<1>6. Len(revents) = Len(poller) /\ i \in 1 .. Len(revents) /\ i \in DOMAIN poller
  BY <1>4, <1>5 DEF WalkFits
<1>7. PICK k \in 1 .. Len(cmds) :
        /\ loop.at = cmds[k] /\ loop.next = IF k = Len(cmds) THEN None ELSE cmds[k + 1]
        /\ Ahead(cmds, poller, i, k)
  BY <1>1, <1>4, <1>5 DEF WalkFits, DataFits, ListFits
<1>8. e = revents[i]
  BY <1>2, <1>5, <1>6 DEF Reported
<1>9. poller[i] = cmds[k]
  <2>1. 0 \in 0 .. Len(poller) - i /\ k + 0 = k /\ i + 0 = i
    BY <1>6
  <2>2. QED BY <1>7, <2>1 DEF Ahead
<1>10. cmds[k] \in Cmd /\ outcome[cmds[k]] = "none"
  BY <1>1 DEF DataFits, ListFits, Range
<1>11. cmd[loop.at].state # "error"
  BY <1>1, <1>7, <1>10 DEF DataFits, ExchangesFit, Progresses
<1>12. PICK runs \in BOOLEAN : runs = (e # "nothing")
  OBVIOUS
<1>13. PICK active : active = IF runs THEN loop.active - 1 ELSE loop.active
  OBVIOUS
<1>14. /\ IF runs THEN Runs(loop.at, e = "hup") ELSE UNCHANGED <<cmds, cmd, net, outcome>>
       /\ mixed' = (mixed \/ (runs /\ ~(/\ loop.i \in DOMAIN loop.poller
                                        /\ loop.poller[loop.i] = loop.at)))
       /\ loop' = IF (runs /\ active = 0) \/ loop.next = None THEN RoundEnds(cmds')
                  ELSE [loop EXCEPT !.i = @ + 1, !.active = active, !.at = loop.next,
                                    !.next = After(cmds', loop.next)]
  BY <1>2, <1>11, <1>12, <1>13
<1>15. mixed' = FALSE
  BY <1>1, <1>5, <1>6, <1>7, <1>9, <1>14 DEF LoopKeeps
<1>16. DataFits' /\ Ran(k)
  <2>1. CASE runs
    <3>1. PICK hup \in BOOLEAN : hup = (e = "hup")
      OBVIOUS
    <3>2. Runs(cmds[k], hup)
      BY <1>7, <1>14, <2>1, <3>1
    <3>3. EventFits(revents[i], poller[i])
      <4>1. i \in i .. Len(poller)
        BY <1>6
      <4>2. QED BY <1>4, <1>5, <4>1 DEF WalkFits
    <3>4. e \in Reports
      BY <1>6, <1>8
    <3>5. MayRun(k, hup)
      BY <1>8, <1>9, <1>12, <2>1, <3>1, <3>3, <3>4 DEF MayRun, EventFits, Reports
    <3>6. QED BY <1>1, <3>2, <3>5, RunKeeps
  <2>2. CASE ~runs
    <3>1. UNCHANGED <<cmds, cmd, net, outcome>>
      BY <1>14, <2>2
    <3>2. QED BY <1>1, <3>1, DataStays DEF Ran
  <2>3. QED BY <2>1, <2>2
<1>17. active = Cardinality(ToSee(revents, i + 1))
  <2>1. /\ loop.active = Cardinality(ToSee(revents, i)) /\ loop.active \in Nat
    BY <1>4, <1>5 DEF WalkFits, LoopType
  <2>2. Cardinality(ToSee(revents, i + 1))
          = IF revents[i] = "nothing" THEN Cardinality(ToSee(revents, i))
                                      ELSE Cardinality(ToSee(revents, i)) - 1
    BY <1>6, ToSeeNext
  <2>3. QED BY <1>8, <1>12, <1>13, <2>1, <2>2
<1>18. CASE (runs /\ active = 0) \/ loop.next = None
  <2>1. loop' = RoundEnds(cmds')
    BY <1>14, <1>18
  <2>2. ListFits' /\ late' \in BOOLEAN
    BY <1>1, <1>3, <1>16 DEF DataFits, LoopKeeps
  <2>3. LoopKeeps'
    BY <1>15, <2>1, <2>2, RoundEndsFit
  <2>4. QED BY <1>16, <2>3, InvParts, PTL
<1>19. CASE ~((runs /\ active = 0) \/ loop.next = None)
  <2>1. loop' = [loop EXCEPT !.i = @ + 1, !.active = active, !.at = loop.next,
                             !.next = After(cmds', loop.next)]
    BY <1>14, <1>19
  <2>2. active # 0
    <3>1. loop.active \in Nat /\ loop.active > 0
      BY <1>4 DEF WalkFits, LoopType
    <3>2. QED BY <1>13, <1>19, <3>1
  <2>3. active = Cardinality(ToSee(loop.revents, loop.i + 1)) /\ Ahead(cmds, loop.poller, loop.i, k)
    BY <1>5, <1>7, <1>17
  <2>4. loop.next # None
    BY <1>19
  <2>5. LoopKeeps'
    BY <1>1, <1>3, <1>7, <1>15, <1>16, <2>1, <2>2, <2>3, <2>4, WalkGoesOn
  <2>6. QED BY <1>16, <2>5, InvParts, PTL
<1>20. QED BY <1>18, <1>19

-----------------------------------------------------------------------------
(* The theorems.                                                           *)

LEMMA InitFits == Init => Inv
<1> SUFFICES ASSUME Init PROVE Inv
  OBVIOUS
<1>1. First \in Seq(Cmd) /\ IsInjective(First)
  BY AsyncAssumption
<1>2. ListFits
  <2>1. Range(First) \subseteq Cmd
    BY <1>1 DEF Range
  <2>2. outcome \in [Cmd -> Outcomes]
    BY DEF Init, Outcomes
  <2>3. QED BY <1>1, <2>2 DEF Init, ListFits
<1> DEFINE n == [status |-> "connecting", written |-> 0, reply |-> "none", came |-> 0, read |-> 0]
<1>3. n \in NetType /\ Untouched(n)
  BY Sizes DEF NetType, Untouched
<1>4. \A c \in Cmd : net[c] = n /\ cmd[c] = New /\ outcome[c] \in {"none", "unborn"}
  BY DEF Init
<1>5. cmd \in [Cmd -> CmdType] /\ net \in [Cmd -> NetType]
  <2> HIDE DEF n
  <2>1. net = [c \in Cmd |-> n]
    BY DEF Init, n
  <2>2. QED BY <1>3, <2>1, NewIs DEF Init
<1> HIDE DEF n
<1>6. Goes(New, n)
  BY <1>3, Begins
<1>7. ExchangesFit
  BY <1>3, <1>4, <1>6 DEF ExchangesFit, Goes
<1>8. OutcomesAreTrue
  BY <1>4 DEF OutcomesAreTrue, SuccessMeansAnswered, ClosedMeansClosed
<1>9. LoopFits
  BY IdleIs DEF Init, LoopFits
<1>10. LoopKeeps
  BY <1>9, IdleIs DEF Init, LoopKeeps
<1>11. QED BY <1>2, <1>5, <1>7, <1>8, <1>10, InvParts DEF DataFits

LEMMA NextKeepsInv == Inv /\ [Next]_vars => Inv'
<1> SUFFICES ASSUME Inv, [Next]_vars PROVE Inv'
  OBVIOUS
<1>1. CASE Poll
  BY <1>1, PollKeeps
<1>2. CASE Visit
  BY <1>2, VisitKeeps
<1>3. CASE Expire
  BY <1>3, ExpireKeeps
<1>4. CASE Ends
  BY <1>4, EndsKeeps
<1>5. CASE Tick \/ UNCHANGED vars
  <2>1. DataFits /\ LoopKeeps
    BY InvParts
  <2>2. UNCHANGED <<cmds, cmd, net, loop, outcome, mixed>> /\ late' \in BOOLEAN
    BY <1>5, <2>1 DEF Tick, vars, LoopKeeps
  <2>3. DataFits' /\ LoopKeeps'
    BY <2>1, <2>2, DataStays, LoopStays
  <2>4. QED BY <2>3, InvParts, PTL
<1>6. ASSUME NEW c \in Cmd, Connects(c) PROVE Inv'
  BY <1>6, ConnectsKeeps
<1>7. ASSUME NEW c \in Cmd, Arrives(c) PROVE Inv'
  BY <1>7, ArrivesKeeps
<1>8. ASSUME NEW c \in Cmd, Closes(c) PROVE Inv'
  BY <1>8, ClosesKeeps
<1>9. QED BY <1>1, <1>2, <1>3, <1>4, <1>5, <1>6, <1>7, <1>8 DEF Next, Run

LEMMA InvIsInvariant == Spec => []Inv
BY InitFits, NextKeepsInv, PTL DEF Spec

\* Whatever the callbacks of mongoc_async_run add to the list and cancel, and in whatever
\* parts sockets take and give the bytes: a command is run on its own events only, is in
\* the list until it is called back, once, and what it has sent and received adds up.
THEOREM AsyncStaysSound == Spec => []AsyncIsSound
<1>1. Inv => AsyncIsSound
  <2> SUFFICES ASSUME Inv PROVE BytesAddUp
    BY DEF Inv, AsyncIsSound
  <2>1. ASSUME NEW c \in Range(cmds) PROVE outcome[c] = "none" /\ c \in Cmd
    BY DEF Inv, AsyncTypeOK, CalledBackOnce, Range
  <2>2. \A c \in Range(cmds) : Progresses(cmd[c], net[c])
    BY <2>1 DEF Inv, ExchangesFit
  <2>3. QED BY <2>2 DEF BytesAddUp, Progresses
<1>2. QED BY <1>1, InvIsInvariant, PTL

\* A callback is told of a success only after the whole request went out and a good reply
\* came in whole, and of a closed connection only if it was closed, or if nothing had
\* followed the length of the reply.
THEOREM OutcomesStayTrue == Spec => []OutcomesAreTrue
<1>1. Inv => OutcomesAreTrue
  BY DEF Inv
<1>2. QED BY <1>1, InvIsInvariant, PTL
===============================================================================

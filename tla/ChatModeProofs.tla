--------------------------- MODULE ChatModeProofs ---------------------------
(***************************************************************************)
(* Proofs about ChatMode, for any contacts, any capacity of the queues and *)
(* any number of lines and messages: the three copies of the active chat   *)
(* agree up to what is queued (ChatAgreement), the prompt tells the truth  *)
(* (PromptTruthful), what is shown in a chat is of that chat               *)
(* (ForeignFiltered), and what is marked read has been or will be shown    *)
(* (ReadIsSeen).                                                           *)
(***************************************************************************)
EXTENDS ChatMode, Integers, SequenceTheorems, NaturalsInduction, WellFoundedInduction, TLAPS

CmdLines == {ChatLine(n) : n \in Names} \cup {SendLine(n) : n \in Names}
                \cup {LeaveLine} \cup {TextLine(c, b) : c \in Chats, b \in BOOLEAN}

\* The active chat after one event.
Apply(now, e) ==
    IF e.kind = "enter" THEN e.chat ELSE IF e.kind = "exit" THEN None ELSE now

-----------------------------------------------------------------------------
(* The last change of chat in a queue.                                     *)

\* A bounded set of positions that is not empty has a last one.
LEMMA LastExists ==
    ASSUME NEW n \in Nat, NEW S \in SUBSET (1 .. n), S # {}
    PROVE  \E k \in S : \A j \in S : j <= k
<1> DEFINE T == {n - i : i \in S}
<1>1. T \subseteq Nat /\ T # {}
  <2>1. PICK i : i \in S
    OBVIOUS
  <2>2. n - i \in T
    BY <2>1
  <2>3. \A j \in S : n - j \in Nat
    OBVIOUS
  <2> QED
    BY <2>2, <2>3
<1>2. PICK x \in T : \A y \in T : ~(<<y, x>> \in OpToRel(<, Nat))
  BY <1>1, WFMin, NatLessThanWellFounded, Zenon
<1>3. \A y \in T : ~(y < x)
  BY <1>1, <1>2 DEF OpToRel
<1>4. PICK m \in S : x = n - m
  OBVIOUS
<1>5. ASSUME NEW i \in S PROVE i <= m
  <2>1. n - i \in T
    OBVIOUS
  <2>2. ~(n - i < n - m)
    BY <1>3, <1>4, <2>1
  <2>3. i \in Nat /\ m \in Nat
    OBVIOUS
  <2> QED
    BY <2>2, <2>3
<1> QED
  BY <1>5

\* The last change of chat decides.
LEMMA AfterLast ==
    ASSUME NEW q \in Seq(Shows), NEW now, NEW k \in Control(q),
           \A j \in Control(q) : j <= k
    PROVE  After(now, q) = Apply(now, q[k])
<1>1. Control(q) \subseteq 1 .. Len(q)
  BY DEF Control
<1>2. (CHOOSE i \in Control(q) : \A j \in Control(q) : j <= i) = k
  BY <1>1
<1>3. q[k].kind \in {"enter", "exit"}
  BY DEF Control
<1> QED
  BY <1>2, <1>3 DEF After, Apply

\* Without a change of chat nothing changes.
LEMMA AfterNone ==
    ASSUME NEW q, NEW now, Control(q) = {}
    PROVE  After(now, q) = now
BY DEF After

\* An event at the end of a queue is applied last.
LEMMA AfterAppend ==
    ASSUME NEW q \in Seq(Shows), NEW e \in Shows, NEW now
    PROVE  After(now, Append(q, e)) = Apply(After(now, q), e)
<1> DEFINE s == Append(q, e)
<1>1. /\ s \in Seq(Shows) /\ Len(s) = Len(q) + 1 /\ Len(q) \in Nat
      /\ s[Len(q) + 1] = e
      /\ \A i \in 1 .. Len(q) : s[i] = q[i]
  BY AppendProperties
<1>2. DOMAIN s = 1 .. Len(q) + 1 /\ DOMAIN q = 1 .. Len(q)
  BY <1>1
<1> HIDE DEF s
<1>3. CASE e.kind \in {"enter", "exit"}
  <2>1. Len(q) + 1 \in Control(s) /\ \A j \in Control(s) : j <= Len(q) + 1
    BY <1>1, <1>2, <1>3 DEF Control
  <2>2. After(now, s) = Apply(now, e)
    BY <1>1, <2>1, AfterLast
  <2> QED
    BY <1>3, <2>2 DEF s, Apply
<1>4. CASE e.kind \notin {"enter", "exit"}
  <2>1. Control(s) = Control(q)
    BY <1>1, <1>2, <1>4 DEF Control
  <2>2. Control(q) \subseteq 1 .. Len(q)
    BY <1>2 DEF Control
  <2>3. CASE Control(q) = {}
    BY <1>4, <2>1, <2>3, AfterNone DEF s, Apply
  <2>4. CASE Control(q) # {}
    <3>1. PICK k \in Control(q) : \A j \in Control(q) : j <= k
      BY <1>1, <2>2, <2>4, LastExists
    <3>2. After(now, q) = Apply(now, q[k])
      BY <3>1, AfterLast
    <3>3. After(now, s) = Apply(now, s[k])
      BY <1>1, <2>1, <3>1, AfterLast
    <3>4. s[k] = q[k]
      BY <1>1, <2>2
    <3> QED
      BY <1>4, <3>2, <3>3, <3>4 DEF s, Apply
  <2> QED
    BY <2>3, <2>4
<1> QED
  BY <1>3, <1>4

\* The head of a queue is applied first.
LEMMA AfterTail ==
    ASSUME NEW q \in Seq(Shows), q # <<>>, NEW now
    PROVE  After(now, q) = After(Apply(now, Head(q)), Tail(q))
<1> DEFINE t == Tail(q)
<1>1. /\ t \in Seq(Shows) /\ Len(q) \in Nat \ {0} /\ Len(t) = Len(q) - 1
      /\ Head(q) = q[1] /\ Head(q) \in Shows
      /\ \A i \in 1 .. Len(t) : t[i] = q[i + 1]
  BY HeadTailProperties, EmptySeq
<1>2. DOMAIN t = 1 .. Len(q) - 1 /\ DOMAIN q = 1 .. Len(q)
  BY <1>1
<1> HIDE DEF t
<1>3. \A i \in 1 .. Len(q) - 1 : i \in Control(t) <=> i + 1 \in Control(q)
  BY <1>1, <1>2 DEF Control
<1>4. Control(t) \subseteq 1 .. Len(q) - 1 /\ Control(q) \subseteq 1 .. Len(q)
  BY <1>2 DEF Control
<1>5. 1 \in Control(q) <=> Head(q).kind \in {"enter", "exit"}
  BY <1>1, <1>2 DEF Control
<1>6. CASE Control(t) # {}
  <2>0. Len(q) - 1 \in Nat /\ Control(t) \in SUBSET (1 .. Len(q) - 1)
    BY <1>1, <1>4
  <2>1. PICK k \in Control(t) : \A j \in Control(t) : j <= k
    BY <1>6, <2>0, LastExists
  <2>2. k + 1 \in Control(q)
    BY <1>3, <1>4, <2>1
  <2>3. ASSUME NEW j \in Control(q) PROVE j <= k + 1
    <3>1. CASE j = 1
      BY <1>1, <1>4, <2>1, <3>1
    <3>2. CASE j # 1
      <4>1. j - 1 \in 1 .. Len(q) - 1 /\ (j - 1) + 1 = j
        BY <1>1, <1>4, <3>2
      <4>2. j - 1 \in Control(t)
        BY <1>3, <4>1
      <4> QED
        BY <1>4, <2>1, <4>1, <4>2
    <3> QED
      BY <3>1, <3>2
  <2>4. After(now, q) = Apply(now, q[k + 1])
    BY <2>2, <2>3, AfterLast
  <2>5. After(Apply(now, Head(q)), t) = Apply(Apply(now, Head(q)), t[k])
    BY <1>1, <2>1, AfterLast
  <2>6. t[k] = q[k + 1] /\ t[k].kind \in {"enter", "exit"}
    BY <1>1, <1>4, <2>1 DEF Control
  <2> QED
    BY <2>4, <2>5, <2>6 DEF t, Apply
<1>7. CASE Control(t) = {}
  <2>1. Control(q) \subseteq {1}
    <3>1. ASSUME NEW j \in Control(q), j # 1 PROVE FALSE
      <4>1. j - 1 \in 1 .. Len(q) - 1 /\ (j - 1) + 1 = j
        BY <1>1, <1>4, <3>1
      <4> QED
        BY <1>3, <1>7, <4>1
    <3> QED
      BY <3>1
  <2>2. After(Apply(now, Head(q)), t) = Apply(now, Head(q))
    BY <1>7, AfterNone
  <2>3. CASE 1 \in Control(q)
    <3>1. \A j \in Control(q) : j <= 1
      BY <2>1
    <3> QED
      BY <1>1, <2>2, <2>3, <3>1, AfterLast DEF t
  <2>4. CASE 1 \notin Control(q)
    <3>1. Control(q) = {} /\ Head(q).kind \notin {"enter", "exit"}
      BY <1>5, <2>1, <2>4
    <3> QED
      BY <2>2, <3>1, AfterNone DEF t, Apply
  <2> QED
    BY <2>3, <2>4
<1> QED
  BY <1>6, <1>7

-----------------------------------------------------------------------------
(* What the handlers push.                                                 *)

\* A push keeps the type of a queue, and appends when there is room.
LEMMA PushSeq ==
    ASSUME NEW S, NEW q \in Seq(S), NEW es \in Seq(S)
    PROVE  /\ PushAll(q, es) \in Seq(S)
           /\ Fits(q, es) => PushAll(q, es) = q \o es
<1> DEFINE s == q \o es
           n == IF Len(s) > Capacity THEN Capacity ELSE Len(s)
<1>1. s \in Seq(S) /\ Len(s) = Len(q) + Len(es)
  BY ConcatProperties
<1>2. Len(q) \in Nat /\ Len(es) \in Nat /\ Len(s) \in Nat /\ Capacity \in Nat
  BY <1>1, ChatAssumption
<1>3. PushAll(q, es) = SubSeq(s, 1, n)
  BY DEF PushAll
<1> HIDE DEF s
<1>4. n \in Int /\ 1 \in Int /\ n <= Len(s)
  BY <1>2
<1>5. \A i \in 1 .. n : s[i] \in S
  BY <1>1, <1>2, <1>4, ElementOfSeq
<1>6. SubSeq(s, 1, n) \in Seq(S)
  <2> HIDE DEF n
  <2> QED
    BY <1>4, <1>5, SubSeqProperties
<1>7. ASSUME Fits(q, es) PROVE PushAll(q, es) = q \o es
  <2>1. n = Len(s)
    BY <1>1, <1>2, <1>7 DEF Fits
  <2>2. SubSeq(s, 1, Len(s)) = s
    BY <1>1, SubSeqFull
  <2> QED
    BY <1>3, <2>1, <2>2 DEF s
<1> QED
  BY <1>3, <1>6, <1>7

\* Pushing one value.
LEMMA PushOne ==
    ASSUME NEW S, NEW q \in Seq(S), NEW e \in S
    PROVE  /\ PushAll(q, <<e>>) \in Seq(S)
           /\ Fits(q, <<e>>) => PushAll(q, <<e>>) = Append(q, e)
<1>1. <<e>> \in Seq(S)
  OBVIOUS
<1>2. Append(q, e) = q \o <<e>>
  BY AppendIsConcat
<1> QED
  BY <1>1, <1>2, PushSeq

\* The messages that /chat shows are of the contact, and change no chat.
LEMMA RowsShow ==
    ASSUME NEW c \in Contacts, history \in [Contacts -> Seq(Nat)]
    PROVE  LET rows == [i \in DOMAIN Shown(c) |-> Message(c, Shown(c)[i])]
           IN  /\ rows \in Seq(Shows)
               /\ \A i \in 1 .. Len(rows) : rows[i].kind = "message"
<1> DEFINE h == history[c]
           m == IF Len(h) > HistoryLimit THEN Len(h) - HistoryLimit + 1 ELSE 1
           sh == Shown(c)
           rows == [i \in DOMAIN sh |-> Message(c, sh[i])]
<1>1. h \in Seq(Nat) /\ Len(h) \in Nat /\ HistoryLimit \in Nat
  BY ChatAssumption
<1>2. sh = SubSeq(h, m, Len(h))
  BY DEF Shown
<1> HIDE DEF h, sh
<1>3. m \in Int /\ Len(h) \in Int /\ 1 <= m
  BY <1>1
<1>4. \A i \in m .. Len(h) : h[i] \in Nat
  BY <1>1, <1>3, ElementOfSeq
<1>5. sh \in Seq(Nat)
  <2> HIDE DEF m
  <2> QED
    BY <1>2, <1>3, <1>4, SubSeqProperties
<1>6. Len(sh) \in Nat /\ DOMAIN sh = 1 .. Len(sh) /\ \A i \in 1 .. Len(sh) : sh[i] \in Nat
  BY <1>5, LenProperties, ElementOfSeq
<1>7. \A i \in DOMAIN sh : Message(c, sh[i]) \in Shows /\ Message(c, sh[i]).kind = "message"
  BY <1>6 DEF Message, Shows, Event
<1>8. rows \in [1 .. Len(sh) -> Shows]
  BY <1>6, <1>7
<1>9. rows \in Seq(Shows)
  BY <1>6, <1>8, SeqDef
<1>10. Len(rows) = Len(sh)
  BY <1>6, <1>8, <1>9, LenProperties
<1>11. \A i \in 1 .. Len(rows) : rows[i].kind = "message"
  BY <1>6, <1>7, <1>10
<1> QED
  BY <1>9, <1>11 DEF sh

\* After /chat the display is bound for the contact.
LEMMA AfterEnter ==
    ASSUME NEW q \in Seq(Shows), NEW c \in Contacts, NEW rows \in Seq(Shows), NEW now,
           \A i \in 1 .. Len(rows) : rows[i].kind = "message"
    PROVE  /\ <<Enter(c)>> \o rows \in Seq(Shows)
           /\ After(now, q \o (<<Enter(c)>> \o rows)) = c
<1> DEFINE es == <<Enter(c)>> \o rows
           s == q \o es
<1>1. Enter(c) \in Shows /\ Enter(c).kind = "enter" /\ Enter(c).chat = c
  BY DEF Shows, Enter
<1>2. <<Enter(c)>> \in Seq(Shows) /\ Len(<<Enter(c)>>) = 1 /\ <<Enter(c)>>[1] = Enter(c)
  BY <1>1
<1> HIDE DEF Enter
<1>3. /\ es \in Seq(Shows) /\ Len(es) = 1 + Len(rows) /\ Len(rows) \in Nat
      /\ es[1] = Enter(c)
      /\ \A i \in 2 .. 1 + Len(rows) : es[i] = rows[i - 1]
  BY <1>2, ConcatProperties
<1> HIDE DEF es
<1>4. /\ s \in Seq(Shows) /\ Len(s) = Len(q) + Len(es) /\ Len(q) \in Nat
      /\ \A i \in Len(q) + 1 .. Len(q) + Len(es) : s[i] = es[i - Len(q)]
  <2>1. Len(q) \in Nat /\ Len(es) \in Nat
    BY <1>3
  <2>2. /\ s \in Seq(Shows) /\ Len(s) = Len(q) + Len(es)
        /\ \A i \in 1 .. Len(q) + Len(es) :
              s[i] = IF i <= Len(q) THEN q[i] ELSE es[i - Len(q)]
    BY <1>3, ConcatProperties
  <2> HIDE DEF s
  <2> QED
    BY <2>1, <2>2
<1> HIDE DEF s
<1>5. Len(q) + 1 \in Control(s)
  <2>1. Len(q) + 1 \in Len(q) + 1 .. Len(q) + Len(es) /\ Len(q) + 1 \in 1 .. Len(s)
    BY <1>3, <1>4
  <2>2. s[Len(q) + 1] = Enter(c)
    <3>1. s[Len(q) + 1] = es[(Len(q) + 1) - Len(q)]
      BY <1>4, <2>1
    <3>2. (Len(q) + 1) - Len(q) = 1
      BY <1>4
    <3> QED
      BY <1>3, <3>1, <3>2
  <2>3. DOMAIN s = 1 .. Len(s)
    BY <1>4
  <2> QED
    BY <1>1, <2>1, <2>2, <2>3 DEF Control
<1>6. ASSUME NEW j \in Control(s) PROVE j <= Len(q) + 1
  <2>1. j \in 1 .. Len(s) /\ s[j].kind \in {"enter", "exit"}
    BY <1>4 DEF Control
  <2>2. ASSUME j > Len(q) + 1 PROVE FALSE
    <3>1. j - Len(q) \in 2 .. 1 + Len(rows) /\ j \in Len(q) + 1 .. Len(q) + Len(es)
      BY <1>3, <1>4, <2>1, <2>2
    <3>2. s[j] = rows[j - Len(q) - 1]
      BY <1>3, <1>4, <3>1
    <3>3. j - Len(q) - 1 \in 1 .. Len(rows)
      BY <1>3, <1>4, <2>1, <3>1
    <3>4. s[j].kind = "message"
      BY <3>2, <3>3
    <3> QED
      BY <2>1, <3>4
  <2> QED
    BY <1>4, <2>1, <2>2
<1>7. After(now, s) = Apply(now, s[Len(q) + 1])
  BY <1>4, <1>5, <1>6, AfterLast
<1>8. s[Len(q) + 1] = Enter(c)
  BY <1>3, <1>4
<1> QED
  BY <1>1, <1>3, <1>7, <1>8 DEF Apply, s, es

-----------------------------------------------------------------------------
(* The inductive invariant.                                                *)

Typed ==
    /\ cmdQ \in Seq(CmdLines)
    /\ sessQ \in Seq(Names)
    /\ presQ \in Seq(Event)
    /\ dispQ \in Seq(Shows)
    /\ uiQ \in Seq(Shows)
    /\ ui \in Chats
    /\ parser \in Chats
    /\ history \in [Contacts -> Seq(Nat)]
    /\ received \in Nat
    /\ overflow \in BOOLEAN

\* Text typed under a settled prompt has only text and /send before it, and the
\* parser still has the chat that the prompt showed.
Kept(q, chat) ==
    \A i \in DOMAIN q : q[i].kind = "text" /\ q[i].settled =>
        /\ q[i].shown = chat
        /\ \A j \in DOMAIN q : j < i => q[j].kind \notin {"chat", "leave"}

IInv == Typed /\ ChatAgreement /\ (~overflow => Kept(cmdQ, parser))

\* A line for a peer names it.
LEMMA LineKinds == \A l \in CmdLines : l.kind = "send" => l.name \in Names
<1> SUFFICES ASSUME NEW l \in CmdLines, l.kind = "send" PROVE l.name \in Names
  OBVIOUS
<1>1. ASSUME NEW n \in Names, l = SendLine(n) PROVE l.name \in Names
  BY <1>1 DEF SendLine
<1>2. ASSUME NEW n \in Names, l = ChatLine(n) PROVE FALSE
  BY <1>2 DEF ChatLine
<1>3. l # LeaveLine
  BY DEF LeaveLine
<1>4. ASSUME NEW c \in Chats, NEW b \in BOOLEAN, l = TextLine(c, b) PROVE FALSE
  BY <1>4 DEF TextLine
<1> QED
  BY <1>1, <1>2, <1>3, <1>4 DEF CmdLines

\* What the relay's news look like on the way to the screen.
LEMMA EventKinds ==
    /\ \A e \in Event : e \in Shows /\ e.kind \in {"message", "result"}
    /\ \A c \in Contacts, m \in Nat : Message(c, m) \in Event
    /\ \A n \in Names : Result(n) \in Event
    /\ Exit \in Shows /\ Exit.kind = "exit"
BY DEF Event, Shows, Message, Result, Exit

\* The agreement in the next state, about the next values of the queues.
LEMMA AgreementNext ==
    ASSUME ~overflow' => After(ui', uiQ') = filter' /\ After(filter', dispQ') = parser'
    PROVE  ChatAgreement'
BY DEF ChatAgreement, After, Control

\* The program starts without a chat and with empty queues.
LEMMA InitIInv == Init => IInv
<1> SUFFICES ASSUME Init PROVE IInv
  OBVIOUS
<1>1. Typed
  <2>1. /\ <<>> \in Seq(CmdLines) /\ <<>> \in Seq(Names) /\ <<>> \in Seq(Event)
        /\ <<>> \in Seq(Shows) /\ <<>> \in Seq(Nat)
    BY EmptySeq
  <2> QED
    BY <2>1 DEF Init, Typed, Chats
<1>2. Control(<<>>) = {}
  BY DEF Control
<1>3. ChatAgreement
  BY <1>2, AfterNone DEF Init, ChatAgreement
<1>4. Kept(cmdQ, parser)
  BY DEF Init, Kept
<1> QED
  BY <1>1, <1>3, <1>4 DEF IInv

\* A line at the end of the queue disturbs nothing before it.
LEMMA TypeStep ==
    ASSUME IInv, Type
    PROVE  IInv'
<1>1. PICK line \in Lines :
        /\ cmdQ' = PushAll(cmdQ, <<line>>)
        /\ overflow' = (overflow \/ ~Fits(cmdQ, <<line>>))
        /\ UNCHANGED <<sessQ, presQ, dispQ, uiQ, parser, filter, ui, history, received>>
  BY DEF Type
<1>2. Settled \in BOOLEAN
  BY DEF Settled
<1>3. line \in CmdLines
  BY <1>2 DEF Lines, CmdLines, IInv, Typed
<1>4. cmdQ' \in Seq(CmdLines) /\ (Fits(cmdQ, <<line>>) => cmdQ' = Append(cmdQ, line))
  BY <1>1, <1>3, PushOne DEF IInv, Typed
<1>5. overflow' \in BOOLEAN
  BY <1>1 DEF IInv, Typed, Fits
<1>6. Typed'
  BY <1>1, <1>4, <1>5 DEF IInv, Typed
<1>7. ChatAgreement'
  BY <1>1, AgreementNext DEF IInv, ChatAgreement
<1>8. ASSUME ~overflow' PROVE Kept(cmdQ, parser)'
  <2>1. ~overflow /\ cmdQ' = Append(cmdQ, line)
    BY <1>1, <1>4, <1>8
  <2>2. /\ Len(cmdQ) \in Nat /\ DOMAIN cmdQ = 1 .. Len(cmdQ)
        /\ DOMAIN cmdQ' = 1 .. Len(cmdQ) + 1
        /\ cmdQ'[Len(cmdQ) + 1] = line
        /\ \A i \in 1 .. Len(cmdQ) : cmdQ'[i] = cmdQ[i]
    BY <1>3, <2>1, AppendProperties, LenProperties DEF IInv, Typed
  <2>3. Kept(cmdQ, parser)
    BY <2>1 DEF IInv
  <2>4. ASSUME line.kind = "text", line.settled
        PROVE  /\ line.shown = parser
               /\ \A j \in DOMAIN cmdQ : cmdQ[j].kind \notin {"chat", "leave"}
    <3>1. line = TextLine(ui, Settled)
      BY <2>4 DEF Lines, ChatLine, SendLine, LeaveLine, TextLine
    <3>2. Settled /\ line.shown = ui
      BY <2>4, <3>1 DEF TextLine
    <3>3. After(ui, uiQ) = ui /\ After(filter, dispQ) = filter
      BY <3>2, AfterNone DEF Settled
    <3> QED
      BY <2>1, <3>2, <3>3 DEF IInv, ChatAgreement, Settled
  <2>5. ASSUME NEW i \in DOMAIN cmdQ', cmdQ'[i].kind = "text", cmdQ'[i].settled
        PROVE  /\ cmdQ'[i].shown = parser
               /\ \A j \in DOMAIN cmdQ' : j < i => cmdQ'[j].kind \notin {"chat", "leave"}
    <3>1. CASE i = Len(cmdQ) + 1
      BY <2>2, <2>4, <2>5, <3>1
    <3>2. CASE i \in 1 .. Len(cmdQ)
      BY <2>2, <2>3, <2>5, <3>2 DEF Kept
    <3> QED
      BY <2>2, <3>1, <3>2
  <2> QED
    BY <1>1, <2>5 DEF Kept
<1> QED
  BY <1>6, <1>7, <1>8 DEF IInv

\* The UI takes the head of its queue and applies it to the prompt.
LEMMA UiEventStep ==
    ASSUME IInv, UiEvent
    PROVE  IInv'
<1>1. uiQ \in Seq(Shows) /\ uiQ # <<>>
  BY DEF IInv, Typed, UiEvent
<1>2. /\ uiQ' = Tail(uiQ) /\ ui' = Apply(ui, Head(uiQ))
      /\ UNCHANGED <<cmdQ, sessQ, presQ, dispQ, parser, filter, history, received, overflow>>
  BY DEF UiEvent, Apply
<1>3. Head(uiQ) \in Shows /\ uiQ' \in Seq(Shows)
  BY <1>1, <1>2, HeadTailProperties
<1>4. ui' \in Chats
  BY <1>2, <1>3 DEF IInv, Typed, Apply, Shows, Event, Enter, Exit, Chats
<1>5. Typed'
  BY <1>2, <1>3, <1>4 DEF IInv, Typed
<1>6. After(ui', uiQ') = After(ui, uiQ)
  BY <1>1, <1>2, AfterTail
<1>7. ChatAgreement'
  BY <1>2, <1>6, AgreementNext DEF IInv, ChatAgreement
<1>8. overflow' = overflow /\ Kept(cmdQ, parser)' = Kept(cmdQ, parser)
  BY <1>2 DEF Kept
<1> QED
  BY <1>5, <1>7, <1>8 DEF IInv

\* The filter applies the head of its queue to its own chat, and passes every
\* change of chat on.
LEMMA FilterStep ==
    ASSUME IInv, Filter
    PROVE  IInv'
<1> DEFINE e == Head(dispQ)
           out == IF Passes(e) THEN <<e>> ELSE <<>>
<1>1. dispQ \in Seq(Shows) /\ dispQ # <<>> /\ uiQ \in Seq(Shows)
  BY DEF IInv, Typed, Filter
<1>2. /\ dispQ' = Tail(dispQ) /\ filter' = Apply(filter, e)
      /\ uiQ' = PushAll(uiQ, out)
      /\ overflow' = (overflow \/ ~Fits(uiQ, out))
      /\ UNCHANGED <<cmdQ, sessQ, presQ, parser, ui, history, received>>
  BY DEF Filter, Apply
<1>3. e \in Shows /\ dispQ' \in Seq(Shows)
  BY <1>1, <1>2, HeadTailProperties
<1> HIDE DEF e
<1>4. out \in Seq(Shows)
  BY <1>3, EmptySeq
<1>5. uiQ' \in Seq(Shows) /\ (Fits(uiQ, out) => uiQ' = uiQ \o out)
  BY <1>1, <1>2, <1>4, PushSeq
<1>6. overflow' \in BOOLEAN
  BY <1>2 DEF IInv, Typed, Fits
<1>7. Typed'
  BY <1>2, <1>3, <1>5, <1>6 DEF IInv, Typed
<1>8. ASSUME ~overflow'
      PROVE  After(ui', uiQ') = filter' /\ After(filter', dispQ') = parser'
  <2>1. ~overflow /\ uiQ' = uiQ \o out
    BY <1>2, <1>5, <1>8
  <2>2. After(ui, uiQ) = filter /\ After(filter, dispQ) = parser
    BY <2>1 DEF IInv, ChatAgreement
  <2>3. After(filter', dispQ') = parser
    BY <1>1, <1>2, <2>2, AfterTail DEF e
  <2>4. After(ui, uiQ') = filter'
    <3>1. CASE Passes(e)
      <4>1. uiQ' = Append(uiQ, e)
        BY <1>1, <1>3, <2>1, <3>1, AppendIsConcat
      <4> QED
        BY <1>1, <1>2, <1>3, <2>2, <4>1, AfterAppend
    <3>2. CASE ~Passes(e)
      <4>1. uiQ' = uiQ
        BY <1>1, <2>1, <3>2, ConcatEmptySeq
      <4>2. e.kind \in {"message", "result"}
        BY <3>2 DEF Passes
      <4> QED
        BY <1>2, <2>2, <4>1, <4>2 DEF Apply
    <3> QED
      BY <3>1, <3>2
  <2> QED
    BY <1>2, <2>3, <2>4
<1>9. (~overflow' => ~overflow) /\ Kept(cmdQ, parser)' = Kept(cmdQ, parser)
  BY <1>2 DEF Kept
<1> QED
  BY <1>7, <1>8, <1>9, AgreementNext DEF IInv

\* A message or a result at the end of dispQ changes no chat.
LEMMA PresentStep ==
    ASSUME IInv, Present
    PROVE  IInv'
<1> DEFINE e == Head(presQ)
<1>1. presQ \in Seq(Event) /\ presQ # <<>> /\ dispQ \in Seq(Shows)
  BY DEF IInv, Typed, Present
<1>2. /\ presQ' = Tail(presQ) /\ dispQ' = PushAll(dispQ, <<e>>)
      /\ overflow' = (overflow \/ ~Fits(dispQ, <<e>>))
      /\ UNCHANGED <<cmdQ, sessQ, uiQ, parser, filter, ui, history, received>>
  BY DEF Present, Display
<1>3. e \in Event /\ presQ' \in Seq(Event)
  BY <1>1, <1>2, HeadTailProperties
<1> HIDE DEF e
<1>4. e \in Shows /\ e.kind \in {"message", "result"}
  BY <1>3, EventKinds
<1>5. dispQ' \in Seq(Shows) /\ (Fits(dispQ, <<e>>) => dispQ' = Append(dispQ, e))
  BY <1>1, <1>2, <1>4, PushOne
<1>6. overflow' \in BOOLEAN
  BY <1>2 DEF IInv, Typed, Fits
<1>7. Typed'
  BY <1>2, <1>3, <1>5, <1>6 DEF IInv, Typed
<1>8. ASSUME ~overflow' PROVE After(filter, dispQ') = After(filter, dispQ)
  BY <1>1, <1>2, <1>4, <1>5, <1>8, AfterAppend DEF Apply
<1>9. ChatAgreement'
  BY <1>2, <1>8, AgreementNext DEF IInv, ChatAgreement
<1>10. (~overflow' => ~overflow) /\ Kept(cmdQ, parser)' = Kept(cmdQ, parser)
  BY <1>2 DEF Kept
<1> QED
  BY <1>7, <1>9, <1>10 DEF IInv

\* Taking a line off the queue: if the chat stays, the lines behind keep their
\* promise; if the line was /chat or /leave, none behind it was settled.
LEMMA KeptTail ==
    ASSUME NEW q \in Seq(CmdLines), q # <<>>, NEW chat, NEW next, Kept(q, chat),
           next = chat \/ Head(q).kind \in {"chat", "leave"}
    PROVE  Kept(Tail(q), next)
<1> DEFINE t == Tail(q)
<1>1. /\ t \in Seq(CmdLines) /\ Len(q) \in Nat \ {0} /\ Len(t) = Len(q) - 1
      /\ Head(q) = q[1]
      /\ \A i \in 1 .. Len(t) : t[i] = q[i + 1]
  BY HeadTailProperties, EmptySeq
<1>2. DOMAIN t = 1 .. Len(q) - 1 /\ DOMAIN q = 1 .. Len(q)
  BY <1>1
<1> HIDE DEF t
<1>3. ASSUME NEW i \in DOMAIN t, t[i].kind = "text", t[i].settled
      PROVE  /\ t[i].shown = next
             /\ \A j \in DOMAIN t : j < i => t[j].kind \notin {"chat", "leave"}
  <2>1. i + 1 \in DOMAIN q /\ 1 \in DOMAIN q /\ 1 < i + 1 /\ t[i] = q[i + 1]
    BY <1>1, <1>2, <1>3
  <2>2. /\ q[i + 1].shown = chat
        /\ \A j \in DOMAIN q : j < i + 1 => q[j].kind \notin {"chat", "leave"}
    BY <1>3, <2>1 DEF Kept
  <2>3. next = chat
    BY <1>1, <2>1, <2>2
  <2>4. ASSUME NEW j \in DOMAIN t, j < i PROVE t[j].kind \notin {"chat", "leave"}
    <3>1. j + 1 \in DOMAIN q /\ j + 1 < i + 1 /\ t[j] = q[j + 1]
      BY <1>1, <1>2, <2>4
    <3> QED
      BY <2>2, <3>1
  <2> QED
    BY <2>1, <2>2, <2>3, <2>4
<1> QED
  BY <1>3 DEF Kept, t

\* Every command leaves the parser where the display is bound for.
LEMMA CommandDisplay ==
    ASSUME IInv, HandleCommand
    PROVE  /\ dispQ' \in Seq(Shows) /\ sessQ' \in Seq(Names) /\ overflow' \in BOOLEAN
           /\ parser' \in Chats
           /\ ~overflow' => ~overflow /\ After(filter, dispQ') = parser'
           /\ parser' = parser \/ Head(cmdQ).kind \in {"chat", "leave"}
<1> DEFINE line == Head(cmdQ)
<1>1. /\ cmdQ \in Seq(CmdLines) /\ cmdQ # <<>> /\ dispQ \in Seq(Shows)
      /\ sessQ \in Seq(Names) /\ overflow \in BOOLEAN
      /\ history \in [Contacts -> Seq(Nat)] /\ parser \in Chats
  BY DEF IInv, Typed, HandleCommand
<1>2. line \in CmdLines
  BY <1>1, HeadTailProperties
<1>3. ~overflow => After(filter, dispQ) = parser
  BY DEF IInv, ChatAgreement
<1>4. ASSUME line.kind = "chat", HandleChat(line.name), UNCHANGED sessQ
      PROVE  /\ dispQ' \in Seq(Shows) /\ overflow' \in BOOLEAN /\ parser' \in Chats
             /\ ~overflow' => ~overflow /\ After(filter, dispQ') = parser'
  <2> DEFINE c == Lookup(line.name)
             rows == [i \in DOMAIN Shown(c) |-> Message(c, Shown(c)[i])]
  <2>1. CASE c = None
    BY <1>1, <1>3, <1>4, <2>1 DEF HandleChat
  <2>2. CASE c # None
    <3>1. c \in Contacts
      BY <2>2, ChatAssumption DEF Lookup
    <3>2. parser' = c /\ Display(<<Enter(c)>> \o rows)
      BY <1>4, <2>2 DEF HandleChat
    <3>3. rows \in Seq(Shows) /\ \A i \in 1 .. Len(rows) : rows[i].kind = "message"
      BY <1>1, <3>1, RowsShow
    <3> HIDE DEF c, rows
    <3>4. /\ <<Enter(c)>> \o rows \in Seq(Shows)
          /\ After(filter, dispQ \o (<<Enter(c)>> \o rows)) = c
      BY <1>1, <3>1, <3>3, AfterEnter
    <3> DEFINE es == <<Enter(c)>> \o rows
    <3>5. dispQ' = PushAll(dispQ, es) /\ overflow' = (overflow \/ ~Fits(dispQ, es))
      BY <3>2 DEF Display
    <3> HIDE DEF es
    <3>6. dispQ' \in Seq(Shows) /\ (Fits(dispQ, es) => dispQ' = dispQ \o es)
      BY <1>1, <3>4, <3>5, PushSeq DEF es
    <3>7. overflow' \in BOOLEAN /\ (~overflow' => ~overflow /\ Fits(dispQ, es))
      BY <1>1, <3>5 DEF Fits
    <3> QED
      BY <3>1, <3>2, <3>4, <3>6, <3>7 DEF es, Chats
  <2> QED
    BY <2>1, <2>2
<1>5. ASSUME line.kind = "leave", HandleLeave, UNCHANGED sessQ
      PROVE  /\ dispQ' \in Seq(Shows) /\ overflow' \in BOOLEAN /\ parser' \in Chats
             /\ ~overflow' => ~overflow /\ After(filter, dispQ') = parser'
  <2>1. /\ parser' = None /\ dispQ' = PushAll(dispQ, <<Exit>>)
        /\ overflow' = (overflow \/ ~Fits(dispQ, <<Exit>>))
    BY <1>5 DEF HandleLeave, Display
  <2>2. dispQ' \in Seq(Shows) /\ (Fits(dispQ, <<Exit>>) => dispQ' = Append(dispQ, Exit))
    BY <1>1, <2>1, EventKinds, PushOne
  <2>3. overflow' \in BOOLEAN /\ (~overflow' => ~overflow /\ Fits(dispQ, <<Exit>>))
    BY <1>1, <2>1 DEF Fits
  <2>4. After(filter, Append(dispQ, Exit)) = None
    BY <1>1, EventKinds, AfterAppend DEF Apply
  <2> QED
    BY <2>1, <2>2, <2>3, <2>4 DEF Chats
<1>6. ASSUME NEW n \in Names, HandleSend(n)
      PROVE  /\ sessQ' \in Seq(Names) /\ overflow' \in BOOLEAN
             /\ UNCHANGED <<dispQ, parser>>
             /\ ~overflow' => ~overflow
  BY <1>1, <1>6, PushOne DEF HandleSend, Fits
<1>7. ASSUME line.kind = "send" PROVE line.name \in Names
  BY <1>2, <1>7, LineKinds, Zenon
<1>8. parser # None => parser \in Names
  BY DEF IInv, Typed, Chats, Names
<1> QED
  BY <1>1, <1>3, <1>4, <1>5, <1>6, <1>7, <1>8 DEF HandleCommand, HandleText

\* The commands keep the invariant.
LEMMA CommandStep ==
    ASSUME IInv, HandleCommand
    PROVE  IInv'
<1>1. /\ cmdQ \in Seq(CmdLines) /\ cmdQ # <<>> /\ cmdQ' = Tail(cmdQ)
      /\ UNCHANGED <<presQ, uiQ, filter, ui, history, received>>
  BY DEF IInv, Typed, HandleCommand
<1>2. cmdQ' \in Seq(CmdLines)
  BY <1>1, HeadTailProperties
<1>3. Typed'
  BY <1>1, <1>2, CommandDisplay DEF IInv, Typed
<1>4. ChatAgreement'
  BY <1>1, CommandDisplay, AgreementNext DEF IInv, ChatAgreement
<1>5. ASSUME ~overflow' PROVE Kept(cmdQ', parser')
  <2>1. Kept(cmdQ, parser)
    BY <1>5, CommandDisplay DEF IInv
  <2> QED
    BY <1>1, <2>1, CommandDisplay, KeptTail
<1>6. Kept(cmdQ, parser)' = Kept(cmdQ', parser')
  BY DEF Kept
<1> QED
  BY <1>3, <1>4, <1>5, <1>6 DEF IInv

\* What the orchestrator does touches no chat.
LEMMA OrchestratorStep ==
    ASSUME IInv,
           SendStep \/ (\E c \in Contacts : Incoming(c)) \/ (\E n \in Names : SendAnswered(n))
    PROVE  IInv'
<1>1. UNCHANGED <<cmdQ, dispQ, uiQ, parser, filter, ui>> /\ (~overflow' => ~overflow)
  <2>1. CASE SendStep
    BY <2>1 DEF SendStep
  <2>2. ASSUME NEW c \in Contacts, Incoming(c)
        PROVE  UNCHANGED <<cmdQ, dispQ, uiQ, parser, filter, ui>> /\ (~overflow' => ~overflow)
    BY <2>2 DEF Incoming, PresentLater
  <2>3. ASSUME NEW n \in Names, SendAnswered(n)
        PROVE  UNCHANGED <<cmdQ, dispQ, uiQ, parser, filter, ui>> /\ (~overflow' => ~overflow)
    BY <2>3 DEF SendAnswered, PresentLater
  <2> QED
    BY <2>1, <2>2, <2>3
<1>2. Typed'
  <2>1. CASE SendStep
    <3>1. sessQ \in Seq(Names) /\ sessQ # <<>> /\ sessQ' = Tail(sessQ)
      BY <2>1 DEF IInv, Typed, SendStep
    <3>2. sessQ' \in Seq(Names)
      BY <3>1, HeadTailProperties
    <3>3. history' \in [Contacts -> Seq(Nat)]
      <4>1. \A c \in Contacts : Append(history[c], Own) \in Seq(Nat)
        BY AppendProperties DEF IInv, Typed, Own
      <4> QED
        BY <2>1, <4>1 DEF IInv, Typed, SendStep
    <3> QED
      BY <1>1, <2>1, <3>2, <3>3 DEF IInv, Typed, SendStep
  <2>2. ASSUME NEW c \in Contacts, Incoming(c) PROVE Typed'
    <3>0. /\ presQ \in Seq(Event) /\ Message(c, received + 1) \in Event
          /\ received \in Nat /\ received' = received + 1
      BY <2>2, EventKinds DEF IInv, Typed, Incoming
    <3>1. presQ' \in Seq(Event) /\ overflow' \in BOOLEAN
      <4>1. /\ presQ' = PushAll(presQ, <<Message(c, received + 1)>>)
            /\ overflow' = (overflow \/ ~Fits(presQ, <<Message(c, received + 1)>>))
        BY <2>2, Zenon DEF Incoming, PresentLater
      <4>2. overflow' \in BOOLEAN
        BY <4>1, Zenon
      <4> QED
        BY <3>0, <4>1, <4>2, PushOne, Zenon
    <3>2. history' \in [Contacts -> Seq(Nat)]
      <4>1. Append(history[c], received + 1) \in Seq(Nat)
        BY AppendProperties DEF IInv, Typed
      <4> QED
        BY <2>2, <4>1 DEF IInv, Typed, Incoming
    <3>3. sessQ' \in Seq(Names) /\ received' \in Nat
      BY <2>2, <3>0 DEF IInv, Typed, Incoming
    <3> QED
      BY <1>1, <3>1, <3>2, <3>3 DEF IInv, Typed
  <2>3. ASSUME NEW n \in Names, SendAnswered(n) PROVE Typed'
    <3>1. presQ' \in Seq(Event) /\ overflow' \in BOOLEAN
      BY <2>3, PushOne, EventKinds DEF IInv, Typed, SendAnswered, PresentLater, Fits
    <3> QED
      BY <1>1, <2>3, <3>1 DEF IInv, Typed, SendAnswered
  <2> QED
    BY <2>1, <2>2, <2>3
<1>3. ChatAgreement'
  BY <1>1, AgreementNext DEF IInv, ChatAgreement
<1>4. Kept(cmdQ, parser)' = Kept(cmdQ, parser)
  BY <1>1 DEF Kept
<1> QED
  BY <1>1, <1>2, <1>3, <1>4 DEF IInv

\* Every step keeps the invariant.
LEMMA NextIInv ==
    ASSUME IInv, [Next]_vars
    PROVE  IInv'
<1>1. CASE UNCHANGED vars
  <2>1. UNCHANGED <<cmdQ, sessQ, presQ, dispQ, uiQ, parser, filter, ui, history, received,
                    overflow>>
    BY <1>1 DEF vars
  <2>2. Typed' /\ Kept(cmdQ, parser)' = Kept(cmdQ, parser)
    BY <2>1 DEF IInv, Typed, Kept
  <2>3. ChatAgreement'
    BY <2>1, AgreementNext DEF IInv, ChatAgreement
  <2> QED
    BY <2>1, <2>2, <2>3 DEF IInv
<1> QED
  BY <1>1, TypeStep, UiEventStep, CommandStep, PresentStep, FilterStep, OrchestratorStep DEF Next

-----------------------------------------------------------------------------
\* The three copies of the active chat agree up to what is in the queues, for
\* any contacts, any capacity and any number of lines (ChatAgreement).
THEOREM ChatsAgree == Spec => []ChatAgreement
<1>1. IInv /\ [Next]_vars => IInv'
  BY NextIInv
<1>2. IInv => ChatAgreement
  BY DEF IInv
<1> QED
  BY <1>1, <1>2, InitIInv, PTL DEF Spec

\* Text typed under a prompt that has caught up goes where the prompt says
\* (PromptTruthful).
THEOREM PromptTells == Spec => []PromptTruthful
<1>1. IInv /\ [Next]_vars => IInv'
  BY NextIInv
<1>2. IInv => PromptTruthful
  <2> SUFFICES ASSUME IInv, cmdQ # <<>>, ~overflow,
                      Head(cmdQ).kind = "text", Head(cmdQ).settled
               PROVE  Head(cmdQ).shown = parser
    BY DEF PromptTruthful
  <2>1. Head(cmdQ) = cmdQ[1] /\ 1 \in DOMAIN cmdQ
    BY HeadTailProperties, EmptySeq DEF IInv, Typed
  <2> QED
    BY <2>1 DEF IInv, Kept
<1> QED
  BY <1>1, <1>2, InitIInv, PTL DEF Spec

-----------------------------------------------------------------------------
(* What the filter and the prompt let through.                             *)

\* A message of c at position j of q is read by one whose chat is then None or c:
\* the last change of chat before it says so, or there is none and now does.
Open(now, q, j, c) ==
    \A k \in 0 .. j - 1 : (\A l \in k + 1 .. j - 1 : l \notin Control(q)) =>
        IF k = 0 THEN now \in {None, c}
        ELSE k \in Control(q) => Apply(None, q[k]) \in {None, c}

\* Every message of q is of the chat in which it is read.
OpenAll(now, q) ==
    \A j \in DOMAIN q : q[j].kind = "message" => Open(now, q, j, q[j].from)

\* m of c is among those shown, waits in u, or waits in q, from where it passes.
SeenIn(c, m, shown, u, now, q) ==
    \/ m \in shown
    \/ \E j \in DOMAIN u : u[j] = Message(c, m)
    \/ \E j \in DOMAIN q : q[j] = Message(c, m) /\ Open(now, q, j, c)

\* ForeignFiltered for every message on its way to the prompt, and ReadIsSeen
\* without the messages that the filter is going to discard.
Flow ==
    /\ read \in [Contacts -> Nat]
    /\ \A c \in Contacts : read[c] \in 0 .. Len(history[c])
    /\ ~overflow =>
          /\ OpenAll(ui, uiQ)
          /\ \A c \in Contacts : \A i \in 1 .. read[c] :
                SeenIn(c, history[c][i], screen \cup skipped, uiQ, filter, dispQ)

\* What joins a queue later does not change what is read before it.
LEMMA OpenPrefix ==
    ASSUME NEW q \in Seq(Shows), NEW s \in Seq(Shows), Len(q) <= Len(s),
           \A i \in 1 .. Len(q) : s[i] = q[i],
           NEW j \in DOMAIN q, NEW now, NEW c, Open(now, q, j, c)
    PROVE  j \in DOMAIN s /\ s[j] = q[j] /\ Open(now, s, j, c)
<1>1. /\ DOMAIN q = 1 .. Len(q) /\ DOMAIN s = 1 .. Len(s) /\ Len(q) \in Nat /\ Len(s) \in Nat
  OBVIOUS
<1>2. \A l \in 1 .. Len(q) : l \in Control(s) <=> l \in Control(q)
  BY <1>1 DEF Control
<1>3. ASSUME NEW k \in 0 .. j - 1, \A l \in k + 1 .. j - 1 : l \notin Control(s)
      PROVE  IF k = 0 THEN now \in {None, c}
             ELSE k \in Control(s) => Apply(None, s[k]) \in {None, c}
  <2>1. \A l \in k + 1 .. j - 1 : l \in 1 .. Len(q)
    BY <1>1
  <2>2. \A l \in k + 1 .. j - 1 : l \notin Control(q)
    BY <1>2, <1>3, <2>1
  <2>3. IF k = 0 THEN now \in {None, c}
        ELSE k \in Control(q) => Apply(None, q[k]) \in {None, c}
    BY <2>2 DEF Open
  <2>4. k # 0 => k \in 1 .. Len(q)
    BY <1>1
  <2> QED
    BY <1>2, <2>3, <2>4
<1>4. Open(now, s, j, c)
  BY <1>3 DEF Open
<1> QED
  BY <1>1, <1>4

\* Taking the head of the queue and applying it.
LEMMA OpenTail ==
    ASSUME NEW q \in Seq(Shows), q # <<>>, NEW j \in DOMAIN q, j # 1, NEW now, NEW c,
           Open(now, q, j, c)
    PROVE  /\ j - 1 \in DOMAIN Tail(q) /\ Tail(q)[j - 1] = q[j]
           /\ Open(Apply(now, Head(q)), Tail(q), j - 1, c)
<1> DEFINE t == Tail(q)
<1>1. /\ t \in Seq(Shows) /\ Len(q) \in Nat \ {0} /\ Len(t) = Len(q) - 1
      /\ Head(q) = q[1] /\ Head(q) \in Shows
      /\ \A i \in 1 .. Len(t) : t[i] = q[i + 1]
  BY HeadTailProperties, EmptySeq
<1>2. DOMAIN t = 1 .. Len(q) - 1 /\ DOMAIN q = 1 .. Len(q)
  BY <1>1
<1> HIDE DEF t
<1>3. \A i \in 1 .. Len(q) - 1 : i \in Control(t) <=> i + 1 \in Control(q)
  BY <1>1, <1>2 DEF Control
<1>4. j \in 2 .. Len(q) /\ j - 1 \in DOMAIN t /\ t[j - 1] = q[j]
  BY <1>1, <1>2
<1>5. ASSUME NEW k \in 0 .. j - 2, \A l \in k + 1 .. j - 2 : l \notin Control(t)
      PROVE  IF k = 0 THEN Apply(now, Head(q)) \in {None, c}
             ELSE k \in Control(t) => Apply(None, t[k]) \in {None, c}
  <2>1. \A l \in k + 2 .. j - 1 : l \notin Control(q)
    <3> SUFFICES ASSUME NEW l \in k + 2 .. j - 1 PROVE l \notin Control(q)
      OBVIOUS
    <3>1. l - 1 \in k + 1 .. j - 2 /\ l - 1 \in 1 .. Len(q) - 1 /\ (l - 1) + 1 = l
      BY <1>1, <1>4
    <3> QED
      BY <1>3, <1>5, <3>1
  <2>2. k + 1 \in 0 .. j - 1 /\ k + 1 # 0 /\ (k + 1) + 1 = k + 2
    BY <1>4
  <2>3. k + 1 \in Control(q) => Apply(None, q[k + 1]) \in {None, c}
    BY <2>1, <2>2 DEF Open
  <2>4. CASE k # 0
    <3>1. k \in 1 .. Len(q) - 1
      BY <1>1, <1>4, <2>4
    <3> QED
      BY <1>1, <1>3, <2>3, <2>4, <3>1
  <2>5. CASE k = 0 /\ 1 \in Control(q)
    <3>1. Head(q).kind \in {"enter", "exit"}
      BY <1>1, <2>5 DEF Control
    <3>2. Apply(now, Head(q)) = Apply(None, Head(q))
      BY <3>1 DEF Apply
    <3> QED
      BY <1>1, <2>3, <2>5, <3>2
  <2>6. CASE k = 0 /\ 1 \notin Control(q)
    <3>1. Head(q).kind \notin {"enter", "exit"}
      BY <1>1, <1>2, <2>6 DEF Control
    <3>2. Apply(now, Head(q)) = now
      BY <3>1 DEF Apply
    <3>3. \A l \in 0 + 1 .. j - 1 : l \notin Control(q)
      BY <1>4, <2>1, <2>6
    <3>4. now \in {None, c}
      BY <1>4, <3>3 DEF Open
    <3> QED
      BY <2>6, <3>2, <3>4
  <2> QED
    BY <2>4, <2>5, <2>6
<1>6. Open(Apply(now, Head(q)), t, j - 1, c)
  <2>1. (j - 1) - 1 = j - 2
    BY <1>4
  <2> QED
    BY <1>5, <2>1 DEF Open
<1> QED
  BY <1>4, <1>6 DEF t

\* An event at the end is read in the chat the queue leads to.
LEMMA OpenLast ==
    ASSUME NEW q \in Seq(Shows), NEW e \in Shows, NEW now, NEW c, After(now, q) \in {None, c}
    PROVE  Open(now, Append(q, e), Len(q) + 1, c)
<1> DEFINE s == Append(q, e)
<1>1. /\ s \in Seq(Shows) /\ Len(s) = Len(q) + 1 /\ Len(q) \in Nat
      /\ \A i \in 1 .. Len(q) : s[i] = q[i]
  BY AppendProperties
<1> HIDE DEF s
<1>2. \A l \in 1 .. Len(q) : l \in Control(s) <=> l \in Control(q)
  BY <1>1 DEF Control
<1>3. Control(q) \subseteq 1 .. Len(q)
  BY DEF Control
<1>4. ASSUME NEW k \in 0 .. Len(q), \A l \in k + 1 .. Len(q) : l \notin Control(s)
      PROVE  IF k = 0 THEN now \in {None, c}
             ELSE k \in Control(s) => Apply(None, s[k]) \in {None, c}
  <2>1. \A l \in Control(q) : l <= k
    BY <1>1, <1>2, <1>3, <1>4
  <2>2. CASE k = 0
    <3>1. Control(q) = {}
      BY <1>1, <1>3, <2>1, <2>2
    <3> QED
      BY <2>2, <3>1, AfterNone
  <2>3. CASE k # 0 /\ k \in Control(s)
    <3>1. k \in 1 .. Len(q) /\ k \in Control(q) /\ s[k] = q[k]
      BY <1>1, <1>2, <2>3
    <3>2. After(now, q) = Apply(now, q[k])
      BY <2>1, <3>1, AfterLast
    <3>3. Apply(now, q[k]) = Apply(None, q[k])
      BY <3>1 DEF Control, Apply
    <3> QED
      BY <2>3, <3>1, <3>2, <3>3
  <2> QED
    BY <2>2, <2>3
<1>5. (Len(q) + 1) - 1 = Len(q)
  BY <1>1
<1> QED
  BY <1>4, <1>5 DEF Open, s

\* The rows of /chat are read in the chat that it enters.
LEMMA RowsOpen ==
    ASSUME NEW q \in Seq(Shows), NEW c \in Contacts, NEW rows \in Seq(Shows), NEW now,
           \A i \in 1 .. Len(rows) : rows[i].kind = "message"
    PROVE  LET s == q \o (<<Enter(c)>> \o rows)
           IN  /\ Len(q) <= Len(s) /\ \A i \in 1 .. Len(q) : s[i] = q[i]
               /\ \A i \in 1 .. Len(rows) : \E j \in DOMAIN s : s[j] = rows[i] /\ Open(now, s, j, c)
<1> DEFINE es == <<Enter(c)>> \o rows
           s == q \o es
<1>1. Enter(c) \in Shows /\ Enter(c).kind = "enter" /\ Enter(c).chat = c
  BY DEF Shows, Enter
<1>2. <<Enter(c)>> \in Seq(Shows) /\ Len(<<Enter(c)>>) = 1 /\ <<Enter(c)>>[1] = Enter(c)
  BY <1>1
<1> HIDE DEF Enter
<1>3. /\ es \in Seq(Shows) /\ Len(es) = 1 + Len(rows) /\ Len(rows) \in Nat
      /\ es[1] = Enter(c)
      /\ \A i \in 2 .. 1 + Len(rows) : es[i] = rows[i - 1]
  BY <1>2, ConcatProperties
<1> HIDE DEF es
<1>4. /\ s \in Seq(Shows) /\ Len(s) = Len(q) + Len(es)
      /\ \A i \in 1 .. Len(q) + Len(es) :
            s[i] = IF i <= Len(q) THEN q[i] ELSE es[i - Len(q)]
  BY <1>3, ConcatProperties
<1>5. Len(q) \in Nat /\ DOMAIN s = 1 .. Len(s)
  BY <1>4
<1> HIDE DEF s
<1>6. /\ Len(q) <= Len(s) /\ \A i \in 1 .. Len(q) : s[i] = q[i]
      /\ s[Len(q) + 1] = Enter(c)
  <2>1. Len(q) <= Len(s) /\ \A i \in 1 .. Len(q) : i \in 1 .. Len(q) + Len(es) /\ i <= Len(q)
    BY <1>3, <1>4, <1>5
  <2>2. /\ Len(q) + 1 \in 1 .. Len(q) + Len(es) /\ ~(Len(q) + 1 <= Len(q))
        /\ (Len(q) + 1) - Len(q) = 1
    BY <1>3, <1>5
  <2>3. s[Len(q) + 1] = es[1]
    BY <1>4, <2>2
  <2> QED
    BY <1>3, <1>4, <2>1, <2>3
<1>7. \A i \in 1 .. Len(rows) : Len(q) + 1 + i \in DOMAIN s /\ s[Len(q) + 1 + i] = rows[i]
  <2> SUFFICES ASSUME NEW i \in 1 .. Len(rows)
               PROVE  Len(q) + 1 + i \in DOMAIN s /\ s[Len(q) + 1 + i] = rows[i]
    OBVIOUS
  <2>1. /\ Len(q) + 1 + i \in 1 .. Len(q) + Len(es) /\ ~(Len(q) + 1 + i <= Len(q))
        /\ (Len(q) + 1 + i) - Len(q) = 1 + i /\ 1 + i \in 2 .. 1 + Len(rows) /\ (1 + i) - 1 = i
    BY <1>3, <1>5
  <2>2. s[Len(q) + 1 + i] = es[1 + i]
    BY <1>4, <2>1
  <2> QED
    BY <1>3, <1>4, <1>5, <2>1, <2>2
<1>8. ASSUME NEW i \in 1 .. Len(rows) PROVE Open(now, s, Len(q) + 1 + i, c)
  <2> DEFINE j == Len(q) + 1 + i
  <2>0. j \in Nat /\ j - 1 = Len(q) + i
    BY <1>3, <1>5
  <2>1. Len(q) + 1 \in Control(s)
    BY <1>1, <1>3, <1>4, <1>5, <1>6 DEF Control
  <2>2. ASSUME NEW k \in 0 .. j - 1, \A l \in k + 1 .. j - 1 : l \notin Control(s)
        PROVE  IF k = 0 THEN now \in {None, c}
               ELSE k \in Control(s) => Apply(None, s[k]) \in {None, c}
    <3>1. CASE k <= Len(q)
      <4>1. Len(q) + 1 \in k + 1 .. j - 1
        BY <1>3, <1>5, <2>0, <3>1
      <4> QED
        BY <2>1, <2>2, <4>1
    <3>2. CASE k = Len(q) + 1
      <4>1. Apply(None, s[k]) = c /\ k # 0
        BY <1>1, <1>5, <1>6, <3>2 DEF Apply
      <4> QED
        BY <4>1
    <3>3. CASE k > Len(q) + 1
      <4>1. k - (Len(q) + 1) \in 1 .. Len(rows) /\ Len(q) + 1 + (k - (Len(q) + 1)) = k /\ k # 0
        BY <1>3, <1>5, <2>0, <3>3
      <4>2. s[k].kind = "message"
        BY <1>7, <4>1
      <4>3. k \notin Control(s)
        BY <4>2 DEF Control
      <4> QED
        BY <4>1, <4>3
    <3> QED
      BY <1>5, <2>0, <3>1, <3>2, <3>3
  <2> QED
    BY <2>2 DEF Open
<1>9. \A i \in 1 .. Len(rows) : \E j \in DOMAIN s : s[j] = rows[i] /\ Open(now, s, j, c)
  <2> SUFFICES ASSUME NEW i \in 1 .. Len(rows)
               PROVE  \E j \in DOMAIN s : s[j] = rows[i] /\ Open(now, s, j, c)
    OBVIOUS
  <2> QED
    BY <1>7, <1>8
<1> QED
  BY <1>6, <1>9 DEF s, es

\* The rows of /chat are the newest of the history.
LEMMA RowsNewest ==
    ASSUME NEW c \in Contacts, history \in [Contacts -> Seq(Nat)],
           NEW i \in 1 .. Len(history[c]), i > Len(history[c]) - HistoryLimit
    PROVE  LET rows == [n \in DOMAIN Shown(c) |-> Message(c, Shown(c)[n])]
           IN  \E n \in 1 .. Len(rows) : rows[n] = Message(c, history[c][i])
<1> DEFINE h == history[c]
           m == IF Len(h) > HistoryLimit THEN Len(h) - HistoryLimit + 1 ELSE 1
           sh == Shown(c)
           rows == [n \in DOMAIN sh |-> Message(c, sh[n])]
<1>1. h \in Seq(Nat) /\ Len(h) \in Nat /\ HistoryLimit \in Nat /\ HistoryLimit # 0
  BY ChatAssumption
<1>2. sh = SubSeq(h, m, Len(h)) /\ i \in 1 .. Len(h) /\ i > Len(h) - HistoryLimit
  BY DEF Shown
<1>0. rows \in Seq(Shows)
  BY RowsShow
<1> HIDE DEF h, sh
<1>3. m \in Int /\ Len(h) \in Int /\ 1 <= m /\ m <= i /\ m <= Len(h)
  BY <1>1, <1>2
<1>4. \A n \in m .. Len(h) : h[n] \in Nat
  BY <1>1, <1>3, ElementOfSeq
<1> HIDE DEF m
<1>5. /\ sh \in Seq(Nat) /\ Len(sh) = Len(h) - m + 1
      /\ \A n \in 1 .. Len(h) - m + 1 : sh[n] = h[m + n - 1]
  <2>1. Len(h) >= m /\ SubSeq(h, m, Len(h)) \in Seq(Nat) /\ Len(SubSeq(h, m, Len(h))) = Len(h) - m + 1
    BY <1>3, <1>4, SubSeqProperties
  <2>2. ASSUME NEW n \in 1 .. Len(h) - m + 1 PROVE SubSeq(h, m, Len(h))[n] = h[m + n - 1]
    BY <1>3, <1>4, SubSeqProperties
  <2> QED
    BY <1>2, <2>1, <2>2
<1>6. DOMAIN sh = 1 .. Len(sh) /\ DOMAIN rows = DOMAIN sh
  BY <1>5
<1>7. DOMAIN rows = 1 .. Len(rows)
  BY <1>0, LenProperties
<1>8. i - m + 1 \in 1 .. Len(h) - m + 1 /\ m + (i - m + 1) - 1 = i
  BY <1>2, <1>3
<1>9. sh[i - m + 1] = h[i]
  BY <1>5, <1>8
<1>10. i - m + 1 \in DOMAIN sh
  BY <1>5, <1>6, <1>8
<1>11. rows[i - m + 1] = Message(c, h[i]) /\ i - m + 1 \in 1 .. Len(rows)
  BY <1>6, <1>7, <1>9, <1>10
<1> HIDE DEF rows
<1>12. \E n \in 1 .. Len(rows) : rows[n] = Message(c, h[i])
  BY <1>11
<1> QED
  BY <1>12 DEF rows, sh, h

-----------------------------------------------------------------------------
\* Flow in the next state, about the next values of the queues.
LEMMA FlowNext ==
    ASSUME read' \in [Contacts -> Nat],
           \A c \in Contacts : read'[c] \in 0 .. Len(history'[c]),
           ~overflow' =>
               /\ OpenAll(ui', uiQ')
               /\ \A c \in Contacts : \A i \in 1 .. read'[c] :
                      SeenIn(c, history'[c][i], screen' \cup skipped', uiQ', filter', dispQ')
    PROVE  Flow'
BY DEF Flow, OpenAll, SeenIn, Open, Control, Apply, Message

Extends(q, s) == Len(q) <= Len(s) /\ \A i \in 1 .. Len(q) : s[i] = q[i]

\* What joins dispQ later hides nothing.
LEMMA SeenExtends ==
    ASSUME NEW q \in Seq(Shows), NEW s \in Seq(Shows), Extends(q, s), NEW c, NEW m,
           NEW shown, NEW more, shown \subseteq more, NEW u, NEW now,
           SeenIn(c, m, shown, u, now, q)
    PROVE  SeenIn(c, m, more, u, now, s)
<1>1. ASSUME NEW j \in DOMAIN q, q[j] = Message(c, m), Open(now, q, j, c)
      PROVE  j \in DOMAIN s /\ s[j] = Message(c, m) /\ Open(now, s, j, c)
  BY <1>1, OpenPrefix DEF Extends
<1> QED
  BY <1>1 DEF SeenIn

\* One event at the end, where it fits.
LEMMA AppendExtends ==
    ASSUME NEW S, NEW q \in Seq(S), NEW e \in S
    PROVE  Extends(q, Append(q, e))
<1>1. /\ Len(Append(q, e)) = Len(q) + 1 /\ Len(q) \in Nat
      /\ \A i \in 1 .. Len(q) : Append(q, e)[i] = q[i]
  BY AppendProperties
<1>2. Len(q) <= Len(Append(q, e))
  BY <1>1
<1> QED
  BY <1>1, <1>2, Zenon DEF Extends

\* A position up to one within a sequence is a position of the sequence.
LEMMA Within ==
    ASSUME NEW n \in Nat, NEW r \in 0 .. n, NEW k \in Nat, NEW i \in 1 .. k, i <= r
    PROVE  i \in 1 .. r /\ i \in 1 .. n
OBVIOUS

\* A step that shows nothing new and marks nothing but what it puts in dispQ.
LEMMA QuietFlow ==
    ASSUME Typed, Typed', Flow, UNCHANGED <<uiQ, ui, filter, screen>>, skipped \subseteq skipped',
           ~overflow' => ~overflow /\ Extends(dispQ, dispQ'),
           \A c \in Contacts : Extends(history[c], history'[c]),
           read' \in [Contacts -> Nat],
           \A c \in Contacts : read'[c] \in 0 .. Len(history'[c]),
           \A c \in Contacts : \A i \in 1 .. read'[c] :
               \/ i <= read[c]
               \/ overflow'
               \/ SeenIn(c, history'[c][i], screen' \cup skipped', uiQ', filter', dispQ')
    PROVE  Flow'
<1>1. ASSUME ~overflow' PROVE OpenAll(ui', uiQ')
  <2>1. OpenAll(ui, uiQ) /\ ui' = ui /\ uiQ' = uiQ
    BY <1>1 DEF Flow
  <2> QED
    BY <2>1
<1>2. ASSUME ~overflow', NEW c \in Contacts, NEW i \in 1 .. read'[c], i <= read[c]
      PROVE  SeenIn(c, history'[c][i], screen' \cup skipped', uiQ', filter', dispQ')
  <2>1. read[c] \in 0 .. Len(history[c]) /\ Len(history[c]) \in Nat
    BY DEF Flow, Typed
  <2>0. read'[c] \in Nat
    OBVIOUS
  <2>2. i \in 1 .. read[c] /\ i \in 1 .. Len(history[c])
    BY <1>2, <2>0, <2>1, Within, Zenon
  <2>3. history'[c][i] = history[c][i]
    BY <2>2 DEF Extends
  <2>4. SeenIn(c, history[c][i], screen \cup skipped, uiQ, filter, dispQ)
    BY <1>2, <2>2 DEF Flow
  <2>5. dispQ \in Seq(Shows) /\ dispQ' \in Seq(Shows) /\ Extends(dispQ, dispQ')
    BY <1>2 DEF Typed
  <2>6. screen \cup skipped \subseteq screen' \cup skipped'
    OBVIOUS
  <2>7. SeenIn(c, history[c][i], screen' \cup skipped', uiQ, filter, dispQ')
    BY <2>4, <2>5, <2>6, SeenExtends
  <2> QED
    BY <2>3, <2>7
<1>3. ASSUME ~overflow', NEW c \in Contacts, NEW i \in 1 .. read'[c]
      PROVE  SeenIn(c, history'[c][i], screen' \cup skipped', uiQ', filter', dispQ')
  <2>1. CASE i <= read[c]
    BY <1>2, <1>3, <2>1
  <2>2. CASE ~(i <= read[c])
    BY <1>3, <2>2
  <2> QED
    BY <2>1, <2>2
<1> QED
  BY <1>1, <1>3, FlowNext

\* The screen takes the head of uiQ.
LEMMA UiEventFlow ==
    ASSUME Typed, Flow, UiEvent
    PROVE  Flow'
<1>1. /\ uiQ \in Seq(Shows) /\ uiQ # <<>> /\ uiQ' = Tail(uiQ) /\ ui' = Apply(ui, Head(uiQ))
      /\ screen' = IF Head(uiQ).kind = "message" THEN screen \cup {Head(uiQ).id} ELSE screen
      /\ UNCHANGED <<dispQ, filter, history, read, skipped, overflow>>
  BY DEF Typed, UiEvent, Apply
<1>2. /\ uiQ' \in Seq(Shows) /\ Len(uiQ) \in Nat \ {0} /\ Len(uiQ') = Len(uiQ) - 1
      /\ Head(uiQ) = uiQ[1]
      /\ \A i \in 1 .. Len(uiQ') : uiQ'[i] = uiQ[i + 1]
  BY <1>1, HeadTailProperties, EmptySeq
<1>3. DOMAIN uiQ' = 1 .. Len(uiQ) - 1 /\ DOMAIN uiQ = 1 .. Len(uiQ)
  BY <1>1, <1>2
<1>4. ASSUME OpenAll(ui, uiQ) PROVE OpenAll(ui', uiQ')
  <2> SUFFICES ASSUME NEW j \in DOMAIN uiQ', uiQ'[j].kind = "message"
               PROVE  Open(ui', uiQ', j, uiQ'[j].from)
    BY DEF OpenAll
  <2>1. j + 1 \in DOMAIN uiQ /\ j + 1 # 1 /\ uiQ'[j] = uiQ[j + 1] /\ (j + 1) - 1 = j
    BY <1>2, <1>3
  <2>2. Open(ui, uiQ, j + 1, uiQ[j + 1].from)
    BY <1>4, <2>1 DEF OpenAll
  <2>3. Open(Apply(ui, Head(uiQ)), Tail(uiQ), (j + 1) - 1, uiQ[j + 1].from)
    BY <1>1, <2>1, <2>2, OpenTail
  <2> QED
    BY <1>1, <2>1, <2>3
<1>5. ASSUME NEW c, NEW m, SeenIn(c, m, screen \cup skipped, uiQ, filter, dispQ)
      PROVE  SeenIn(c, m, screen' \cup skipped', uiQ', filter', dispQ')
  <2>1. CASE m \in screen \cup skipped
    BY <1>1, <2>1 DEF SeenIn
  <2>2. ASSUME NEW j \in DOMAIN uiQ, uiQ[j] = Message(c, m)
        PROVE  SeenIn(c, m, screen' \cup skipped', uiQ', filter', dispQ')
    <3>1. CASE j = 1
      <4>1. Head(uiQ).kind = "message" /\ Head(uiQ).id = m
        BY <1>2, <2>2, <3>1 DEF Message
      <4>2. m \in screen' \cup skipped'
        BY <1>1, <4>1
      <4> QED
        BY <4>2, Zenon DEF SeenIn
    <3>2. CASE j # 1
      <4>1. j - 1 \in DOMAIN uiQ' /\ uiQ'[j - 1] = uiQ[j]
        BY <1>2, <1>3, <3>2
      <4> QED
        BY <2>2, <4>1 DEF SeenIn
    <3> QED
      BY <3>1, <3>2
  <2>3. ASSUME NEW j \in DOMAIN dispQ, dispQ[j] = Message(c, m), Open(filter, dispQ, j, c)
        PROVE  SeenIn(c, m, screen' \cup skipped', uiQ', filter', dispQ')
    BY <1>1, <2>3 DEF SeenIn
  <2> QED
    BY <1>5, <2>1, <2>2, <2>3 DEF SeenIn
<1> QED
  BY <1>1, <1>4, <1>5, FlowNext DEF Flow

\* The filter passes a message on in its own chat, which is the one the prompt
\* shows when the message gets there, and discards none that is marked read.
LEMMA FilterFlow ==
    ASSUME IInv, Flow, Filter
    PROVE  Flow'
<1> DEFINE e == Head(dispQ)
           out == IF Passes(e) THEN <<e>> ELSE <<>>
<1>1. dispQ \in Seq(Shows) /\ dispQ # <<>> /\ uiQ \in Seq(Shows)
  BY DEF IInv, Typed, Filter
<1>2. /\ dispQ' = Tail(dispQ) /\ filter' = Apply(filter, e)
      /\ uiQ' = PushAll(uiQ, out)
      /\ overflow' = (overflow \/ ~Fits(uiQ, out))
      /\ UNCHANGED <<ui, history, read, screen, skipped>>
  BY DEF Filter, Apply
<1>3. e \in Shows /\ e = dispQ[1]
  BY <1>1, HeadTailProperties
<1> HIDE DEF e
<1>4. ASSUME ~overflow'
      PROVE  ~overflow /\ uiQ' = IF Passes(e) THEN Append(uiQ, e) ELSE uiQ
  <2>1. ~overflow /\ Fits(uiQ, out)
    BY <1>2, <1>4
  <2>2. CASE Passes(e)
    BY <1>1, <1>2, <1>3, <2>1, <2>2, PushOne
  <2>3. CASE ~Passes(e)
    <3>1. out = <<>> /\ out \in Seq(Shows)
      BY <2>3, EmptySeq
    <3>2. uiQ' = uiQ \o <<>>
      BY <1>1, <1>2, <2>1, <3>1, PushSeq
    <3> QED
      BY <1>1, <2>1, <2>3, <3>2, ConcatEmptySeq
  <2> QED
    BY <2>1, <2>2, <2>3
<1>5. /\ Append(uiQ, e) \in Seq(Shows) /\ Len(Append(uiQ, e)) = Len(uiQ) + 1 /\ Len(uiQ) \in Nat
      /\ \A i \in 1 .. Len(uiQ) : Append(uiQ, e)[i] = uiQ[i]
      /\ Append(uiQ, e)[Len(uiQ) + 1] = e
  BY <1>1, <1>3, AppendProperties
<1>6. /\ DOMAIN uiQ = 1 .. Len(uiQ) /\ DOMAIN Append(uiQ, e) = 1 .. Len(uiQ) + 1
  BY <1>1, <1>5
<1>7. ASSUME ~overflow' PROVE OpenAll(ui', uiQ')
  <2>0. ~overflow /\ OpenAll(ui, uiQ) /\ After(ui, uiQ) = filter
    BY <1>4, <1>7 DEF Flow, IInv, ChatAgreement
  <2>1. CASE ~Passes(e)
    BY <1>2, <1>4, <1>7, <2>0, <2>1
  <2>2. CASE Passes(e)
    <3> DEFINE s == Append(uiQ, e)
    <3> HIDE DEF s
    <3>1. uiQ' = s /\ ui' = ui
      BY <1>2, <1>4, <1>7, <2>2 DEF s
    <3>2. ASSUME NEW j \in DOMAIN s, s[j].kind = "message" PROVE Open(ui, s, j, s[j].from)
      <4>1. CASE j \in DOMAIN uiQ
        <5>1. s[j] = uiQ[j]
          BY <1>5, <1>6, <4>1 DEF s
        <5>2. Open(ui, uiQ, j, uiQ[j].from)
          BY <2>0, <3>2, <4>1, <5>1 DEF OpenAll
        <5>3. s \in Seq(Shows) /\ Len(uiQ) <= Len(s) /\ \A i \in 1 .. Len(uiQ) : s[i] = uiQ[i]
          BY <1>5 DEF s
        <5> QED
          BY <1>1, <4>1, <5>1, <5>2, <5>3, OpenPrefix
      <4>2. CASE j = Len(uiQ) + 1
        <5>1. s[j] = e /\ filter \in {None, e.from}
          BY <1>5, <2>2, <3>2, <4>2 DEF s, Passes
        <5>2. Open(ui, Append(uiQ, e), Len(uiQ) + 1, e.from)
          BY <1>1, <1>3, <2>0, <5>1, OpenLast
        <5> QED
          BY <4>2, <5>1, <5>2 DEF s
      <4>3. j \in 1 .. Len(uiQ) + 1
        BY <1>6 DEF s
      <4> QED
        BY <1>5, <1>6, <4>1, <4>2, <4>3
    <3> QED
      BY <3>1, <3>2 DEF OpenAll
  <2> QED
    BY <2>1, <2>2
<1>8. ASSUME ~overflow', NEW c, NEW m, SeenIn(c, m, screen \cup skipped, uiQ, filter, dispQ)
      PROVE  SeenIn(c, m, screen' \cup skipped', uiQ', filter', dispQ')
  <2>1. CASE m \in screen \cup skipped
    BY <1>2, <2>1 DEF SeenIn
  <2>2. ASSUME NEW j \in DOMAIN uiQ, uiQ[j] = Message(c, m)
        PROVE  SeenIn(c, m, screen' \cup skipped', uiQ', filter', dispQ')
    <3>1. j \in DOMAIN uiQ' /\ uiQ'[j] = uiQ[j]
      BY <1>4, <1>5, <1>6, <1>8
    <3> QED
      BY <2>2, <3>1 DEF SeenIn
  <2>3. ASSUME NEW j \in DOMAIN dispQ, dispQ[j] = Message(c, m), Open(filter, dispQ, j, c)
        PROVE  SeenIn(c, m, screen' \cup skipped', uiQ', filter', dispQ')
    <3>1. CASE j = 1
      <4>1. e = Message(c, m) /\ e.from = c
        BY <1>3, <2>3, <3>1 DEF Message
      <4>2. filter \in {None, c}
        BY <2>3, <3>1 DEF Open
      <4>3. Passes(e)
        BY <4>1, <4>2 DEF Passes
      <4>4. uiQ' = Append(uiQ, e)
        BY <1>4, <1>8, <4>3
      <4>5. Len(uiQ) + 1 \in DOMAIN uiQ' /\ uiQ'[Len(uiQ) + 1] = e
        BY <1>5, <1>6, <4>4
      <4> QED
        BY <4>1, <4>5 DEF SeenIn
    <3>2. CASE j # 1
      <4>1. /\ j - 1 \in DOMAIN dispQ' /\ dispQ'[j - 1] = Message(c, m)
            /\ Open(filter', dispQ', j - 1, c)
        BY <1>1, <1>2, <2>3, <3>2, OpenTail DEF e
      <4> QED
        BY <4>1 DEF SeenIn
    <3> QED
      BY <3>1, <3>2
  <2> QED
    BY <1>8, <2>1, <2>2, <2>3 DEF SeenIn
<1>9. read' \in [Contacts -> Nat] /\ \A c \in Contacts : read'[c] \in 0 .. Len(history'[c])
  BY <1>2 DEF Flow
<1>10. ASSUME ~overflow', NEW c \in Contacts, NEW i \in 1 .. read'[c]
       PROVE  SeenIn(c, history'[c][i], screen' \cup skipped', uiQ', filter', dispQ')
  BY <1>2, <1>4, <1>8, <1>10 DEF Flow
<1> QED
  BY <1>7, <1>9, <1>10, FlowNext

\* /chat puts the messages that it marks read behind the change of chat, or
\* counts them as skipped.
LEMMA ChatFlow ==
    ASSUME IInv, IInv', Flow, NEW n, HandleChat(n),
           UNCHANGED <<uiQ, ui, filter, screen, history>>
    PROVE  Flow'
<1> DEFINE c == Lookup(n)
           rows == [i \in DOMAIN Shown(c) |-> Message(c, Shown(c)[i])]
           es == <<Enter(c)>> \o rows
<1>0. /\ Typed /\ Typed' /\ \A d \in Contacts : Extends(history[d], history'[d])
      /\ history \in [Contacts -> Seq(Nat)] /\ dispQ \in Seq(Shows)
  BY DEF IInv, Typed, Extends
<1>1. CASE c = None
  <2>1. UNCHANGED <<dispQ, overflow, read, skipped>>
    BY <1>1 DEF HandleChat
  <2>2. Extends(dispQ, dispQ')
    BY <1>0, <2>1 DEF Extends
  <2>3. read' \in [Contacts -> Nat] /\ \A d \in Contacts : read'[d] \in 0 .. Len(history'[d])
    BY <2>1 DEF Flow
  <2>4. \A d \in Contacts : \A i \in 1 .. read'[d] : i <= read[d]
    BY <2>1, <2>3
  <2> QED
    BY <1>0, <2>1, <2>2, <2>3, <2>4, QuietFlow
<1>2. CASE c # None
  <2>1. c \in Contacts
    BY <1>2, ChatAssumption DEF Lookup
  <2>2. /\ dispQ' = PushAll(dispQ, es) /\ overflow' = (overflow \/ ~Fits(dispQ, es))
        /\ read' = [read EXCEPT ![c] = Len(history[c])]
        /\ skipped' = skipped \cup
               {history[c][i] : i \in (read[c] + 1) .. (Len(history[c]) - HistoryLimit)}
    BY <1>2 DEF HandleChat, Display
  <2>3. rows \in Seq(Shows) /\ \A i \in 1 .. Len(rows) : rows[i].kind = "message"
    BY <1>0, <2>1, RowsShow
  <2>4. \A i \in 1 .. Len(history[c]) : i > Len(history[c]) - HistoryLimit =>
            \E j \in 1 .. Len(rows) : rows[j] = Message(c, history[c][i])
    BY <1>0, <2>1, RowsNewest
  <2> HIDE DEF c, rows
  <2>5. /\ Extends(dispQ, dispQ \o es) /\ es \in Seq(Shows)
        /\ \A i \in 1 .. Len(rows) : \E j \in DOMAIN (dispQ \o es) :
               (dispQ \o es)[j] = rows[i] /\ Open(filter, dispQ \o es, j, c)
    BY <1>0, <2>1, <2>3, RowsOpen, AfterEnter DEF Extends
  <2> HIDE DEF es
  <2>6. ~overflow' => ~overflow /\ dispQ' = dispQ \o es
    BY <1>0, <2>2, <2>5, PushSeq
  <2>7. /\ Len(history[c]) \in Nat /\ HistoryLimit \in Nat
        /\ \A d \in Contacts : read[d] \in 0 .. Len(history[d])
    BY <1>0, <2>1, ChatAssumption DEF Flow
  <2>8. /\ read' \in [Contacts -> Nat] /\ read'[c] = Len(history[c])
        /\ \A d \in Contacts : d # c => read'[d] = read[d]
    BY <2>1, <2>2, <2>7 DEF Flow
  <2>9. \A d \in Contacts : read'[d] \in 0 .. Len(history'[d])
    <3> SUFFICES ASSUME NEW d \in Contacts PROVE read'[d] \in 0 .. Len(history[d])
      OBVIOUS
    <3>1. CASE d = c
      BY <2>7, <2>8, <3>1
    <3>2. CASE d # c
      BY <2>7, <2>8, <3>2
    <3> QED
      BY <3>1, <3>2
  <2>10. ASSUME NEW i \in 1 .. read'[c], ~(i <= read[c]), ~overflow'
         PROVE  SeenIn(c, history[c][i], screen' \cup skipped', uiQ', filter', dispQ')
    <3>1. i \in 1 .. Len(history[c]) /\ read[c] \in Nat
      BY <2>1, <2>7, <2>8
    <3>2. CASE i <= Len(history[c]) - HistoryLimit
      <4>1. i \in (read[c] + 1) .. (Len(history[c]) - HistoryLimit)
        BY <2>7, <2>10, <3>1, <3>2
      <4>2. history[c][i] \in skipped'
        BY <2>2, <4>1
      <4> QED
        BY <4>2 DEF SeenIn
    <3>3. CASE i > Len(history[c]) - HistoryLimit
      <4>1. PICK j \in 1 .. Len(rows) : rows[j] = Message(c, history[c][i])
        BY <2>4, <3>1, <3>3
      <4>2. PICK k \in DOMAIN (dispQ \o es) :
                (dispQ \o es)[k] = rows[j] /\ Open(filter, dispQ \o es, k, c)
        BY <2>5
      <4>3. dispQ' = dispQ \o es /\ filter' = filter
        BY <2>6, <2>10
      <4> QED
        BY <4>1, <4>2, <4>3 DEF SeenIn
    <3>4. i <= Len(history[c]) - HistoryLimit \/ i > Len(history[c]) - HistoryLimit
      BY <2>7, <3>1
    <3> QED
      BY <3>2, <3>3, <3>4
  <2>11. \A d \in Contacts : \A i \in 1 .. read'[d] :
            \/ i <= read[d]
            \/ overflow'
            \/ SeenIn(d, history'[d][i], screen' \cup skipped', uiQ', filter', dispQ')
    <3> SUFFICES ASSUME NEW d \in Contacts, NEW i \in 1 .. read'[d], ~(i <= read[d]), ~overflow'
                 PROVE  SeenIn(d, history'[d][i], screen' \cup skipped', uiQ', filter', dispQ')
      OBVIOUS
    <3>1. d = c
      <4>1. ASSUME d # c PROVE FALSE
        BY <2>7, <2>8, <4>1
      <4> QED
        BY <4>1
    <3> QED
      BY <2>10, <3>1
  <2>12. skipped \subseteq skipped' /\ (~overflow' => ~overflow /\ Extends(dispQ, dispQ'))
    BY <2>2, <2>5, <2>6
  <2> QED
    BY <1>0, <2>8, <2>9, <2>11, <2>12, QuietFlow
<1> QED
  BY <1>1, <1>2

\* A step that marks nothing read, and only adds to the history and to dispQ.
LEMMA UnmarkedFlow ==
    ASSUME Typed, Typed', Flow, UNCHANGED <<uiQ, ui, filter, screen, skipped, read>>,
           ~overflow' => ~overflow /\ Extends(dispQ, dispQ'),
           \A c \in Contacts : Extends(history[c], history'[c])
    PROVE  Flow'
<1>1. read' \in [Contacts -> Nat]
  BY DEF Flow
<1>2. \A c \in Contacts : read'[c] \in 0 .. Len(history'[c])
  <2> SUFFICES ASSUME NEW c \in Contacts PROVE read[c] \in 0 .. Len(history'[c])
    OBVIOUS
  <2>1. read[c] \in 0 .. Len(history[c]) /\ Len(history[c]) <= Len(history'[c])
    BY DEF Flow, Extends
  <2>2. Len(history[c]) \in Nat /\ Len(history'[c]) \in Nat
    BY DEF Typed
  <2> QED
    BY <2>1, <2>2
<1>3. ASSUME NEW c \in Contacts, NEW i \in 1 .. read'[c] PROVE i <= read[c]
  <2>1. read'[c] = read[c] /\ read'[c] \in Nat
    BY <1>1
  <2> QED
    BY <2>1
<1> QED
  BY <1>1, <1>2, <1>3, QuietFlow

\* The queue before a push of one event begins the queue after it.
LEMMA PushExtends ==
    ASSUME NEW S, NEW q \in Seq(S), NEW e \in S, Fits(q, <<e>>)
    PROVE  Extends(q, PushAll(q, <<e>>))
BY PushOne, AppendExtends

\* What the orchestrator stores is at the end of the history, unread.
LEMMA OrchestratorFlow ==
    ASSUME IInv, IInv', Flow,
           SendStep \/ (\E c \in Contacts : Incoming(c)) \/ (\E n \in Names : SendAnswered(n))
    PROVE  Flow'
<1>1. UNCHANGED <<dispQ, uiQ, filter, ui, read, screen, skipped>> /\ (~overflow' => ~overflow)
  <2>1. CASE SendStep
    BY <2>1 DEF SendStep
  <2>2. ASSUME NEW c \in Contacts, Incoming(c)
        PROVE  /\ UNCHANGED <<dispQ, uiQ, filter, ui, read, screen, skipped>>
               /\ ~overflow' => ~overflow
    BY <2>2 DEF Incoming, PresentLater
  <2>3. ASSUME NEW n \in Names, SendAnswered(n)
        PROVE  /\ UNCHANGED <<dispQ, uiQ, filter, ui, read, screen, skipped>>
               /\ ~overflow' => ~overflow
    BY <2>3 DEF SendAnswered, PresentLater
  <2> QED
    BY <2>1, <2>2, <2>3
<1>2. ASSUME NEW c \in Contacts, NEW m \in Nat, history' = [history EXCEPT ![c] = Append(@, m)]
      PROVE  \A d \in Contacts : Extends(history[d], history'[d])
  <2> SUFFICES ASSUME NEW d \in Contacts PROVE Extends(history[d], history'[d])
    OBVIOUS
  <2>1. history[d] \in Seq(Nat) /\ history'[d] = IF d = c THEN Append(history[d], m) ELSE history[d]
    BY <1>2 DEF IInv, Typed
  <2>2. Extends(history[d], Append(history[d], m))
    BY <2>1, AppendExtends
  <2>3. Extends(history[d], history[d])
    BY <2>1 DEF Extends
  <2> QED
    BY <2>1, <2>2, <2>3
<1>3. ASSUME UNCHANGED history PROVE \A d \in Contacts : Extends(history[d], history'[d])
  BY <1>3 DEF IInv, Typed, Extends
<1>4. \A d \in Contacts : Extends(history[d], history'[d])
  <2>1. CASE SendStep
    <3>1. CASE Lookup(Head(sessQ)) = None
      BY <1>3, <2>1, <3>1 DEF SendStep
    <3>2. CASE Lookup(Head(sessQ)) # None
      <4>1. Lookup(Head(sessQ)) \in Contacts
        BY <3>2, ChatAssumption DEF Lookup
      <4>2. history' = [history EXCEPT ![Lookup(Head(sessQ))] = Append(@, Own)] /\ Own \in Nat
        BY <2>1, <3>2 DEF SendStep, Own
      <4> QED
        BY <1>2, <4>1, <4>2
    <3> QED
      BY <3>1, <3>2
  <2>2. ASSUME NEW c \in Contacts, Incoming(c)
        PROVE  \A d \in Contacts : Extends(history[d], history'[d])
    <3>1. history' = [history EXCEPT ![c] = Append(@, received + 1)] /\ received + 1 \in Nat
      BY <2>2 DEF Incoming, IInv, Typed
    <3> QED
      BY <1>2, <3>1
  <2>3. ASSUME NEW n \in Names, SendAnswered(n)
        PROVE  \A d \in Contacts : Extends(history[d], history'[d])
    BY <1>3, <2>3 DEF SendAnswered
  <2> QED
    BY <2>1, <2>2, <2>3
<1>5. Extends(dispQ, dispQ') /\ Typed /\ Typed'
  BY <1>1 DEF IInv, Typed, Extends
<1> QED
  BY <1>1, <1>4, <1>5, UnmarkedFlow

\* The commands: only /chat marks, and it pushes what it marks.
LEMMA CommandFlow ==
    ASSUME IInv, IInv', Flow, HandleCommand
    PROVE  Flow'
<1>1. UNCHANGED <<uiQ, filter, ui, history, screen>> /\ Typed /\ Typed' /\ dispQ \in Seq(Shows)
  BY DEF HandleCommand, IInv, Typed
<1>2. \A d \in Contacts : Extends(history[d], history'[d])
  BY <1>1 DEF Typed, Extends
<1>3. Extends(dispQ, dispQ)
  BY <1>1 DEF Extends
<1>4. CASE HandleChat(Head(cmdQ).name)
  BY <1>1, <1>4, ChatFlow
<1>5. CASE HandleLeave
  <2>1. /\ dispQ' = PushAll(dispQ, <<Exit>>) /\ (~overflow' => ~overflow /\ Fits(dispQ, <<Exit>>))
        /\ UNCHANGED <<read, skipped>>
    BY <1>5 DEF HandleLeave, Display
  <2>2. ~overflow' => Extends(dispQ, dispQ')
    BY <1>1, <2>1, EventKinds, PushExtends
  <2> QED
    BY <1>1, <1>2, <2>1, <2>2, UnmarkedFlow
<1>6. ASSUME UNCHANGED <<dispQ, read, skipped>>, ~overflow' => ~overflow PROVE Flow'
  BY <1>1, <1>2, <1>3, <1>6, UnmarkedFlow
<1>7. ASSUME NEW n, HandleSend(n) PROVE Flow'
  <2>1. UNCHANGED <<dispQ, read, skipped>> /\ (~overflow' => ~overflow)
    BY <1>7 DEF HandleSend
  <2> QED
    BY <1>6, <2>1
<1>8. CASE HandleText
  <2>1. CASE HandleSend(parser)
    BY <1>7, <2>1
  <2>2. CASE UNCHANGED <<sessQ, dispQ, overflow, parser, read, skipped>>
    BY <1>6, <2>2
  <2> QED
    BY <1>8, <2>1, <2>2 DEF HandleText
<1>9. \/ HandleChat(Head(cmdQ).name) \/ HandleLeave \/ HandleSend(Head(cmdQ).name) \/ HandleText
  BY DEF HandleCommand
<1> QED
  BY <1>4, <1>5, <1>7, <1>8, <1>9

\* Every step keeps Flow.
LEMMA NextFlow ==
    ASSUME IInv, IInv', Flow, [Next]_vars
    PROVE  Flow'
<1>1. Typed /\ Typed' /\ dispQ \in Seq(Shows) /\ history \in [Contacts -> Seq(Nat)]
  BY DEF IInv, Typed
<1>2. Extends(dispQ, dispQ) /\ \A d \in Contacts : Extends(history[d], history[d])
  BY <1>1 DEF Extends
<1>3. CASE UNCHANGED vars
  <2>1. UNCHANGED <<dispQ, uiQ, ui, filter, screen, skipped, read, history, overflow>>
    BY <1>3 DEF vars
  <2> QED
    BY <1>1, <1>2, <2>1, UnmarkedFlow
<1>4. CASE Type
  <2>1. /\ UNCHANGED <<dispQ, uiQ, ui, filter, screen, skipped, read, history>>
        /\ (~overflow' => ~overflow)
    BY <1>4 DEF Type
  <2> QED
    BY <1>1, <1>2, <2>1, UnmarkedFlow
<1>5. CASE Present
  <2>1. /\ UNCHANGED <<uiQ, ui, filter, screen, skipped, read, history>>
        /\ presQ \in Seq(Event) /\ presQ # <<>>
        /\ dispQ' = PushAll(dispQ, <<Head(presQ)>>)
        /\ (~overflow' => ~overflow /\ Fits(dispQ, <<Head(presQ)>>))
    BY <1>1, <1>5 DEF Present, Display, Typed
  <2>2. Head(presQ) \in Shows
    BY <2>1, HeadTailProperties, EventKinds
  <2>3. ~overflow' => Extends(dispQ, dispQ')
    BY <1>1, <2>1, <2>2, PushExtends
  <2> QED
    BY <1>1, <1>2, <2>1, <2>3, UnmarkedFlow
<1> QED
  BY <1>1, <1>3, <1>4, <1>5, UiEventFlow, CommandFlow, FilterFlow, OrchestratorFlow DEF Next

\* Nothing is read at the start.
LEMMA InitFlow == Init => Flow
BY DEF Init, Flow, OpenAll

\* A message that reaches the screen is of the chat that the prompt shows, if it
\* shows one (ForeignFiltered).
THEOREM ForeignsFiltered == Spec => []ForeignFiltered
<1>1. IInv /\ Flow /\ [Next]_vars => (IInv /\ Flow)'
  BY NextIInv, NextFlow
<1>2. IInv /\ Flow => ForeignFiltered
  <2> SUFFICES ASSUME IInv, Flow, uiQ # <<>>, ~overflow, Head(uiQ).kind = "message"
               PROVE  ui \in {None, Head(uiQ).from}
    BY DEF ForeignFiltered
  <2>1. Head(uiQ) = uiQ[1] /\ 1 \in DOMAIN uiQ
    BY HeadTailProperties, EmptySeq DEF IInv, Typed
  <2>2. Open(ui, uiQ, 1, uiQ[1].from)
    BY <2>1 DEF Flow, OpenAll
  <2>3. 0 \in 0 .. 1 - 1 /\ \A l \in 0 + 1 .. 1 - 1 : l \notin Control(uiQ)
    OBVIOUS
  <2> QED
    BY <2>1, <2>2, <2>3 DEF Open
<1> QED
  BY <1>1, <1>2, InitIInv, InitFlow, PTL DEF Spec

\* A message marked read was shown, is on its way to the screen, or was too old
\* for /chat to show it (ReadIsSeen).
THEOREM ReadsSeen == Spec => []ReadIsSeen
<1>1. IInv /\ Flow /\ [Next]_vars => (IInv /\ Flow)'
  BY NextIInv, NextFlow
<1>2. IInv /\ Flow => ReadIsSeen
  BY DEF Flow, SeenIn, ReadIsSeen
<1> QED
  BY <1>1, <1>2, InitIInv, InitFlow, PTL DEF Spec
=============================================================================

----------------------------- MODULE TerminalProofs -----------------------------
(***************************************************************************)
(* The deques of the terminal server neither lose nor reorder anything,    *)
(* for every number of clients and messages.                               *)
(***************************************************************************)
EXTENDS TerminalProps, FiniteSetTheorems, SequenceTheorems, TLAPS

(* Messages of clients and typed lines, each with its number.              *)
Messages == (Clients \union {"input"}) \X Nat
Handlers == {"none", "recv", "check", "pop", "ended"}

(* Types; the handlers are where the code can be.                          *)
TypeOK ==
  /\ handler \in [Clients -> Handlers]
  /\ output \in Nat /\ unread \in Seq(Nat) /\ from_processor \in Seq(Nat)
  /\ got \in [Clients -> Seq(Nat)] /\ IsFiniteSet(lost)
  /\ sent \in [Clients -> Nat] /\ typed \in Nat
  /\ pending \in [Clients -> Seq(Messages)]
  /\ from_client \in Seq(Messages) /\ received \in Seq(Messages)
  /\ from_input \in Seq(Messages)

(* Messages that have been taken for a client                              *)
Taken == output - (Len(from_processor) + Len(unread))

(* Output is taken in the order of its numbers: the first Taken messages   *)
(* are with clients or lost, each once, the next ones are in the deque and *)
(* the rest in the socket.                                                 *)
OutputInv ==
  /\ Taken \in Nat
  /\ \A k \in DOMAIN from_processor : from_processor[k] = Taken + k
  /\ \A k \in DOMAIN unread : unread[k] = Taken + Len(from_processor) + k
  /\ lost \subseteq 1..Taken
  /\ \A c \in Clients :
       /\ Elements(got[c]) \subseteq 1..Taken /\ Increasing(got[c])
       /\ Elements(got[c]) \intersect lost = {}
       /\ \A d \in Clients : c # d => Elements(got[c]) \intersect Elements(got[d]) = {}
  /\ 1..Taken = lost \union UNION {Elements(got[c]) : c \in Clients}
  /\ Cardinality(lost) <= Cardinality({c \in Clients : handler[c] = "ended"})

(* Messages of c that a handler has received                               *)
Posted(c) == sent[c] - Len(pending[c])
Up == worker \in {"connecting", "recv", "client", "input"}

(* Input of a client is posted in the order of its numbers, and stays in   *)
(* that order while the worker is up.                                      *)
InputInv ==
  /\ \A k \in DOMAIN from_input : from_input[k][1] = "input"
  /\ \A c \in Clients :
       /\ Posted(c) \in Nat
       /\ \A k \in DOMAIN pending[c] : pending[c][k] = <<c, Posted(c) + k>>
       /\ Up => /\ Ordered(received, c) /\ Ordered(from_client, c)
                /\ \A m \in Numbers(received, c), n \in Numbers(from_client, c) : m < n
                /\ Numbers(received, c) \union Numbers(from_client, c) = 1..Posted(c)

IInv == TypeOK /\ OutputInv /\ InputInv

(* Elements and order of a sequence with one more number.                  *)
LEMMA ElementsAppend ==
  ASSUME NEW s \in Seq(Nat), NEW e \in Nat
  PROVE  /\ Append(s, e) \in Seq(Nat) /\ Elements(Append(s, e)) = Elements(s) \union {e}
         /\ Increasing(s) /\ (\A x \in Elements(s) : x < e) => Increasing(Append(s, e))
<1>1. /\ Append(s, e) \in Seq(Nat) /\ Len(Append(s, e)) = Len(s) + 1 /\ Len(s) \in Nat
      /\ \A k \in 1..(Len(s) + 1) : Append(s, e)[k] = IF k = Len(s) + 1 THEN e ELSE s[k]
  OBVIOUS
<1>2. DOMAIN s = 1..Len(s) /\ DOMAIN Append(s, e) = 1..(Len(s) + 1) BY <1>1
<1>3. \A k \in 1..(Len(s) + 1) : k = Len(s) + 1 \/ k \in 1..Len(s) BY <1>1
<1>4. \A k \in 1..Len(s) : k \in 1..(Len(s) + 1) /\ k # Len(s) + 1 BY <1>1
<1>5. Len(s) + 1 \in 1..(Len(s) + 1) BY <1>1
<1> DEFINE t == Append(s, e)
<1> HIDE DEF t
<1>6. Elements(t) = Elements(s) \union {e} BY <1>1, <1>2, <1>3, <1>4, <1>5 DEF Elements, t
<1>7. ASSUME Increasing(s), \A x \in Elements(s) : x < e,
             NEW m \in DOMAIN t, NEW n \in DOMAIN t, m < n
      PROVE  t[m] < t[n]
  <2>1. m \in 1..Len(s) BY <1>1, <1>2, <1>7 DEF t
  <2>2. t[m] = s[m] /\ s[m] \in Elements(s) BY <1>1, <1>2, <1>4, <2>1 DEF t, Elements
  <2>3. CASE n = Len(s) + 1 BY <1>1, <1>5, <1>7, <2>2, <2>3 DEF t
  <2>4. CASE n \in 1..Len(s)
    <3>1. t[n] = s[n] BY <1>1, <1>4, <2>4 DEF t
    <3> QED BY <1>2, <1>7, <2>1, <2>2, <2>4, <3>1 DEF Increasing
  <2> QED BY <1>2, <1>3, <2>3, <2>4 DEF t
<1>8. Increasing(s) /\ (\A x \in Elements(s) : x < e) => Increasing(t) BY <1>7 DEF Increasing
<1> QED BY <1>1, <1>6, <1>8 DEF t

(* The messages of a client in a deque with one more message.              *)
LEMMA NumbersAppend ==
  ASSUME NEW s \in Seq(Messages), NEW e \in Messages, NEW c
  PROVE  /\ Append(s, e) \in Seq(Messages)
         /\ Numbers(Append(s, e), c) = IF e[1] = c THEN Numbers(s, c) \union {e[2]} ELSE Numbers(s, c)
         /\ Ordered(s, c) /\ (e[1] = c => \A x \in Numbers(s, c) : x < e[2]) => Ordered(Append(s, e), c)
<1>1. /\ Append(s, e) \in Seq(Messages) /\ Len(Append(s, e)) = Len(s) + 1 /\ Len(s) \in Nat
      /\ \A k \in 1..(Len(s) + 1) : Append(s, e)[k] = IF k = Len(s) + 1 THEN e ELSE s[k]
  OBVIOUS
<1>2. DOMAIN s = 1..Len(s) /\ DOMAIN Append(s, e) = 1..(Len(s) + 1) BY <1>1
<1>3. \A k \in 1..(Len(s) + 1) : k = Len(s) + 1 \/ k \in 1..Len(s) BY <1>1
<1>4. \A k \in 1..Len(s) : k \in 1..(Len(s) + 1) /\ k # Len(s) + 1 BY <1>1
<1>5. Len(s) + 1 \in 1..(Len(s) + 1) BY <1>1
<1> DEFINE t == Append(s, e)
<1> HIDE DEF t
<1>6. Numbers(t, c) = IF e[1] = c THEN Numbers(s, c) \union {e[2]} ELSE Numbers(s, c)
  <2>1. \A k \in DOMAIN s : k \in DOMAIN t /\ t[k] = s[k] BY <1>1, <1>2, <1>4 DEF t
  <2>2. \A k \in DOMAIN t : k = Len(s) + 1 \/ k \in DOMAIN s BY <1>2, <1>3 DEF t
  <2>3. Len(s) + 1 \in DOMAIN t /\ t[Len(s) + 1] = e BY <1>1, <1>2, <1>5 DEF t
  <2>4. \A x : x \in Numbers(t, c) <=> \E k \in DOMAIN t : t[k][1] = c /\ x = t[k][2] BY DEF Numbers
  <2>5. \A x : x \in Numbers(s, c) <=> \E k \in DOMAIN s : s[k][1] = c /\ x = s[k][2] BY DEF Numbers
  <2>6. \A x : x \in Numbers(t, c) <=> x \in Numbers(s, c) \/ (e[1] = c /\ x = e[2])
    BY <2>1, <2>2, <2>3, <2>4, <2>5
  <2> QED BY <2>6
<1>7. ASSUME Ordered(s, c), e[1] = c => \A x \in Numbers(s, c) : x < e[2],
             NEW m \in DOMAIN t, NEW n \in DOMAIN t, m < n, t[m][1] = c, t[n][1] = c
      PROVE  t[m][2] < t[n][2]
  <2>1. m \in 1..Len(s) BY <1>1, <1>2, <1>7 DEF t
  <2>2. t[m] = s[m] BY <1>1, <1>2, <1>4, <2>1 DEF t
  <2>a. s[m][2] \in Numbers(s, c) BY <1>2, <1>7, <2>1, <2>2 DEF Numbers
  <2>3. CASE n = Len(s) + 1
    <3>1. t[n] = e BY <1>1, <1>5, <2>3 DEF t
    <3> QED BY <1>7, <2>2, <2>a, <3>1
  <2>4. CASE n \in 1..Len(s)
    <3>1. t[n] = s[n] BY <1>1, <1>4, <2>4 DEF t
    <3> QED BY <1>2, <1>7, <2>1, <2>2, <2>4, <3>1 DEF Ordered
  <2> QED BY <1>2, <1>3, <2>3, <2>4 DEF t
<1>8. Ordered(s, c) /\ (e[1] = c => \A x \in Numbers(s, c) : x < e[2]) => Ordered(t, c)
  BY <1>7 DEF Ordered
<1> QED BY <1>1, <1>6, <1>8 DEF t

(* And in one with the oldest message removed.                             *)
LEMMA NumbersTail ==
  ASSUME NEW s \in Seq(Messages), s # <<>>, NEW c
  PROVE  /\ Tail(s) \in Seq(Messages) /\ Head(s) \in Messages
         /\ Numbers(s, c) = IF Head(s)[1] = c THEN Numbers(Tail(s), c) \union {Head(s)[2]}
                            ELSE Numbers(Tail(s), c)
         /\ Ordered(s, c) =>
              /\ Ordered(Tail(s), c)
              /\ Head(s)[1] = c => \A x \in Numbers(Tail(s), c) : Head(s)[2] < x
<1> DEFINE t == Tail(s)
<1>1. /\ t \in Seq(Messages) /\ Head(s) \in Messages /\ Len(t) = Len(s) - 1 /\ Len(s) \in Nat \ {0}
      /\ Head(s) = s[1] /\ \A k \in 1..Len(t) : t[k] = s[k + 1]
  BY HeadTailProperties
<1> HIDE DEF t
<1>2. DOMAIN s = 1..Len(s) /\ DOMAIN t = 1..Len(t) BY <1>1
<1>3. \A k \in DOMAIN t : k + 1 \in DOMAIN s /\ t[k] = s[k + 1] /\ k + 1 > 1 BY <1>1, <1>2
<1>4. \A k \in DOMAIN s : k = 1 \/ (k - 1 \in DOMAIN t /\ t[k - 1] = s[k]) BY <1>1, <1>2
<1>5. 1 \in DOMAIN s BY <1>1, <1>2
<1>6. \A x : x \in Numbers(t, c) <=> \E k \in DOMAIN t : t[k][1] = c /\ x = t[k][2] BY DEF Numbers
<1>7. \A x : x \in Numbers(s, c) <=> \E k \in DOMAIN s : s[k][1] = c /\ x = s[k][2] BY DEF Numbers
<1>8. \A x : x \in Numbers(s, c) <=> x \in Numbers(t, c) \/ (Head(s)[1] = c /\ x = Head(s)[2])
  <2> TAKE x
  <2>1. ASSUME x \in Numbers(s, c) PROVE x \in Numbers(t, c) \/ (Head(s)[1] = c /\ x = Head(s)[2])
    <3>1. PICK k \in DOMAIN s : s[k][1] = c /\ x = s[k][2] BY <1>7, <2>1
    <3>2. CASE k = 1 BY <1>1, <3>1, <3>2
    <3>3. CASE k # 1 BY <1>4, <1>6, <3>1, <3>3
    <3> QED BY <3>2, <3>3
  <2>2. ASSUME x \in Numbers(t, c) PROVE x \in Numbers(s, c)
    <3>1. PICK k \in DOMAIN t : t[k][1] = c /\ x = t[k][2] BY <1>6, <2>2
    <3> QED BY <1>3, <1>7, <3>1
  <2>3. Head(s)[1] = c /\ x = Head(s)[2] => x \in Numbers(s, c) BY <1>1, <1>5, <1>7
  <2> QED BY <2>1, <2>2, <2>3
<1>9. Numbers(s, c) = IF Head(s)[1] = c THEN Numbers(t, c) \union {Head(s)[2]} ELSE Numbers(t, c)
  BY <1>8
<1>10. ASSUME Ordered(s, c) PROVE Ordered(t, c)
  <2> SUFFICES ASSUME NEW m \in DOMAIN t, NEW n \in DOMAIN t, m < n, t[m][1] = c, t[n][1] = c
               PROVE  t[m][2] < t[n][2] BY DEF Ordered
  <2>1. m + 1 < n + 1 BY <1>1, <1>2
  <2> QED BY <1>3, <1>10, <2>1 DEF Ordered
<1>11. ASSUME Ordered(s, c), Head(s)[1] = c, NEW x \in Numbers(t, c) PROVE Head(s)[2] < x
  <2>1. PICK k \in DOMAIN t : t[k][1] = c /\ x = t[k][2] BY <1>6
  <2> QED BY <1>1, <1>3, <1>5, <1>11, <2>1 DEF Ordered
<1> QED BY <1>1, <1>9, <1>10, <1>11 DEF t

-----------------------------------------------------------------------------
(* The invariant holds at the start.                                       *)
LEMMA InitHolds == Init => IInv
<1> SUFFICES ASSUME Init PROVE IInv OBVIOUS
<1>1. TypeOK BY FS_EmptySet DEF Init, TypeOK, Handlers
<1>2. OutputInv
  <2>0. output = 0 /\ Len(from_processor) = 0 /\ Len(unread) = 0 BY DEF Init
  <2>1. Taken = 0 BY <2>0 DEF Taken
  <2>2. \A c \in Clients : Elements(got[c]) = {} /\ Increasing(got[c]) BY DEF Elements, Increasing, Init
  <2>3. {c \in Clients : handler[c] = "ended"} = {} BY DEF Init
  <2>4. UNION {Elements(got[c]) : c \in Clients} = {} BY <2>2
  <2>5. 1..Taken = {} BY <2>1
  <2>6. Cardinality(lost) = 0 /\ Cardinality({c \in Clients : handler[c] = "ended"}) = 0
    BY <2>3, FS_EmptySet DEF Init
  <2>7. lost = {} /\ from_processor = <<>> /\ unread = <<>> BY DEF Init
  <2>8. DOMAIN from_processor = {} /\ DOMAIN unread = {} BY <2>7
  <2>9. Cardinality(lost) <= Cardinality({c \in Clients : handler[c] = "ended"}) BY <2>6
  <2>10. 1..Taken = lost \union UNION {Elements(got[c]) : c \in Clients} /\ lost \subseteq 1..Taken
    BY <2>4, <2>5, <2>7
  <2> QED BY <2>1, <2>2, <2>8, <2>9, <2>10 DEF OutputInv
<1>3. InputInv
  <2>1. \A c \in Clients : Posted(c) = 0 /\ pending[c] = <<>> BY DEF Posted, Init
  <2>2. from_input = <<>> /\ from_client = <<>> /\ received = <<>> BY DEF Init
  <2>3. \A c : Ordered(<<>>, c) /\ Numbers(<<>>, c) = {} BY DEF Ordered, Numbers
  <2>4. \A c \in Clients : 1..Posted(c) = {} BY <2>1
  <2> QED BY <2>1, <2>2, <2>3, <2>4 DEF InputInv
<1> QED BY <1>1, <1>2, <1>3 DEF IInv

EndedClients == {c \in Clients : handler[c] = "ended"}

(* Clients are finitely many, so handlers that have ended can be counted.  *)
LEMMA EndedGrows ==
  ASSUME EndedClients \subseteq EndedClients'
  PROVE  /\ IsFiniteSet(EndedClients) /\ IsFiniteSet(EndedClients')
         /\ Cardinality(EndedClients) \in Nat /\ Cardinality(EndedClients') \in Nat
         /\ Cardinality(EndedClients) <= Cardinality(EndedClients')
<1>1. IsFiniteSet(EndedClients) BY FS_Subset, ClientsAssumption DEF EndedClients
<1>2. IsFiniteSet(EndedClients') BY FS_Subset, ClientsAssumption DEF EndedClients
<1> QED BY <1>1, <1>2, FS_Subset, FS_CardinalityType

(* A step that leaves the output alone.                                    *)
LEMMA OutputStays ==
  ASSUME IInv, UNCHANGED outVars, EndedClients \subseteq EndedClients'
  PROVE  OutputInv'
<1>1. Cardinality(EndedClients) <= Cardinality(EndedClients')
      /\ Cardinality(EndedClients) \in Nat /\ Cardinality(EndedClients') \in Nat
  BY EndedGrows
<1>2. Cardinality(lost) <= Cardinality(EndedClients) /\ Cardinality(lost) \in Nat
  BY FS_CardinalityType DEF IInv, TypeOK, OutputInv, EndedClients
<1>3. lost' = lost /\ Cardinality(lost') <= Cardinality(EndedClients') BY <1>1, <1>2 DEF outVars
<1>4. Taken' = Taken BY DEF Taken, outVars
<1> QED BY <1>3, <1>4 DEF IInv, OutputInv, EndedClients, outVars

(* A step that leaves the input alone.                                     *)
LEMMA InputStays ==
  ASSUME IInv, UNCHANGED inVars, Up' => Up
  PROVE  InputInv'
<1>1. \A c : Posted(c)' = Posted(c) BY DEF Posted, inVars
<1> QED BY <1>1 DEF IInv, InputInv, inVars, Numbers, Ordered

-----------------------------------------------------------------------------
(* The machine writes a message.                                           *)
LEMMA WritesKeeps == IInv /\ ProcessorWrites => OutputInv'
<1> SUFFICES ASSUME IInv, ProcessorWrites PROVE OutputInv' OBVIOUS
<1>1. /\ output \in Nat /\ unread \in Seq(Nat) /\ from_processor \in Seq(Nat)
      /\ Len(unread) \in Nat /\ Len(from_processor) \in Nat /\ Taken \in Nat
  BY DEF IInv, TypeOK, OutputInv
<1>2. /\ output' = output + 1 /\ unread' = Append(unread, output + 1)
      /\ from_processor' = from_processor /\ got' = got /\ lost' = lost /\ handler' = handler
  BY DEF ProcessorWrites, threadVars
<1>3. /\ Len(unread') = Len(unread) + 1 /\ DOMAIN unread' = 1..(Len(unread) + 1)
      /\ \A k \in 1..(Len(unread) + 1) : unread'[k] = IF k = Len(unread) + 1 THEN output + 1 ELSE unread[k]
  BY <1>1, <1>2
<1>4. Taken' = Taken BY <1>1, <1>2, <1>3 DEF Taken
<1>5. \A k \in DOMAIN unread' : unread'[k] = Taken + Len(from_processor) + k
  <2> TAKE k \in DOMAIN unread'
  <2>1. CASE k = Len(unread) + 1 BY <1>1, <1>3, <2>1 DEF Taken
  <2>2. CASE k # Len(unread) + 1
    <3>1. k \in 1..Len(unread) /\ unread'[k] = unread[k] BY <1>1, <1>3, <2>2
    <3> QED BY <1>1, <3>1 DEF IInv, OutputInv
  <2> QED BY <2>1, <2>2
<1> QED BY <1>2, <1>4, <1>5 DEF IInv, OutputInv

(* The worker moves a message from the socket to the deque.                *)
LEMMA RecvKeeps ==
  ASSUME IInv, unread # <<>>, from_processor' = Append(from_processor, Head(unread)), unread' = Tail(unread),
         UNCHANGED <<output, got, lost, handler>>
  PROVE  OutputInv'
<1>1. /\ output \in Nat /\ unread \in Seq(Nat) /\ from_processor \in Seq(Nat)
      /\ Len(unread) \in Nat \ {0} /\ Len(from_processor) \in Nat /\ Taken \in Nat
  BY DEF IInv, TypeOK, OutputInv
<1>2. /\ Len(unread') = Len(unread) - 1 /\ DOMAIN unread' = 1..(Len(unread) - 1) /\ Head(unread) = unread[1]
      /\ \A k \in 1..(Len(unread) - 1) : unread'[k] = unread[k + 1]
  BY <1>1
<1>3. /\ Len(from_processor') = Len(from_processor) + 1 /\ DOMAIN from_processor' = 1..(Len(from_processor) + 1)
      /\ \A k \in 1..(Len(from_processor) + 1) :
           from_processor'[k] = IF k = Len(from_processor) + 1 THEN Head(unread) ELSE from_processor[k]
  BY <1>1
<1>4. Taken' = Taken BY <1>1, <1>2, <1>3 DEF Taken
<1>5. /\ \A k \in 1..Len(from_processor) : from_processor[k] = Taken + k
      /\ \A k \in 1..Len(unread) : unread[k] = Taken + Len(from_processor) + k
  BY <1>1 DEF IInv, OutputInv
<1>6. \A k \in DOMAIN unread' : unread'[k] = Taken + (Len(from_processor) + 1) + k
  <2> TAKE k \in DOMAIN unread'
  <2>1. k \in 1..(Len(unread) - 1) /\ k + 1 \in 1..Len(unread) BY <1>1, <1>2
  <2>2. unread'[k] = Taken + Len(from_processor) + (k + 1) BY <1>2, <1>5, <2>1
  <2> QED BY <1>1, <2>1, <2>2
<1>7. \A k \in DOMAIN from_processor' : from_processor'[k] = Taken + k
  <2> TAKE k \in DOMAIN from_processor'
  <2>1. CASE k = Len(from_processor) + 1
    <3>1. 1 \in 1..Len(unread) BY <1>1
    <3>2. Head(unread) = Taken + Len(from_processor) + 1 BY <1>2, <1>5, <3>1
    <3> QED BY <1>1, <1>3, <2>1, <3>2
  <2>2. CASE k # Len(from_processor) + 1
    <3>1. k \in 1..Len(from_processor) BY <1>1, <1>3, <2>2
    <3> QED BY <1>3, <1>5, <2>2, <3>1
  <2> QED BY <2>1, <2>2
<1>8. \A k \in DOMAIN unread' : unread'[k] = Taken' + Len(from_processor') + k BY <1>3, <1>4, <1>6
<1>9. \A k \in DOMAIN from_processor' : from_processor'[k] = Taken' + k BY <1>4, <1>7
<1> QED BY <1>4, <1>8, <1>9 DEF IInv, OutputInv

(* A handler takes the oldest message, and delivers it or ends.            *)
LEMMA PopKeeps ==
  ASSUME IInv, NEW c \in Clients, from_processor # <<>>, Take, UNCHANGED <<output, unread>>,
         \/ /\ got' = [got EXCEPT ![c] = Append(@, Head(from_processor))] /\ lost' = lost
            /\ EndedClients \subseteq EndedClients'
         \/ /\ lost' = lost \union {Head(from_processor)} /\ got' = got
            /\ c \notin EndedClients /\ EndedClients' = EndedClients \union {c}
  PROVE  OutputInv'
<1> DEFINE e == Head(from_processor)
<1>1. /\ output \in Nat /\ unread \in Seq(Nat) /\ from_processor \in Seq(Nat)
      /\ Len(unread) \in Nat /\ Len(from_processor) \in Nat \ {0} /\ Taken \in Nat
      /\ got \in [Clients -> Seq(Nat)] /\ IsFiniteSet(lost)
  BY DEF IInv, TypeOK, OutputInv
<1>2. /\ Len(from_processor') = Len(from_processor) - 1 /\ DOMAIN from_processor' = 1..(Len(from_processor) - 1)
      /\ e = from_processor[1] /\ \A k \in 1..(Len(from_processor) - 1) : from_processor'[k] = from_processor[k + 1]
  BY <1>1 DEF Take
<1>3. Taken' = Taken + 1 BY <1>1, <1>2 DEF Taken
<1>4. /\ \A k \in 1..Len(from_processor) : from_processor[k] = Taken + k
      /\ \A k \in DOMAIN unread : unread[k] = Taken + Len(from_processor) + k
      /\ DOMAIN unread = 1..Len(unread)
  BY <1>1 DEF IInv, OutputInv
<1>5. e = Taken + 1 /\ e \in Nat
  <2>1. 1 \in 1..Len(from_processor) BY <1>1
  <2> QED BY <1>1, <1>2, <1>4, <2>1
<1> HIDE DEF e
<1>6. \A k \in DOMAIN from_processor' : from_processor'[k] = Taken' + k
  <2> TAKE k \in DOMAIN from_processor'
  <2>1. k \in 1..(Len(from_processor) - 1) /\ k + 1 \in 1..Len(from_processor) BY <1>1, <1>2
  <2>2. from_processor'[k] = Taken + (k + 1) BY <1>2, <1>4, <2>1
  <2> QED BY <1>1, <1>3, <2>1, <2>2
<1>7. \A k \in DOMAIN unread' : unread'[k] = Taken' + Len(from_processor') + k
  <2> TAKE k \in DOMAIN unread'
  <2>1. k \in 1..Len(unread) /\ unread'[k] = Taken + Len(from_processor) + k BY <1>4
  <2> QED BY <1>1, <1>2, <1>3, <2>1
<1>8. 1..Taken' = (1..Taken) \union {e} /\ e \notin 1..Taken /\ Taken' \in Nat /\ 1..Taken \subseteq 1..Taken'
      /\ \A x \in 1..Taken : x < e
  BY <1>1, <1>3, <1>5
<1>9. /\ lost \subseteq 1..Taken
      /\ \A d \in Clients : Elements(got[d]) \subseteq 1..Taken /\ Increasing(got[d])
                            /\ Elements(got[d]) \intersect lost = {}
      /\ \A d, f \in Clients : d # f => Elements(got[d]) \intersect Elements(got[f]) = {}
      /\ 1..Taken = lost \union UNION {Elements(got[d]) : d \in Clients}
      /\ Cardinality(lost) <= Cardinality(EndedClients)
  BY DEF IInv, OutputInv, EndedClients
<1>10. CASE /\ got' = [got EXCEPT ![c] = Append(@, e)] /\ lost' = lost
            /\ EndedClients \subseteq EndedClients'
  <2>1. \A d \in Clients : got'[d] = IF d = c THEN Append(got[c], e) ELSE got[d] BY <1>1, <1>10
  <2>2. got[c] \in Seq(Nat) BY <1>1
  <2>3. Elements(got'[c]) = Elements(got[c]) \union {e} /\ Increasing(got'[c])
    <3>1. \A x \in Elements(got[c]) : x < e BY <1>8, <1>9
    <3>2. Elements(Append(got[c], e)) = Elements(got[c]) \union {e} /\ Increasing(Append(got[c], e))
      BY <1>5, <1>9, <2>2, <3>1, ElementsAppend
    <3> QED BY <2>1, <3>2
  <2>4. \A d \in Clients : Elements(got'[d]) = IF d = c THEN Elements(got[d]) \union {e} ELSE Elements(got[d])
    BY <2>1, <2>3
  <2>5. \A d \in Clients : Elements(got'[d]) \subseteq 1..Taken' /\ Increasing(got'[d])
                           /\ Elements(got'[d]) \intersect lost' = {}
    BY <1>8, <1>9, <1>10, <2>1, <2>3, <2>4
  <2>6. \A d, f \in Clients : d # f => Elements(got'[d]) \intersect Elements(got'[f]) = {}
    <3>1. \A d \in Clients : e \notin Elements(got[d]) BY <1>8, <1>9
    <3> TAKE d, f \in Clients
    <3> HAVE d # f
    <3>2. Elements(got[d]) \intersect Elements(got[f]) = {} BY <1>9
    <3>3. CASE d = c BY <2>4, <3>1, <3>2, <3>3
    <3>4. CASE d # c BY <2>4, <3>1, <3>2, <3>4
    <3> QED BY <3>3, <3>4
  <2>7. UNION {Elements(got'[d]) : d \in Clients} = (UNION {Elements(got[d]) : d \in Clients}) \union {e}
    <3>1. \A x : x \in UNION {Elements(got'[d]) : d \in Clients} <=> \E d \in Clients : x \in Elements(got'[d])
      OBVIOUS
    <3>2. \A x : x \in UNION {Elements(got[d]) : d \in Clients} <=> \E d \in Clients : x \in Elements(got[d])
      OBVIOUS
    <3>3. \A x : (\E d \in Clients : x \in Elements(got'[d])) <=> x = e \/ \E d \in Clients : x \in Elements(got[d])
      BY <2>4
    <3> QED BY <3>1, <3>2, <3>3
  <2>8. 1..Taken' = lost' \union UNION {Elements(got'[d]) : d \in Clients} /\ lost' \subseteq 1..Taken'
    BY <1>8, <1>9, <1>10, <2>7
  <2>9. Cardinality(lost') <= Cardinality(EndedClients')
    <3>1. Cardinality(lost) \in Nat BY <1>1, FS_CardinalityType
    <3> QED BY <1>9, <1>10, <3>1, EndedGrows
  <2> QED BY <1>6, <1>7, <1>8, <2>5, <2>6, <2>8, <2>9 DEF OutputInv, EndedClients
<1>11. CASE /\ lost' = lost \union {e} /\ got' = got
            /\ c \notin EndedClients /\ EndedClients' = EndedClients \union {c}
  <2>1. \A d \in Clients : Elements(got'[d]) \subseteq 1..Taken' /\ Increasing(got'[d])
                           /\ Elements(got'[d]) \intersect lost' = {}
    BY <1>8, <1>9, <1>11
  <2>2. 1..Taken' = lost' \union UNION {Elements(got'[d]) : d \in Clients} /\ lost' \subseteq 1..Taken'
    BY <1>8, <1>9, <1>11
  <2>3. Cardinality(lost') <= Cardinality(EndedClients')
    <3>1. Cardinality(lost) \in Nat BY <1>1, FS_CardinalityType
    <3>2. e \notin lost BY <1>8, <1>9
    <3>3. Cardinality(lost') = Cardinality(lost) + 1 BY <1>1, <1>11, <3>2, FS_AddElement
    <3>4. IsFiniteSet(EndedClients) /\ Cardinality(EndedClients) \in Nat BY <1>11, EndedGrows
    <3>5. Cardinality(EndedClients') = Cardinality(EndedClients) + 1 BY <1>11, <3>4, FS_AddElement
    <3> QED BY <1>9, <3>1, <3>3, <3>4, <3>5
  <2> QED BY <1>6, <1>7, <1>8, <1>9, <1>11, <2>1, <2>2, <2>3 DEF OutputInv, EndedClients
<1> QED BY <1>10, <1>11 DEF e

-----------------------------------------------------------------------------
(* A client sends a message.                                               *)
LEMMA SendsKeeps == ASSUME IInv, NEW c \in Clients, ClientSends(c) PROVE InputInv'
<1>1. /\ sent' = [sent EXCEPT ![c] = @ + 1]
      /\ pending' = [pending EXCEPT ![c] = Append(@, <<c, sent[c] + 1>>)]
      /\ worker' = worker /\ UNCHANGED <<from_client, from_input, received>>
  BY DEF ClientSends, threadVars
<1>2. /\ sent \in [Clients -> Nat] /\ pending \in [Clients -> Seq(Messages)] /\ pending[c] \in Seq(Messages)
      /\ sent[c] \in Nat /\ Len(pending[c]) \in Nat
  BY DEF IInv, TypeOK
<1>3. \A d \in Clients : d # c => pending'[d] = pending[d] /\ sent'[d] = sent[d] BY <1>1, <1>2
<1>4. sent'[c] = sent[c] + 1 /\ pending'[c] = Append(pending[c], <<c, sent[c] + 1>>) BY <1>1, <1>2
<1>5. /\ Len(pending'[c]) = Len(pending[c]) + 1 /\ DOMAIN pending'[c] = 1..(Len(pending[c]) + 1)
      /\ \A k \in 1..(Len(pending[c]) + 1) :
           pending'[c][k] = IF k = Len(pending[c]) + 1 THEN <<c, sent[c] + 1>> ELSE pending[c][k]
  BY <1>2, <1>4
<1>6. Posted(c)' = Posted(c) BY <1>2, <1>4, <1>5 DEF Posted
<1>7. \A d \in Clients : Posted(d)' = Posted(d) BY <1>3, <1>6 DEF Posted
<1>8. /\ Posted(c) \in Nat /\ \A k \in 1..Len(pending[c]) : pending[c][k] = <<c, Posted(c) + k>>
  BY <1>2 DEF IInv, InputInv
<1>9. \A k \in DOMAIN pending'[c] : pending'[c][k] = <<c, Posted(c)' + k>>
  <2> TAKE k \in DOMAIN pending'[c]
  <2>1. CASE k = Len(pending[c]) + 1
    <3>1. Posted(c) + k = sent[c] + 1 BY <1>2, <2>1 DEF Posted
    <3> QED BY <1>5, <1>6, <2>1, <3>1
  <2>2. CASE k # Len(pending[c]) + 1
    <3>1. k \in 1..Len(pending[c]) BY <1>2, <1>5, <2>2
    <3> QED BY <1>5, <1>6, <1>8, <2>2, <3>1
  <2> QED BY <2>1, <2>2
<1>10. \A d \in Clients : \A k \in DOMAIN pending'[d] : pending'[d][k] = <<d, Posted(d)' + k>>
  BY <1>3, <1>7, <1>9 DEF IInv, InputInv
<1>11. Up' <=> Up BY <1>1 DEF Up
<1>12. /\ received' = received /\ from_client' = from_client /\ from_input' = from_input BY <1>1
<1>13. \A d \in Clients : Posted(d) \in Nat /\
         (Up => /\ Ordered(received, d) /\ Ordered(from_client, d)
                /\ \A m \in Numbers(received, d), n \in Numbers(from_client, d) : m < n
                /\ Numbers(received, d) \union Numbers(from_client, d) = 1..Posted(d))
  BY DEF IInv, InputInv
<1>14. \A k \in DOMAIN from_input' : from_input'[k][1] = "input" BY <1>12 DEF IInv, InputInv
<1> QED BY <1>7, <1>10, <1>11, <1>12, <1>13, <1>14 DEF InputInv

(* A handler moves a message from its socket to the deque.                 *)
LEMMA HandlerRecvKeeps ==
  ASSUME IInv, NEW c \in Clients, pending[c] # <<>>, worker' = worker,
         from_client' = Append(from_client, Head(pending[c])), pending' = [pending EXCEPT ![c] = Tail(@)],
         UNCHANGED <<sent, from_input, received>>
  PROVE  InputInv'
<1> DEFINE e == Head(pending[c])
<1>1. /\ sent \in [Clients -> Nat] /\ pending \in [Clients -> Seq(Messages)] /\ pending[c] \in Seq(Messages)
      /\ sent[c] \in Nat /\ Len(pending[c]) \in Nat \ {0} /\ from_client \in Seq(Messages)
  BY DEF IInv, TypeOK
<1>2. \A d \in Clients : d # c => pending'[d] = pending[d] /\ Posted(d)' = Posted(d) BY <1>1 DEF Posted
<1>3. pending'[c] = Tail(pending[c]) /\ e = pending[c][1] /\ e \in Messages BY <1>1
<1>4. /\ Len(pending'[c]) = Len(pending[c]) - 1 /\ DOMAIN pending'[c] = 1..(Len(pending[c]) - 1)
      /\ \A k \in 1..(Len(pending[c]) - 1) : pending'[c][k] = pending[c][k + 1]
  BY <1>1, <1>3
<1>5. Posted(c)' = Posted(c) + 1 BY <1>1, <1>4 DEF Posted
<1>6. Posted(c) \in Nat /\ \A k \in 1..Len(pending[c]) : pending[c][k] = <<c, Posted(c) + k>>
  BY <1>1 DEF IInv, InputInv
<1>7. e = <<c, Posted(c) + 1>>
  <2>1. 1 \in 1..Len(pending[c]) BY <1>1
  <2> QED BY <1>3, <1>6, <2>1
<1> HIDE DEF e
<1>8. \A k \in DOMAIN pending'[c] : pending'[c][k] = <<c, Posted(c)' + k>>
  <2> TAKE k \in DOMAIN pending'[c]
  <2>1. k \in 1..(Len(pending[c]) - 1) /\ k + 1 \in 1..Len(pending[c]) BY <1>1, <1>4
  <2>2. Posted(c) + (k + 1) = Posted(c)' + k BY <1>5, <1>6, <2>1
  <2> QED BY <1>4, <1>6, <2>1, <2>2
<1>9. Up' <=> Up BY DEF Up
<1>10. e[1] = c /\ e[2] = Posted(c) + 1 BY <1>7
<1>11. ASSUME NEW d \in Clients
       PROVE  /\ Posted(d)' \in Nat
              /\ \A k \in DOMAIN pending'[d] : pending'[d][k] = <<d, Posted(d)' + k>>
              /\ Up => /\ Ordered(received', d) /\ Ordered(from_client', d)
                       /\ \A m \in Numbers(received', d), n \in Numbers(from_client', d) : m < n
                       /\ Numbers(received', d) \union Numbers(from_client', d) = 1..Posted(d)'
  <2>1. received' = received /\ from_client' = Append(from_client, e) BY DEF e
  <2>2. /\ Posted(d) \in Nat /\ \A k \in DOMAIN pending[d] : pending[d][k] = <<d, Posted(d) + k>>
        /\ Up => /\ Ordered(received, d) /\ Ordered(from_client, d)
                 /\ \A m \in Numbers(received, d), n \in Numbers(from_client, d) : m < n
                 /\ Numbers(received, d) \union Numbers(from_client, d) = 1..Posted(d)
    BY DEF IInv, InputInv
  <2>3. CASE d # c
    <3>1. Up => Ordered(from_client', d) /\ Numbers(from_client', d) = Numbers(from_client, d)
      BY <1>1, <1>3, <1>10, <2>1, <2>2, <2>3, NumbersAppend
    <3> QED BY <1>2, <2>1, <2>2, <2>3, <3>1
  <2>4. CASE d = c
    <3>1. 1..Posted(c)' = (1..Posted(c)) \union {e[2]} /\ \A x \in 1..Posted(c) : x < e[2]
      BY <1>5, <1>6, <1>10
    <3>2. Up => Numbers(from_client, c) \subseteq 1..Posted(c) /\ Numbers(received, c) \subseteq 1..Posted(c)
      BY <2>2, <2>4
    <3>3. Numbers(from_client', c) = Numbers(from_client, c) \union {e[2]}
      BY <1>1, <1>3, <1>10, <2>1, NumbersAppend
    <3>4. Up => Ordered(from_client', c)
      BY <1>1, <1>3, <1>10, <2>1, <2>2, <2>4, <3>1, <3>2, NumbersAppend
    <3>5. Up => \A m \in Numbers(received, c), n \in Numbers(from_client', c) : m < n
      BY <2>2, <2>4, <3>1, <3>2, <3>3
    <3>6. Up => Numbers(received, c) \union Numbers(from_client', c) = 1..Posted(c)'
      BY <2>2, <2>4, <3>1, <3>3
    <3>7. Posted(c)' \in Nat BY <1>5, <1>6
    <3> QED BY <1>8, <2>1, <2>2, <2>4, <3>4, <3>5, <3>6, <3>7
  <2> QED BY <2>3, <2>4
<1>12. \A k \in DOMAIN from_input' : from_input'[k][1] = "input" BY DEF IInv, InputInv
<1> QED BY <1>9, <1>11, <1>12 DEF InputInv

(* The worker sends the oldest message of the deque, or fails.             *)
LEMMA ForwardKeeps ==
  ASSUME IInv, from_client # <<>>, from_client' = Tail(from_client),
         Up' => Up /\ received' = Append(received, Head(from_client)),
         UNCHANGED <<sent, pending, from_input>>
  PROVE  InputInv'
<1> DEFINE e == Head(from_client)
<1>1. from_client \in Seq(Messages) /\ received \in Seq(Messages) /\ e \in Messages BY DEF IInv, TypeOK
<1>2. \A d : Posted(d)' = Posted(d) BY DEF Posted
<1>3. ASSUME NEW d \in Clients, Up'
      PROVE  /\ Ordered(received', d) /\ Ordered(from_client', d)
             /\ \A m \in Numbers(received', d), n \in Numbers(from_client', d) : m < n
             /\ Numbers(received', d) \union Numbers(from_client', d) = 1..Posted(d)
  <2>1. /\ Ordered(received, d) /\ Ordered(from_client, d)
        /\ \A m \in Numbers(received, d), n \in Numbers(from_client, d) : m < n
        /\ Numbers(received, d) \union Numbers(from_client, d) = 1..Posted(d)
    BY <1>3 DEF IInv, InputInv
  <2>2. /\ Numbers(from_client, d) = IF e[1] = d THEN Numbers(from_client', d) \union {e[2]}
                                     ELSE Numbers(from_client', d)
        /\ Ordered(from_client', d) /\ (e[1] = d => \A x \in Numbers(from_client', d) : e[2] < x)
    BY <1>1, <2>1, NumbersTail
  <2>3. received' = Append(received, e) BY <1>3
  <2> HIDE DEF e
  <2>4. e[1] = d => \A x \in Numbers(received, d) : x < e[2] BY <2>1, <2>2
  <2>5. /\ Numbers(received', d) = IF e[1] = d THEN Numbers(received, d) \union {e[2]} ELSE Numbers(received, d)
        /\ Ordered(received', d)
    BY <1>1, <2>1, <2>3, <2>4, NumbersAppend
  <2>6. CASE e[1] = d BY <2>1, <2>2, <2>5, <2>6
  <2>7. CASE e[1] # d BY <2>1, <2>2, <2>5, <2>7
  <2> QED BY <2>6, <2>7
<1> QED BY <1>2, <1>3 DEF IInv, InputInv

(* The worker sends a typed line, or fails: no message of a client moves.  *)
LEMMA LineKeeps ==
  ASSUME IInv, from_input # <<>>, from_input' = Tail(from_input),
         Up' => Up /\ received' = Append(received, Head(from_input)),
         UNCHANGED <<sent, pending, from_client>>
  PROVE  InputInv'
<1> DEFINE e == Head(from_input)
<1>1. from_input \in Seq(Messages) /\ received \in Seq(Messages) /\ e \in Messages
      /\ Len(from_input) \in Nat \ {0} /\ e = from_input[1] /\ DOMAIN from_input' = 1..(Len(from_input) - 1)
      /\ \A k \in 1..(Len(from_input) - 1) : from_input'[k] = from_input[k + 1]
  BY DEF IInv, TypeOK
<1>2. \A d : Posted(d)' = Posted(d) BY DEF Posted
<1>3. \A k \in 1..Len(from_input) : from_input[k][1] = "input" BY <1>1 DEF IInv, InputInv
<1>4. e[1] = "input" /\ \A k \in DOMAIN from_input' : from_input'[k][1] = "input"
  <2>1. 1 \in 1..Len(from_input) /\ \A k \in 1..(Len(from_input) - 1) : k + 1 \in 1..Len(from_input) BY <1>1
  <2> QED BY <1>1, <1>3, <2>1
<1>5. ASSUME NEW d \in Clients, Up'
      PROVE  Ordered(received', d) /\ Numbers(received', d) = Numbers(received, d)
  <2>1. e[1] # d BY <1>4, ClientsAssumption
  <2>2. Ordered(received, d) BY <1>5 DEF IInv, InputInv
  <2>3. received' = Append(received, e) BY <1>5
  <2> HIDE DEF e
  <2> QED BY <1>1, <2>1, <2>2, <2>3, NumbersAppend
<1> QED BY <1>2, <1>4, <1>5 DEF IInv, InputInv

(* Every step keeps the types.                                             *)
LEMMA TypeKeeps == ASSUME IInv, [Next]_vars PROVE TypeOK'
<1> USE DEF IInv
<1>0. TypeOK OBVIOUS
<1>1. CASE ProcessorWrites
  <2>1. Append(unread, output + 1) \in Seq(Nat) /\ output + 1 \in Nat BY DEF TypeOK
  <2> QED BY <1>1, <2>1 DEF TypeOK, ProcessorWrites, threadVars, inVars
<1>2. CASE Interrupt \/ StopServing \/ ServerClose
  BY <1>2 DEF TypeOK, Interrupt, StopServing, LeaveServeForever, ServerClose, outVars, inVars
<1>3. CASE ReadLine
  <2>1. <<"input", typed + 1>> \in Messages /\ typed + 1 \in Nat BY DEF TypeOK, Messages
  <2>2. Append(from_input, <<"input", typed + 1>>) \in Seq(Messages) BY <2>1 DEF TypeOK
  <2> QED BY <1>3, <2>1, <2>2 DEF TypeOK, ReadLine, threadVars, outVars
<1>4. CASE EndOfInput BY <1>4 DEF TypeOK, EndOfInput, outVars, inVars
<1>5. ASSUME NEW c \in Clients, ClientSends(c) PROVE TypeOK'
  <2>1. <<c, sent[c] + 1>> \in Messages /\ sent[c] + 1 \in Nat BY DEF TypeOK, Messages
  <2>2. pending[c] \in Seq(Messages) BY DEF TypeOK
  <2>3. Append(pending[c], <<c, sent[c] + 1>>) \in Seq(Messages) BY <2>1, <2>2
  <2>4. sent' \in [Clients -> Nat] /\ pending' \in [Clients -> Seq(Messages)]
    BY <1>5, <2>1, <2>3 DEF TypeOK, ClientSends
  <2> QED BY <1>5, <2>4 DEF TypeOK, ClientSends, threadVars, outVars
<1>6. ASSUME NEW c \in Clients, Accept(c) PROVE TypeOK'
  BY <1>6 DEF TypeOK, Accept, Handlers, outVars, inVars
<1>7. ASSUME NEW c \in Clients, HandlerRecv(c) PROVE TypeOK'
  <2>1. handler' \in [Clients -> Handlers] BY <1>7 DEF HandlerRecv, HandlerGoto, TypeOK, Handlers
  <2>2. UNCHANGED outVars BY <1>7 DEF HandlerRecv
  <2>3. CASE UNCHANGED inVars BY <2>1, <2>2, <2>3 DEF TypeOK, outVars, inVars
  <2>4. CASE /\ pending[c] # <<>>
             /\ from_client' = Append(from_client, Head(pending[c]))
             /\ pending' = [pending EXCEPT ![c] = Tail(@)]
             /\ UNCHANGED <<sent, from_input, typed, received>>
    <3>1. pending[c] \in Seq(Messages) BY DEF TypeOK
    <3>2. Head(pending[c]) \in Messages /\ Tail(pending[c]) \in Seq(Messages) BY <2>4, <3>1
    <3>3. from_client' \in Seq(Messages) BY <2>4, <3>2 DEF TypeOK
    <3>4. pending' \in [Clients -> Seq(Messages)] BY <2>4, <3>2 DEF TypeOK
    <3> QED BY <2>1, <2>2, <2>4, <3>3, <3>4 DEF TypeOK, outVars
  <2> QED BY <1>7, <2>3, <2>4 DEF HandlerRecv
<1>8. ASSUME NEW c \in Clients, HandlerCheck(c) PROVE TypeOK'
  BY <1>8 DEF TypeOK, HandlerCheck, HandlerGoto, Handlers, outVars, inVars
<1>9. ASSUME NEW c \in Clients, HandlerPop(c) PROVE TypeOK'
  <2>1. handler' \in [Clients -> Handlers] BY <1>9 DEF HandlerPop, HandlerGoto, TypeOK, Handlers
  <2>2. UNCHANGED inVars BY <1>9 DEF HandlerPop
  <2>3. CASE UNCHANGED outVars BY <2>1, <2>2, <2>3 DEF TypeOK, outVars, inVars
  <2>4. CASE /\ from_processor # <<>> /\ Take /\ UNCHANGED <<output, unread>>
             /\ \/ got' = [got EXCEPT ![c] = Append(@, Head(from_processor))] /\ UNCHANGED lost
                \/ lost' = lost \union {Head(from_processor)} /\ UNCHANGED got
    <3>1. Head(from_processor) \in Nat /\ from_processor' \in Seq(Nat) BY <2>4 DEF TypeOK, Take
    <3>2. got[c] \in Seq(Nat) BY DEF TypeOK
    <3>3. Append(got[c], Head(from_processor)) \in Seq(Nat) BY <3>1, <3>2
    <3>4. IsFiniteSet(lost \union {Head(from_processor)}) BY FS_AddElement DEF TypeOK
    <3>5. got' \in [Clients -> Seq(Nat)] /\ IsFiniteSet(lost') BY <2>4, <3>3, <3>4 DEF TypeOK
    <3> QED BY <2>1, <2>2, <2>4, <3>1, <3>5 DEF TypeOK, inVars
  <2> QED BY <1>9, <2>3, <2>4 DEF HandlerPop
<1>10. CASE Connect BY <1>10 DEF TypeOK, Connect, Goto, outVars, inVars
<1>11. CASE ProcessorRecv
  <2>1. handler' = handler /\ UNCHANGED inVars BY <1>11 DEF ProcessorRecv, Goto
  <2>2. CASE UNCHANGED outVars BY <2>1, <2>2 DEF TypeOK, outVars, inVars
  <2>3. CASE /\ unread # <<>> /\ from_processor' = Append(from_processor, Head(unread))
             /\ unread' = Tail(unread) /\ UNCHANGED <<output, got, lost>>
    <3>1. from_processor' \in Seq(Nat) /\ unread' \in Seq(Nat) BY <2>3 DEF TypeOK
    <3> QED BY <2>1, <2>3, <3>1 DEF TypeOK, inVars
  <2> QED BY <1>11, <2>2, <2>3 DEF ProcessorRecv
<1>12. CASE ForwardClient
  <2>1. handler' = handler /\ UNCHANGED <<outVars, sent, pending, from_input, typed>>
    BY <1>12 DEF ForwardClient, Goto
  <2>2. from_client' \in Seq(Messages) /\ received' \in Seq(Messages)
    <3>1. from_client \in Seq(Messages) /\ received \in Seq(Messages) BY DEF TypeOK
    <3>2. CASE from_client = <<>> BY <1>12, <3>1, <3>2 DEF ForwardClient
    <3>3. CASE from_client # <<>>
      <4>1. Tail(from_client) \in Seq(Messages) /\ Head(from_client) \in Messages BY <3>1, <3>3
      <4>2. Append(received, Head(from_client)) \in Seq(Messages) BY <3>1, <4>1
      <4>3. from_client' = Tail(from_client) /\ (received' = received \/ received' = Append(received, Head(from_client)))
        BY <1>12, <3>3 DEF ForwardClient, SendOldest
      <4> QED BY <3>1, <4>1, <4>2, <4>3
    <3> QED BY <3>2, <3>3
  <2> QED BY <2>1, <2>2 DEF TypeOK, outVars
<1>13. CASE ForwardInput
  <2>1. handler' = handler /\ UNCHANGED <<outVars, sent, pending, from_client, typed>>
    BY <1>13 DEF ForwardInput, Goto
  <2>2. from_input' \in Seq(Messages) /\ received' \in Seq(Messages)
    <3>1. from_input \in Seq(Messages) /\ received \in Seq(Messages) BY DEF TypeOK
    <3>2. CASE from_input = <<>> BY <1>13, <3>1, <3>2 DEF ForwardInput
    <3>3. CASE from_input # <<>>
      <4>1. Tail(from_input) \in Seq(Messages) /\ Head(from_input) \in Messages BY <3>1, <3>3
      <4>2. Append(received, Head(from_input)) \in Seq(Messages) BY <3>1, <4>1
      <4>3. from_input' = Tail(from_input) /\ (received' = received \/ received' = Append(received, Head(from_input)))
        BY <1>13, <3>3 DEF ForwardInput, SendOldest
      <4> QED BY <3>1, <4>1, <4>2, <4>3
    <3> QED BY <3>2, <3>3
  <2> QED BY <2>1, <2>2 DEF TypeOK, outVars
<1>14. CASE WorkerFinally \/ InputFinally
  BY <1>14 DEF TypeOK, WorkerFinally, InputFinally, outVars, inVars
<1>15. CASE UNCHANGED vars
  BY <1>15 DEF TypeOK, vars, threadVars, outVars, inVars
<1> QED
  BY <1>1, <1>2, <1>3, <1>4, <1>5, <1>6, <1>7, <1>8, <1>9, <1>10, <1>11, <1>12, <1>13, <1>14, <1>15
  DEF Next, MainThread, ProcessorWorker, Handler

(* Every step keeps the output in order.                                   *)
LEMMA OutputKeeps == ASSUME IInv, [Next]_vars PROVE OutputInv'
<1>t. handler \in [Clients -> Handlers] BY DEF IInv, TypeOK
<1>0. ASSUME handler' = handler PROVE EndedClients \subseteq EndedClients' BY <1>0 DEF EndedClients
<1>1. CASE ProcessorWrites BY <1>1, WritesKeeps
<1>2. CASE \/ Interrupt \/ StopServing \/ ServerClose \/ ReadLine \/ EndOfInput \/ Connect \/ ForwardClient
           \/ ForwardInput \/ WorkerFinally \/ InputFinally \/ UNCHANGED vars
  <2>1. handler' = handler /\ UNCHANGED outVars
    BY <1>2 DEF Interrupt, StopServing, LeaveServeForever, ServerClose, ReadLine, EndOfInput, Connect,
       ForwardClient, ForwardInput, WorkerFinally, InputFinally, vars, threadVars, Goto
  <2> QED BY <1>0, <2>1, OutputStays
<1>3. ASSUME NEW c \in Clients, ClientSends(c) \/ Accept(c) \/ HandlerRecv(c) \/ HandlerCheck(c) PROVE OutputInv'
  <2>1. UNCHANGED outVars BY <1>3 DEF ClientSends, Accept, HandlerRecv, HandlerCheck
  <2>2. handler' = handler \/ \E h : handler' = [handler EXCEPT ![c] = h]
    BY <1>3 DEF ClientSends, Accept, HandlerRecv, HandlerCheck, HandlerGoto, threadVars
  <2>3. handler[c] # "ended" BY <1>3 DEF ClientSends, Accept, HandlerRecv, HandlerCheck
  <2>4. EndedClients \subseteq EndedClients' BY <1>t, <2>2, <2>3 DEF EndedClients
  <2> QED BY <2>1, <2>4, OutputStays
<1>4. ASSUME NEW c \in Clients, HandlerPop(c) PROVE OutputInv'
  <2>0. handler[c] = "pop" BY <1>4 DEF HandlerPop
  <2>1. CASE from_processor = <<>>
    <3>1. UNCHANGED outVars /\ handler' = [handler EXCEPT ![c] = "ended"]
      BY <1>4, <2>1 DEF HandlerPop, HandlerGoto
    <3>2. EndedClients \subseteq EndedClients' BY <1>t, <3>1 DEF EndedClients
    <3> QED BY <3>1, <3>2, OutputStays
  <2>2. CASE from_processor # <<>>
    <3>1. Take /\ UNCHANGED <<output, unread>> BY <1>4, <2>2 DEF HandlerPop
    <3>2. \/ /\ got' = [got EXCEPT ![c] = Append(@, Head(from_processor))] /\ lost' = lost
             /\ handler' = [handler EXCEPT ![c] = "recv"]
          \/ /\ lost' = lost \union {Head(from_processor)} /\ got' = got
             /\ handler' = [handler EXCEPT ![c] = "ended"]
      BY <1>4, <2>2 DEF HandlerPop, HandlerGoto
    <3>3. handler' = [handler EXCEPT ![c] = "recv"] => EndedClients \subseteq EndedClients'
      BY <1>t, <2>0 DEF EndedClients
    <3>4. handler' = [handler EXCEPT ![c] = "ended"] =>
            c \notin EndedClients /\ EndedClients' = EndedClients \union {c}
      BY <1>t, <2>0 DEF EndedClients
    <3> QED BY <2>2, <3>1, <3>2, <3>3, <3>4, PopKeeps
  <2> QED BY <2>1, <2>2
<1>5. CASE ProcessorRecv
  <2>1. handler' = handler BY <1>5 DEF ProcessorRecv, Goto
  <2>2. CASE UNCHANGED outVars BY <1>0, <2>1, <2>2, OutputStays
  <2>3. CASE /\ unread # <<>> /\ from_processor' = Append(from_processor, Head(unread))
             /\ unread' = Tail(unread) /\ UNCHANGED <<output, got, lost>>
    BY <2>1, <2>3, RecvKeeps
  <2> QED BY <1>5, <2>2, <2>3 DEF ProcessorRecv
<1> QED BY <1>1, <1>2, <1>3, <1>4, <1>5 DEF Next, MainThread, ProcessorWorker, Handler

(* Every step keeps the input in order.                                    *)
LEMMA InputKeeps == ASSUME IInv, [Next]_vars PROVE InputInv'
<1>1. CASE \/ ProcessorWrites \/ Interrupt \/ StopServing \/ ServerClose \/ EndOfInput \/ Connect
           \/ ProcessorRecv \/ WorkerFinally \/ InputFinally \/ UNCHANGED vars
  <2>1. (Up' => Up) /\ UNCHANGED inVars
    BY <1>1 DEF ProcessorWrites, Interrupt, StopServing, LeaveServeForever, ServerClose, EndOfInput, Connect,
       ProcessorRecv, WorkerFinally, InputFinally, vars, threadVars, Goto, Up, RequestShutdown
  <2> QED BY <2>1, InputStays
<1>2. ASSUME NEW c \in Clients, Accept(c) \/ HandlerCheck(c) \/ HandlerPop(c) PROVE InputInv'
  <2>1. (Up' => Up) /\ UNCHANGED inVars
    BY <1>2 DEF Accept, HandlerCheck, HandlerPop, HandlerGoto, Up
  <2> QED BY <2>1, InputStays
<1>3. ASSUME NEW c \in Clients, ClientSends(c) PROVE InputInv' BY <1>3, SendsKeeps
<1>4. ASSUME NEW c \in Clients, HandlerRecv(c) PROVE InputInv'
  <2>0. worker' = worker BY <1>4 DEF HandlerRecv, HandlerGoto
  <2>1. CASE UNCHANGED inVars
    <3>1. Up' => Up BY <2>0 DEF Up
    <3> QED BY <2>1, <3>1, InputStays
  <2>2. CASE /\ pending[c] # <<>>
             /\ from_client' = Append(from_client, Head(pending[c]))
             /\ pending' = [pending EXCEPT ![c] = Tail(@)]
             /\ UNCHANGED <<sent, from_input, typed, received>>
    BY <2>0, <2>2, HandlerRecvKeeps
  <2> QED BY <1>4, <2>1, <2>2 DEF HandlerRecv
<1>5. CASE ReadLine
  <2>1. /\ from_input' = Append(from_input, <<"input", typed + 1>>) /\ worker' = worker
        /\ UNCHANGED <<sent, pending, from_client, received>>
    BY <1>5 DEF ReadLine, threadVars
  <2>2. from_input \in Seq(Messages) /\ <<"input", typed + 1>> \in Messages BY DEF IInv, TypeOK, Messages
  <2>3. \A k \in DOMAIN from_input' : from_input'[k][1] = "input"
    <3>1. Len(from_input) \in Nat /\ DOMAIN from_input' = 1..(Len(from_input) + 1) /\
          \A k \in 1..(Len(from_input) + 1) :
            from_input'[k] = IF k = Len(from_input) + 1 THEN <<"input", typed + 1>> ELSE from_input[k]
      BY <2>1, <2>2
    <3>2. \A k \in 1..Len(from_input) : from_input[k][1] = "input" BY <2>2 DEF IInv, InputInv
    <3>3. \A k \in 1..(Len(from_input) + 1) : k = Len(from_input) + 1 \/ k \in 1..Len(from_input) BY <3>1
    <3> QED BY <3>1, <3>2, <3>3
  <2>4. \A c : Posted(c)' = Posted(c) BY <2>1 DEF Posted
  <2>5. Up' <=> Up BY <2>1 DEF Up
  <2> QED BY <2>1, <2>3, <2>4, <2>5 DEF IInv, InputInv
<1>6. CASE ForwardClient
  <2>1. CASE from_client = <<>>
    <3>1. (Up' => Up) /\ UNCHANGED inVars BY <1>6, <2>1 DEF ForwardClient, Goto, Up, inVars
    <3> QED BY <3>1, InputStays
  <2>2. CASE from_client # <<>>
    <3>1. /\ from_client' = Tail(from_client) /\ UNCHANGED <<sent, pending, from_input>>
          /\ Up' => Up /\ received' = Append(received, Head(from_client))
      BY <1>6, <2>2 DEF ForwardClient, Goto, Up, SendOldest
    <3> QED BY <2>2, <3>1, ForwardKeeps
  <2> QED BY <2>1, <2>2
<1>7. CASE ForwardInput
  <2>1. CASE from_input = <<>>
    <3>1. (Up' => Up) /\ UNCHANGED inVars BY <1>7, <2>1 DEF ForwardInput, Goto, Up, inVars
    <3> QED BY <3>1, InputStays
  <2>2. CASE from_input # <<>>
    <3>1. /\ from_input' = Tail(from_input) /\ UNCHANGED <<sent, pending, from_client>>
          /\ Up' => Up /\ received' = Append(received, Head(from_input))
      BY <1>7, <2>2 DEF ForwardInput, Goto, Up, SendOldest
    <3> QED BY <2>2, <3>1, LineKeeps
  <2> QED BY <2>1, <2>2
<1> QED BY <1>1, <1>2, <1>3, <1>4, <1>5, <1>6, <1>7 DEF Next, MainThread, ProcessorWorker, Handler

(* The invariant of the terminal server, for any number of clients.        *)
THEOREM TerminalInvariant == Spec => []IInv
<1>1. IInv /\ [Next]_vars => IInv' BY TypeKeeps, OutputKeeps, InputKeeps DEF IInv
<1> QED BY <1>1, InitHolds, PTL DEF Spec

-----------------------------------------------------------------------------
(* However many handlers compete for from_processor, each message the      *)
(* machine writes goes to one client, in order, or is lost with the        *)
(* handler that took it.                                                   *)
THEOREM OutputIsShared == Spec => []OutputShared
<1>1. IInv => OutputShared
  <2> SUFFICES ASSUME IInv PROVE OutputShared OBVIOUS
  <2>1. /\ unread \in Seq(Nat) /\ from_processor \in Seq(Nat) /\ output \in Nat /\ Taken \in Nat
        /\ Len(unread) \in Nat /\ Len(from_processor) \in Nat
        /\ DOMAIN unread = 1..Len(unread) /\ DOMAIN from_processor = 1..Len(from_processor)
        /\ output = Taken + Len(from_processor) + Len(unread)
    BY DEF IInv, TypeOK, OutputInv, Taken
  <2>2. /\ \A k \in 1..Len(from_processor) : from_processor[k] = Taken + k
        /\ \A k \in 1..Len(unread) : unread[k] = Taken + Len(from_processor) + k
    BY <2>1 DEF IInv, OutputInv
  <2>3. Increasing(from_processor \o unread)
    <3> DEFINE q == from_processor \o unread
    <3>1. /\ q \in Seq(Nat) /\ Len(q) = Len(from_processor) + Len(unread)
          /\ \A k \in 1..(Len(from_processor) + Len(unread)) :
               q[k] = IF k <= Len(from_processor) THEN from_processor[k] ELSE unread[k - Len(from_processor)]
      BY <2>1, ConcatProperties
    <3> HIDE DEF q
    <3>2. \A k \in DOMAIN q : q[k] = Taken + k
      <4> TAKE k \in DOMAIN q
      <4>1. k \in 1..(Len(from_processor) + Len(unread)) BY <2>1, <3>1
      <4>2. CASE k <= Len(from_processor)
        <5>1. k \in 1..Len(from_processor) BY <2>1, <4>1, <4>2
        <5> QED BY <2>2, <3>1, <4>1, <4>2, <5>1
      <4>3. CASE ~(k <= Len(from_processor))
        <5>1. k - Len(from_processor) \in 1..Len(unread) BY <2>1, <4>1, <4>3
        <5>2. q[k] = Taken + Len(from_processor) + (k - Len(from_processor)) BY <2>2, <3>1, <4>1, <4>3, <5>1
        <5> QED BY <2>1, <4>1, <5>2
      <4> QED BY <4>2, <4>3
    <3>3. Increasing(q)
      <4> SUFFICES ASSUME NEW m \in DOMAIN q, NEW n \in DOMAIN q, m < n PROVE q[m] < q[n] BY DEF Increasing
      <4>1. m \in Nat /\ n \in Nat BY <2>1, <3>1
      <4> QED BY <2>1, <3>2, <4>1
    <3> QED BY <3>3 DEF q
  <2>4. /\ Elements(from_processor) = (Taken + 1)..(Taken + Len(from_processor))
        /\ Elements(unread) = (Taken + Len(from_processor) + 1)..output
    <3>1. \A x : x \in Elements(from_processor) <=> x \in (Taken + 1)..(Taken + Len(from_processor))
      <4> TAKE x
      <4>1. x \in (Taken + 1)..(Taken + Len(from_processor)) =>
              x - Taken \in 1..Len(from_processor) /\ x = Taken + (x - Taken)
        BY <2>1
      <4>2. \A k \in 1..Len(from_processor) : Taken + k \in (Taken + 1)..(Taken + Len(from_processor)) BY <2>1
      <4> QED BY <2>1, <2>2, <4>1, <4>2 DEF Elements
    <3>2. \A x : x \in Elements(unread) <=> x \in (Taken + Len(from_processor) + 1)..output
      <4> TAKE x
      <4> DEFINE b == Taken + Len(from_processor)
      <4>0. b \in Nat /\ output = b + Len(unread) BY <2>1
      <4> HIDE DEF b
      <4>1. x \in (b + 1)..output => x - b \in 1..Len(unread) /\ x = b + (x - b) BY <2>1, <4>0
      <4>2. \A k \in 1..Len(unread) : b + k \in (b + 1)..output BY <2>1, <4>0
      <4>3. \A k \in 1..Len(unread) : unread[k] = b + k BY <2>2 DEF b
      <4>4. x \in Elements(unread) <=> x \in (b + 1)..output BY <2>1, <4>1, <4>2, <4>3 DEF Elements
      <4> QED BY <4>4 DEF b
    <3> QED BY <3>1, <3>2
  <2>5. /\ (1..Taken) \intersect (Elements(from_processor) \union Elements(unread)) = {}
        /\ 1..output = (1..Taken) \union Elements(from_processor) \union Elements(unread)
    BY <2>1, <2>4
  <2>6. Once
    <3>1. \A c \in Clients : Increasing(got[c]) /\ Elements(got[c]) \subseteq 1..Taken /\ Elements(got[c]) \intersect lost = {}
                             /\ \A d \in Clients : c # d => Elements(got[c]) \intersect Elements(got[d]) = {}
      BY DEF IInv, OutputInv
    <3>2. \A c \in Clients :
            Elements(got[c]) \intersect (Elements(from_processor) \union Elements(unread) \union lost) = {}
      BY <2>5, <3>1
    <3> QED BY <2>3, <3>1, <3>2 DEF Once
  <2>7. Kept
    <3>1. 1..Taken = lost \union UNION {Elements(got[c]) : c \in Clients}
          /\ Cardinality(lost) <= Cardinality({c \in Clients : handler[c] = "ended"})
      BY DEF IInv, OutputInv
    <3> QED BY <2>5, <3>1 DEF Kept
  <2> QED BY <2>6, <2>7 DEF OutputShared
<1> QED BY <1>1, TerminalInvariant, PTL

(* The messages of a client in two sequences, one after the other.         *)
LEMMA NumbersConcat ==
  ASSUME NEW s \in Seq(Messages), NEW t \in Seq(Messages), NEW c
  PROVE  /\ s \o t \in Seq(Messages) /\ Numbers(s \o t, c) = Numbers(s, c) \union Numbers(t, c)
         /\ Ordered(s, c) /\ Ordered(t, c) /\ (\A m \in Numbers(s, c), n \in Numbers(t, c) : m < n)
              => Ordered(s \o t, c)
<1> DEFINE u == s \o t
<1>1. /\ u \in Seq(Messages) /\ Len(u) = Len(s) + Len(t) /\ Len(s) \in Nat /\ Len(t) \in Nat
      /\ \A k \in 1..(Len(s) + Len(t)) : u[k] = IF k <= Len(s) THEN s[k] ELSE t[k - Len(s)]
  BY ConcatProperties
<1> HIDE DEF u
<1>2. DOMAIN u = 1..(Len(s) + Len(t)) /\ DOMAIN s = 1..Len(s) /\ DOMAIN t = 1..Len(t) BY <1>1
<1>3. \A k \in DOMAIN s : k \in DOMAIN u /\ u[k] = s[k] BY <1>1, <1>2
<1>4. \A k \in DOMAIN t : Len(s) + k \in DOMAIN u /\ u[Len(s) + k] = t[k]
  <2> TAKE k \in DOMAIN t
  <2>1. Len(s) + k \in DOMAIN u /\ ~(Len(s) + k <= Len(s)) /\ (Len(s) + k) - Len(s) = k BY <1>1, <1>2
  <2> QED BY <1>1, <1>2, <2>1
<1>5. \A k \in DOMAIN u : \/ k \in DOMAIN s /\ u[k] = s[k]
                          \/ k > Len(s) /\ k - Len(s) \in DOMAIN t /\ u[k] = t[k - Len(s)]
  BY <1>1, <1>2
<1>6. \A w \in {s, t, u} : \A x : x \in Numbers(w, c) <=> \E k \in DOMAIN w : w[k][1] = c /\ x = w[k][2]
  BY DEF Numbers
<1>7. ASSUME NEW x PROVE x \in Numbers(u, c) <=> x \in Numbers(s, c) \/ x \in Numbers(t, c)
  <2>1. ASSUME x \in Numbers(u, c) PROVE x \in Numbers(s, c) \/ x \in Numbers(t, c)
    <3>1. PICK k \in DOMAIN u : u[k][1] = c /\ x = u[k][2] BY <1>6, <2>1
    <3> QED BY <1>5, <1>6, <3>1
  <2>2. ASSUME x \in Numbers(s, c) PROVE x \in Numbers(u, c)
    <3>1. PICK k \in DOMAIN s : s[k][1] = c /\ x = s[k][2] BY <1>6, <2>2
    <3> QED BY <1>3, <1>6, <3>1
  <2>3. ASSUME x \in Numbers(t, c) PROVE x \in Numbers(u, c)
    <3>1. PICK k \in DOMAIN t : t[k][1] = c /\ x = t[k][2] BY <1>6, <2>3
    <3> QED BY <1>4, <1>6, <3>1
  <2> QED BY <2>1, <2>2, <2>3
<1>8. ASSUME Ordered(s, c), Ordered(t, c), \A m \in Numbers(s, c), n \in Numbers(t, c) : m < n,
             NEW m \in DOMAIN u, NEW n \in DOMAIN u, m < n, u[m][1] = c, u[n][1] = c
      PROVE  u[m][2] < u[n][2]
  <2>0. m \in Nat /\ n \in Nat BY <1>1, <1>2
  <2>1. CASE n \in DOMAIN s /\ u[n] = s[n]
    <3>1. m \in DOMAIN s BY <1>2, <1>8, <2>0, <2>1
    <3> QED BY <1>3, <1>8, <2>1, <3>1 DEF Ordered
  <2>2. CASE n > Len(s) /\ n - Len(s) \in DOMAIN t /\ u[n] = t[n - Len(s)]
    <3>1. CASE m \in DOMAIN s /\ u[m] = s[m]
      <4>1. u[m][2] \in Numbers(s, c) /\ u[n][2] \in Numbers(t, c) BY <1>6, <1>8, <2>2, <3>1
      <4> QED BY <1>8, <4>1
    <3>2. CASE m > Len(s) /\ m - Len(s) \in DOMAIN t /\ u[m] = t[m - Len(s)]
      <4>1. m - Len(s) < n - Len(s) BY <1>1, <1>8, <2>0
      <4> QED BY <1>8, <2>2, <3>2, <4>1 DEF Ordered
    <3> QED BY <1>5, <3>1, <3>2
  <2> QED BY <1>5, <2>1, <2>2
<1>9. Numbers(u, c) = Numbers(s, c) \union Numbers(t, c) BY <1>7
<1>10. Ordered(s, c) /\ Ordered(t, c) /\ (\A m \in Numbers(s, c), n \in Numbers(t, c) : m < n) => Ordered(u, c)
  BY <1>8 DEF Ordered
<1> QED BY <1>1, <1>9, <1>10 DEF u

(* While the worker is up, what a client sends reaches the machine         *)
(* completely and in order, however many clients and lines there are.      *)
THEOREM InputIsInOrder == Spec => []InputInOrder
<1>1. IInv => InputInOrder
  <2> SUFFICES ASSUME IInv, Up, NEW c \in Clients
               PROVE  LET way == received \o from_client \o pending[c]
                      IN  Ordered(way, c) /\ Numbers(way, c) = 1..sent[c]
    BY DEF InputInOrder, Up
  <2>1. /\ received \in Seq(Messages) /\ from_client \in Seq(Messages) /\ pending[c] \in Seq(Messages)
        /\ sent[c] \in Nat /\ Len(pending[c]) \in Nat /\ DOMAIN pending[c] = 1..Len(pending[c])
    BY DEF IInv, TypeOK
  <2>2. /\ Posted(c) \in Nat /\ \A k \in 1..Len(pending[c]) : pending[c][k] = <<c, Posted(c) + k>>
        /\ Ordered(received, c) /\ Ordered(from_client, c)
        /\ \A m \in Numbers(received, c), n \in Numbers(from_client, c) : m < n
        /\ Numbers(received, c) \union Numbers(from_client, c) = 1..Posted(c)
    BY <2>1 DEF IInv, InputInv
  <2> DEFINE way == received \o from_client
  <2>3. way \in Seq(Messages) /\ Numbers(way, c) = 1..Posted(c) /\ Ordered(way, c)
    BY <2>1, <2>2, NumbersConcat
  <2> HIDE DEF way
  <2>4. Numbers(pending[c], c) = (Posted(c) + 1)..sent[c]
    <3>0. sent[c] = Posted(c) + Len(pending[c]) BY <2>1, <2>2 DEF Posted
    <3>1. \A k \in 1..Len(pending[c]) : pending[c][k][1] = c /\ pending[c][k][2] = Posted(c) + k BY <2>2
    <3>2. \A x : x \in Numbers(pending[c], c) <=> \E k \in 1..Len(pending[c]) : x = Posted(c) + k
      BY <2>1, <3>1 DEF Numbers
    <3>3. ASSUME NEW x PROVE x \in (Posted(c) + 1)..sent[c] <=> \E k \in 1..Len(pending[c]) : x = Posted(c) + k
      <4>1. x \in (Posted(c) + 1)..sent[c] => x - Posted(c) \in 1..Len(pending[c]) /\ x = Posted(c) + (x - Posted(c))
        BY <2>1, <2>2, <3>0
      <4>2. \A k \in 1..Len(pending[c]) : Posted(c) + k \in (Posted(c) + 1)..sent[c] BY <2>1, <2>2, <3>0
      <4> QED BY <4>1, <4>2
    <3> QED BY <3>2, <3>3
  <2>5. Ordered(pending[c], c)
    <3> SUFFICES ASSUME NEW m \in 1..Len(pending[c]), NEW n \in 1..Len(pending[c]), m < n
                 PROVE  pending[c][m][2] < pending[c][n][2] BY <2>1 DEF Ordered
    <3>1. pending[c][m][2] = Posted(c) + m /\ pending[c][n][2] = Posted(c) + n BY <2>2
    <3> QED BY <2>1, <2>2, <3>1
  <2>6. \A m \in 1..Posted(c), n \in (Posted(c) + 1)..sent[c] : m < n BY <2>1, <2>2
  <2>7. Posted(c) <= sent[c] BY <2>1, <2>2 DEF Posted
  <2>8. (1..Posted(c)) \union ((Posted(c) + 1)..sent[c]) = 1..sent[c] BY <2>1, <2>2, <2>7
  <2>9. Ordered(way \o pending[c], c) /\ Numbers(way \o pending[c], c) = 1..sent[c]
    <3>1. Numbers(way \o pending[c], c) = Numbers(way, c) \union Numbers(pending[c], c)
      BY <2>1, <2>3, NumbersConcat
    <3>2. \A m \in Numbers(way, c), n \in Numbers(pending[c], c) : m < n BY <2>3, <2>4, <2>6
    <3>3. Ordered(way \o pending[c], c) BY <2>1, <2>3, <2>5, <3>2, NumbersConcat
    <3> QED BY <2>3, <2>4, <2>8, <3>1, <3>3
  <2> QED BY <2>9 DEF way
<1> QED BY <1>1, TerminalInvariant, PTL
=================================================================================

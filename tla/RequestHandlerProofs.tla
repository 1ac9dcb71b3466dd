-------------------------- MODULE RequestHandlerProofs --------------------------
(***************************************************************************)
(* Proofs about RequestHandler.tla: the body of a response reaches the     *)
(* client once and in order, whatever the codes, chunks and retries; the   *)
(* events of a stream are dispatched in order and none is made up of two;  *)
(* and of a document the client gets the pieces that its path selects.     *)
(***************************************************************************)
EXTENDS RequestHandler, Induction, SequenceTheorems, FiniteSetTheorems, TLAPS

(* What a request handler receives and sends. *)
BodyToken == JsonToken(Key) \cup StreamToken(Nat)

Body == Seq(BodyToken)

Event == [event : Nat, data : Nat, id : Nat]

Message ==
  [type : {"response_chunk"}, body : Body]
    \cup [type : {"server_sent_event"}, event : Event]
    \cup [type : {"response_error", "response_finished"}, code : Int, body : Body]

-----------------------------------------------------------------------------
(* Choosing the messages of a type *)

Choose(type, message, chosen) ==
  IF message.type = type THEN Append(chosen, message) ELSE chosen

LEMMA OfTypeDef ==
  ASSUME NEW type, NEW messages \in Seq(Message)
  PROVE  /\ OfType(type, messages)[0] = <<>>
         /\ \A n \in 1..Len(messages) :
              OfType(type, messages)[n] = Choose(type, messages[n], OfType(type, messages)[n - 1])
<1> PICK last : last = Len(messages)
  OBVIOUS
<1>1. last \in Nat
  BY LenProperties
<1> DEFINE Chooses(g) == g = [n \in 0..last |->
                                IF n = 0 THEN <<>>
                                ELSE IF messages[n].type = type THEN Append(g[n - 1], messages[n])
                                ELSE g[n - 1]]
           step == [i \in 1..last |-> [chosen \in Seq(Message) |-> Choose(type, messages[i], chosen)]]
<1>2. ASSUME NEW i \in 1..last, NEW chosen \in Seq(Message)
      PROVE  Choose(type, messages[i], chosen) \in Seq(Message)
  <2>1. messages[i] \in Message
    BY ElementOfSeq
  <2> QED BY <2>1, AppendProperties DEF Choose
<1>3. step \in [1..last -> [Seq(Message) -> Seq(Message)]]
  BY <1>2
<1>4. PICK g : RecursiveTo(g, last, Seq(Message), <<>>, step)
  <2> HIDE DEF step
  <2>1. <<>> \in Seq(Message)
    BY EmptySeq
  <2> QED BY <1>1, <1>3, <2>1, BoundedRecursion
<1>5. ASSUME NEW i \in 1..last
      PROVE  g[i] = Choose(type, messages[i], g[i - 1])
  <2>1. i - 1 \in 0..last
    BY <1>1
  <2>2. g[i - 1] \in Seq(Message)
    BY <1>4, <2>1 DEF RecursiveTo
  <2>3. step[i][g[i - 1]] = Choose(type, messages[i], g[i - 1])
    BY <2>2
  <2> HIDE DEF step
  <2> QED BY <1>4, <2>3 DEF RecursiveTo
<1>8. Chooses(g)
  <2>1. ASSUME NEW i \in 0..last
        PROVE  g[i] = IF i = 0 THEN <<>>
                      ELSE IF messages[i].type = type THEN Append(g[i - 1], messages[i])
                      ELSE g[i - 1]
    <3>1. CASE i = 0
      BY <1>4, <3>1 DEF RecursiveTo
    <3>2. CASE i # 0
      <4>1. i \in 1..last
        BY <1>1, <3>2
      <4> QED BY <1>5, <3>2, <4>1 DEF Choose
    <3> QED BY <3>1, <3>2
  <2>2. g \in [0..last -> Seq(Message)]
    BY <1>4 DEF RecursiveTo
  <2> QED BY <2>1, <2>2
<1>9. \E h : Chooses(h) /\ OfType(type, messages) = h
  <2>1. OfType(type, messages) = (CHOOSE h : Chooses(h))
    BY DEF OfType
  <2>2. Chooses(CHOOSE h : Chooses(h))
    <3> HIDE DEF Chooses
    <3> QED BY <1>8
  <2> HIDE DEF Chooses
  <2> QED BY <2>1, <2>2
<1>10. PICK h : Chooses(h) /\ OfType(type, messages) = h
  BY <1>9
<1>11. h[0] = <<>> /\ \A i \in 1..last : h[i] = Choose(type, messages[i], h[i - 1])
  <2>1. 0 \in 0..last /\ \A i \in 1..last : i \in 0..last /\ i # 0
    BY <1>1
  <2> QED BY <1>10, <2>1 DEF Choose
<1> QED BY <1>10, <1>11

LEMMA OfTypeSeq ==
  ASSUME NEW type, NEW messages \in Seq(Message)
  PROVE  \A i \in 0..Len(messages) :
           OfType(type, messages)[i] \in Seq({m \in Message : m.type = type})
<1> PICK n : n = Len(messages)
  OBVIOUS
<1> PICK g : g = OfType(type, messages)
  OBVIOUS
<1> DEFINE Typed == {m \in Message : m.type = type}
           T == {i \in 0..n : g[i] \in Seq(Typed)}
<1>1. n \in Nat
  BY LenProperties
<1>2. g[0] = <<>> /\ \A i \in 1..n : g[i] = Choose(type, messages[i], g[i - 1])
  BY OfTypeDef
<1>3. 0 \in T
  <2>1. 0 \in 0..n
    BY <1>1
  <2>2. g[0] \in Seq(Typed)
    <3> HIDE DEF Typed
    <3> QED BY <1>2, EmptySeq
  <2> QED BY <2>1, <2>2
<1>4. ASSUME NEW i \in 1..n, i - 1 \in T PROVE i \in T
  <2>1. messages[i] \in Message
    BY ElementOfSeq
  <2>2. g[i] = Choose(type, messages[i], g[i - 1]) /\ g[i - 1] \in Seq(Typed)
    BY <1>2, <1>4
  <2>3. ASSUME messages[i].type = type PROVE g[i] \in Seq(Typed)
    <3>1. messages[i] \in Typed
      BY <2>1, <2>3
    <3> HIDE DEF Typed
    <3>2. Append(g[i - 1], messages[i]) \in Seq(Typed)
      BY <2>2, <3>1, AppendProperties
    <3> QED BY <2>2, <2>3, <3>2 DEF Choose
  <2>4. ASSUME messages[i].type # type PROVE g[i] \in Seq(Typed)
    <3> HIDE DEF Typed
    <3> QED BY <2>2, <2>4 DEF Choose
  <2>5. g[i] \in Seq(Typed) /\ i \in 0..n
    BY <1>1, <2>3, <2>4
  <2> QED BY <2>5
<1>5. \A i \in 0..n : i \in T
  <2> HIDE DEF T
  <2> QED BY <1>1, <1>3, <1>4, BoundedInduction
<1>6. \A i \in 0..n : g[i] \in Seq(Typed)
  BY <1>5
<1> HIDE DEF T, Typed
<1>7. \A i \in 0..Len(messages) : OfType(type, messages)[i] \in Seq(Typed)
  BY <1>6
<1> QED BY <1>7 DEF Typed

Chosen(type, messages) == OfType(type, messages)[Len(messages)]

(* What is chosen has the type. *)
LEMMA ChosenSeq ==
  ASSUME NEW type, NEW messages \in Seq(Message)
  PROVE  /\ Chosen(type, messages) \in Seq({m \in Message : m.type = type})
         /\ Chosen(type, messages) \in Seq(Message)
<1>1. Len(messages) \in 0..Len(messages)
  BY LenProperties
<1>2. Chosen(type, messages) \in Seq({m \in Message : m.type = type})
  BY <1>1, OfTypeSeq DEF Chosen
<1>3. {m \in Message : m.type = type} \subseteq Message
  OBVIOUS
<1> QED BY <1>2, <1>3, SeqMonotonic

(* A message more is chosen last, or not at all. *)
LEMMA ChosenAppend ==
  ASSUME NEW type, NEW messages \in Seq(Message), NEW message \in Message
  PROVE  Chosen(type, Append(messages, message)) = Choose(type, message, Chosen(type, messages))
<1> PICK n : n = Len(messages)
  OBVIOUS
<1> PICK more : more = Append(messages, message)
  OBVIOUS
<1>1. /\ n \in Nat
      /\ more \in Seq(Message) /\ Len(more) = n + 1
      /\ more[n + 1] = message /\ \A i \in 1..n : more[i] = messages[i]
  BY AppendProperties, LenProperties
<1> PICK f : f = OfType(type, more)
  OBVIOUS
<1> PICK g : g = OfType(type, messages)
  OBVIOUS
<1>2. f[0] = <<>> /\ \A i \in 1..(n + 1) : f[i] = Choose(type, more[i], f[i - 1])
  BY <1>1, OfTypeDef
<1>3. g[0] = <<>> /\ \A i \in 1..n : g[i] = Choose(type, messages[i], g[i - 1])
  BY <1>1, OfTypeDef
<1> DEFINE T == {i \in 0..n : f[i] = g[i]}
<1>4. 0 \in T
  BY <1>1, <1>2, <1>3
<1>5. ASSUME NEW i \in 1..n, i - 1 \in T PROVE i \in T
  <2>1. i \in 1..(n + 1) /\ i \in 0..n /\ f[i - 1] = g[i - 1]
    BY <1>1, <1>5
  <2>2. f[i] = g[i]
    BY <1>1, <1>2, <1>3, <2>1
  <2> QED BY <2>1, <2>2
<1>6. \A i \in 0..n : i \in T
  <2> HIDE DEF T
  <2> QED BY <1>1, <1>4, <1>5, BoundedInduction
<1>7. f[n] = g[n]
  <2>1. n \in 0..n
    BY <1>1
  <2> QED BY <1>6, <2>1
<1>8. f[n + 1] = Choose(type, message, f[n])
  <2>1. n + 1 \in 1..(n + 1) /\ (n + 1) - 1 = n
    BY <1>1
  <2> QED BY <1>1, <1>2, <2>1
<1> QED BY <1>1, <1>7, <1>8 DEF Chosen

LEMMA ChosenEmpty ==
  ASSUME NEW type
  PROVE  Chosen(type, <<>>) = <<>>
<1>1. <<>> \in Seq(Message) /\ Len(<<>>) = 0
  BY EmptySeq
<1> QED BY <1>1, OfTypeDef DEF Chosen

(* Nothing is chosen of messages that all have other types. *)
LEMMA ChosenNone ==
  ASSUME NEW type, NEW messages \in Seq(Message),
         \A i \in 1..Len(messages) : messages[i].type # type
  PROVE  Chosen(type, messages) = <<>>
<1> PICK n : n = Len(messages)
  OBVIOUS
<1> PICK g : g = OfType(type, messages)
  OBVIOUS
<1>1. n \in Nat
  BY LenProperties
<1>2. g[0] = <<>> /\ \A i \in 1..n : g[i] = Choose(type, messages[i], g[i - 1])
  BY OfTypeDef
<1> DEFINE T == {i \in 0..n : g[i] = <<>>}
<1>3. 0 \in T
  BY <1>1, <1>2
<1>4. ASSUME NEW i \in 1..n, i - 1 \in T PROVE i \in T
  <2>1. i \in 0..n /\ g[i - 1] = <<>>
    BY <1>1, <1>4
  <2>2. g[i] = <<>>
    BY <1>2, <2>1 DEF Choose
  <2> QED BY <2>1, <2>2
<1>5. \A i \in 0..n : i \in T
  <2> HIDE DEF T
  <2> QED BY <1>1, <1>3, <1>4, BoundedInduction
<1>6. g[n] = <<>>
  <2>1. n \in 0..n
    BY <1>1
  <2> QED BY <1>5, <2>1
<1> QED BY <1>6 DEF Chosen

-----------------------------------------------------------------------------
(* Joining the bodies of messages *)

Bodied == {m \in Message : "body" \in DOMAIN m}

LEMMA FlattenDef ==
  ASSUME NEW seqs \in Seq(Body), Len(seqs) > 0
  PROVE  \E h : /\ h[1] = seqs[1]
                /\ \A i \in 2..Len(seqs) : h[i] = h[i - 1] \o seqs[i]
                /\ FlattenSeq(seqs) = h[Len(seqs)]
<1> PICK last : last = Len(seqs)
  OBVIOUS
<1>1. last \in Nat /\ last > 0
  BY LenProperties
<1> DEFINE Flattens(g) == g = [i \in 1..last |-> IF i = 1 THEN seqs[i] ELSE g[i - 1] \o seqs[i]]
           add(i, body) == IF i = 1 THEN seqs[1] ELSE body \o seqs[i]
           step == [i \in 1..last |-> [body \in Body |-> add(i, body)]]
<1>2. ASSUME NEW i \in 1..last, NEW body \in Body
      PROVE  add(i, body) \in Body
  <2>1. seqs[i] \in Body
    BY ElementOfSeq
  <2> QED BY <2>1, ConcatProperties DEF Body
<1>3. step \in [1..last -> [Body -> Body]]
  <2> HIDE DEF add
  <2> QED BY <1>2
<1>4. PICK f : RecursiveTo(f, last, Body, <<>>, step)
  <2> HIDE DEF step
  <2>1. <<>> \in Body
    BY EmptySeq DEF Body
  <2> QED BY <1>1, <1>3, <2>1, BoundedRecursion
<1>6. ASSUME NEW i \in 1..last
      PROVE  f[i] = add(i, f[i - 1])
  <2>1. i - 1 \in 0..last
    BY <1>1
  <2>2. f[i - 1] \in Body
    BY <1>4, <2>1 DEF RecursiveTo
  <2> HIDE DEF add
  <2>3. step[i][f[i - 1]] = add(i, f[i - 1])
    BY <2>2
  <2> HIDE DEF step
  <2> QED BY <1>4, <2>3 DEF RecursiveTo
<1> DEFINE g == [i \in 1..last |-> f[i]]
<1>7. Flattens(g)
  <2>1. ASSUME NEW i \in 1..last
        PROVE  f[i] = IF i = 1 THEN seqs[i] ELSE g[i - 1] \o seqs[i]
    <3>1. CASE i = 1
      BY <1>6, <3>1
    <3>2. CASE i # 1
      <4>1. i - 1 \in 1..last
        BY <1>1, <3>2
      <4>2. g[i - 1] = f[i - 1]
        BY <4>1
      <4> HIDE DEF g
      <4> QED BY <1>6, <3>2, <4>2
    <3> QED BY <3>1, <3>2
  <2> QED BY <2>1
<1>8. \E h : Flattens(h) /\ FlattenSeq(seqs) = h[last]
  <2>1. FlattenSeq(seqs) = (CHOOSE h : Flattens(h))[last]
    BY <1>1 DEF FlattenSeq
  <2>2. Flattens(CHOOSE h : Flattens(h))
    <3> HIDE DEF Flattens, g
    <3> QED BY <1>7
  <2> HIDE DEF Flattens
  <2> QED BY <2>1, <2>2
<1>9. PICK h : Flattens(h) /\ FlattenSeq(seqs) = h[last]
  BY <1>8
<1>10. h[1] = seqs[1] /\ \A i \in 2..last : h[i] = h[i - 1] \o seqs[i]
  <2>1. 1 \in 1..last /\ \A i \in 2..last : i \in 1..last /\ i # 1
    BY <1>1
  <2> QED BY <1>9, <2>1
<1> HIDE DEF Flattens
<1> QED BY <1>9, <1>10

LEMMA FlattenEmpty ==
  FlattenSeq(<<>>) = <<>>
<1>1. Len(<<>>) = 0
  BY EmptySeq
<1> QED BY <1>1 DEF FlattenSeq

LEMMA FlattenSeqType ==
  ASSUME NEW seqs \in Seq(Body)
  PROVE  FlattenSeq(seqs) \in Body
<1>0. Len(seqs) \in Nat
  BY LenProperties
<1>1. CASE Len(seqs) = 0
  <2>1. seqs = <<>>
    BY <1>1, EmptySeq
  <2> QED BY <2>1, FlattenEmpty, EmptySeq DEF Body
<1>2. CASE Len(seqs) > 0
  <2>1. PICK h : /\ h[1] = seqs[1]
                 /\ \A i \in 2..Len(seqs) : h[i] = h[i - 1] \o seqs[i]
                 /\ FlattenSeq(seqs) = h[Len(seqs)]
    BY <1>2, FlattenDef
  <2> DEFINE T == {i \in 0..Len(seqs) : i = 0 \/ h[i] \in Body}
  <2>2. 0 \in T
    BY <1>0
  <2>3. ASSUME NEW i \in 1..Len(seqs), i - 1 \in T PROVE i \in T
    <3>1. seqs[i] \in Body /\ i \in 0..Len(seqs)
      BY <1>0, ElementOfSeq
    <3>2. CASE i = 1
      BY <2>1, <3>1, <3>2
    <3>3. CASE i # 1
      <4>1. i \in 2..Len(seqs) /\ h[i - 1] \in Body
        BY <1>0, <2>3, <3>3
      <4>2. h[i] = h[i - 1] \o seqs[i]
        BY <2>1, <4>1
      <4>3. h[i] \in Body
        BY <3>1, <4>1, <4>2, ConcatProperties DEF Body
      <4> QED BY <3>1, <4>3
    <3> QED BY <3>2, <3>3
  <2>4. \A i \in 0..Len(seqs) : i \in T
    <3> HIDE DEF T
    <3> QED BY <1>0, <2>2, <2>3, BoundedInduction
  <2>5. Len(seqs) \in 0..Len(seqs) /\ Len(seqs) # 0
    BY <1>0, <1>2
  <2>7. h[Len(seqs)] \in Body
    BY <2>4, <2>5
  <2> QED BY <2>1, <2>7
<1> QED BY <1>0, <1>1, <1>2

LEMMA FlattenAppend ==
  ASSUME NEW seqs \in Seq(Body), NEW body \in Body
  PROVE  FlattenSeq(Append(seqs, body)) = FlattenSeq(seqs) \o body
<1> PICK n : n = Len(seqs)
  OBVIOUS
<1> PICK more : more = Append(seqs, body)
  OBVIOUS
<1>1. /\ n \in Nat
      /\ more \in Seq(Body) /\ Len(more) = n + 1
      /\ more[n + 1] = body /\ \A i \in 1..n : more[i] = seqs[i]
  BY AppendProperties, LenProperties
<1>2. PICK f : /\ f[1] = more[1]
               /\ \A i \in 2..(n + 1) : f[i] = f[i - 1] \o more[i]
               /\ FlattenSeq(more) = f[n + 1]
  <2>1. Len(more) > 0
    BY <1>1
  <2>2. more \in Seq(Body) /\ Len(more) = n + 1
    BY <1>1
  <2>3. \E h : /\ h[1] = more[1]
               /\ \A i \in 2..Len(more) : h[i] = h[i - 1] \o more[i]
               /\ FlattenSeq(more) = h[Len(more)]
    BY <2>1, <2>2, FlattenDef, Zenon
  <2> QED BY <2>2, <2>3
<1>3. CASE n = 0
  <2>1. seqs = <<>>
    BY <1>3, EmptySeq
  <2>2. FlattenSeq(more) = body /\ FlattenSeq(seqs) = <<>>
    BY <1>1, <1>2, <1>3, <2>1, FlattenEmpty
  <2> QED BY <2>2, ConcatEmptySeq DEF Body
<1>4. CASE n > 0
  <2>1. PICK g : /\ g[1] = seqs[1]
                 /\ \A i \in 2..n : g[i] = g[i - 1] \o seqs[i]
                 /\ FlattenSeq(seqs) = g[n]
    BY <1>4, FlattenDef
  <2> DEFINE T == {i \in 0..n : i = 0 \/ f[i] = g[i]}
  <2>2. 0 \in T
    BY <1>1
  <2>3. ASSUME NEW i \in 1..n, i - 1 \in T PROVE i \in T
    <3>1. i \in 0..n /\ more[i] = seqs[i]
      BY <1>1
    <3>2. CASE i = 1
      BY <1>2, <2>1, <3>1, <3>2
    <3>3. CASE i # 1
      <4>1. i \in 2..n /\ i \in 2..(n + 1) /\ f[i - 1] = g[i - 1]
        BY <1>1, <2>3, <3>3
      <4>2. f[i] = g[i]
        BY <1>2, <2>1, <3>1, <4>1
      <4> QED BY <3>1, <4>2
    <3> QED BY <3>2, <3>3
  <2>4. \A i \in 0..n : i \in T
    <3> HIDE DEF T
    <3> QED BY <1>1, <2>2, <2>3, BoundedInduction
  <2>6. f[n] = g[n]
    <3>1. n \in 0..n /\ n # 0
      BY <1>1, <1>4
    <3> QED BY <2>4, <3>1
  <2>7. n + 1 \in 2..(n + 1) /\ (n + 1) - 1 = n
    BY <1>1, <1>4
  <2>8. f[n + 1] = f[n] \o more[n + 1]
    BY <1>2, <2>7
  <2> QED BY <1>1, <1>2, <2>1, <2>6, <2>8
<1> QED BY <1>1, <1>3, <1>4

LEMMA BodiesType ==
  ASSUME NEW messages \in Seq(Bodied)
  PROVE  /\ [i \in 1..Len(messages) |-> messages[i].body] \in Seq(Body)
         /\ Bodies(messages) \in Body
<1>1. \A i \in 1..Len(messages) : messages[i].body \in Body
  <2> TAKE i \in 1..Len(messages)
  <2>1. messages[i] \in Bodied
    BY ElementOfSeq
  <2> QED BY <2>1 DEF Bodied, Message
<1>2. [i \in 1..Len(messages) |-> messages[i].body] \in Seq(Body)
  BY <1>1, LenProperties, IsASeq
<1> QED BY <1>2, FlattenSeqType DEF Bodies

(* The body of a message more comes after those of the others. *)
LEMMA BodiesAppend ==
  ASSUME NEW messages \in Seq(Bodied), NEW message \in Bodied
  PROVE  Bodies(Append(messages, message)) = Bodies(messages) \o message.body
<1> PICK more : more = Append(messages, message)
  OBVIOUS
<1> PICK n : n = Len(messages)
  OBVIOUS
<1>1. /\ n \in Nat /\ more \in Seq(Bodied) /\ Len(more) = n + 1
      /\ more[n + 1] = message /\ \A i \in 1..n : more[i] = messages[i]
  BY AppendProperties, LenProperties
<1> DEFINE old == [i \in 1..n |-> messages[i].body]
           new == [i \in 1..(n + 1) |-> more[i].body]
<1>2. old \in Seq(Body) /\ new \in Seq(Body)
  BY <1>1, BodiesType
<1>3. message.body \in Body
  BY DEF Bodied, Message
<1>4. new = Append(old, message.body)
  <2>1. Append(old, message.body) \in Seq(Body) /\ Len(old) = n /\ Len(new) = n + 1
    BY <1>1, <1>2, <1>3, AppendProperties
  <2>2. /\ Len(Append(old, message.body)) = n + 1
        /\ Append(old, message.body)[n + 1] = message.body
        /\ \A i \in 1..n : Append(old, message.body)[i] = old[i]
    BY <1>2, <1>3, <2>1, AppendProperties
  <2>3. \A i \in 1..(n + 1) : new[i] = Append(old, message.body)[i]
    <3> TAKE i \in 1..(n + 1)
    <3>1. CASE i = n + 1
      BY <1>1, <2>2, <3>1
    <3>2. CASE i # n + 1
      <4>1. i \in 1..n
        BY <1>1, <3>2
      <4>2. new[i] = messages[i].body
        BY <1>1, <4>1
      <4> QED BY <2>2, <4>1, <4>2
    <3> QED BY <3>1, <3>2
  <2> HIDE DEF old, new
  <2> QED BY <1>2, <2>1, <2>2, <2>3, SeqEqual
<1>5. FlattenSeq(new) = FlattenSeq(old) \o message.body
  <2> HIDE DEF old, new
  <2> QED BY <1>2, <1>3, <1>4, FlattenAppend
<1>6. Bodies(more) = FlattenSeq(new) /\ Bodies(messages) = FlattenSeq(old)
  BY <1>1 DEF Bodies
<1> QED BY <1>5, <1>6

LEMMA BodiesEmpty ==
  Bodies(<<>>) = <<>>
<1>1. [i \in 1..Len(<<>>) |-> <<>>[i].body] = <<>>
  BY EmptySeq
<1> QED BY <1>1, FlattenEmpty DEF Bodies
-----------------------------------------------------------------------------
(* Parsing a chunk of a stream *)

Stream == StreamToken(Nat)

Parser ==
  [pending : [event : Nat, data : Nat], line : Seq(Stream), last_id : Nat, events : Seq(Event)]

NewParser(id) == [pending |-> NewEvent, line |-> <<>>, last_id |-> id, events |-> <<>>]

LEMMA TakeLineType ==
  ASSUME NEW parser \in Parser, NEW line \in Seq(Stream)
  PROVE  TakeLine(parser, line) \in Parser
<1>1. /\ parser.pending \in [event : Nat, data : Nat] /\ parser.last_id \in Nat
      /\ parser.line \in Seq(Stream) /\ parser.events \in Seq(Event)
  BY DEF Parser
<1> DEFINE dispatched == [event |-> parser.pending.event, data |-> parser.pending.data, id |-> parser.last_id]
<1>2. CASE line = <<>>
  <2>1. dispatched \in Event
    BY <1>1 DEF Event
  <2>2. Append(parser.events, dispatched) \in Seq(Event)
    <3> HIDE DEF dispatched
    <3> QED BY <1>1, <2>1, AppendProperties
  <2>3. NewEvent \in [event : Nat, data : Nat]
    BY DEF NewEvent, NoEvent
  <2> QED BY <1>1, <1>2, <2>2, <2>3 DEF TakeLine, Parser
<1>3. CASE line # <<>>
  <2>1. Len(line) \in Nat /\ Len(line) # 0
    BY <1>3, EmptySeq
  <2>2. 1 \in 1..Len(line)
    BY <2>1
  <2>3. line[1] \in Stream
    BY <2>2, ElementOfSeq
  <2>4. line[1].of \in Nat
    BY <2>3 DEF Stream, StreamToken
  <2> QED BY <1>1, <1>3, <2>4 DEF TakeLine, Parser
<1> QED BY <1>2, <1>3

LEMMA TakeTokenType ==
  ASSUME NEW parser \in Parser, NEW token \in Stream
  PROVE  TakeToken(parser, token) \in Parser
<1>1. parser.line \in Seq(Stream)
  BY DEF Parser
<1>2. CASE IsLineEnd(token)
  <2>1. PICK next \in Parser : next = TakeLine(parser, parser.line)
    BY <1>1, TakeLineType
  <2>2. [next EXCEPT !.line = <<>>] \in Parser
    BY EmptySeq DEF Parser
  <2> QED BY <1>2, <2>1, <2>2 DEF TakeToken
<1>3. CASE ~IsLineEnd(token)
  <2>1. Append(parser.line, token) \in Seq(Stream)
    BY <1>1, AppendProperties
  <2> QED BY <1>3, <2>1 DEF TakeToken, Parser
<1> QED BY <1>2, <1>3

LEMMA NewParserType ==
  ASSUME NEW id \in Nat
  PROVE  NewParser(id) \in Parser
<1>1. <<>> \in Seq(Stream) /\ <<>> \in Seq(Event)
  BY EmptySeq
<1> QED BY <1>1 DEF NewParser, Parser, NewEvent, NoEvent

LEMMA ParsingDef ==
  ASSUME NEW chunk \in Seq(Stream), NEW id \in Nat
  PROVE  /\ Parsing(chunk, id)[0] = NewParser(id)
         /\ \A i \in 1..Len(chunk) :
              Parsing(chunk, id)[i] = TakeToken(Parsing(chunk, id)[i - 1], chunk[i])
<1> PICK last : last = Len(chunk)
  OBVIOUS
<1>1. last \in Nat
  BY LenProperties
<1> DEFINE Parses(g) == g = [i \in 0..last |->
                               IF i = 0 THEN [pending |-> NewEvent, line |-> <<>>, last_id |-> id, events |-> <<>>]
                               ELSE TakeToken(g[i - 1], chunk[i])]
           step == [i \in 1..last |-> [parser \in Parser |-> TakeToken(parser, chunk[i])]]
<1>2. step \in [1..last -> [Parser -> Parser]]
  <2>1. ASSUME NEW i \in 1..last, NEW parser \in Parser
        PROVE  TakeToken(parser, chunk[i]) \in Parser
    <3>1. chunk[i] \in Stream
      BY ElementOfSeq
    <3> QED BY <3>1, TakeTokenType
  <2> QED BY <2>1
<1>3. PICK g : RecursiveTo(g, last, Parser, NewParser(id), step)
  <2> HIDE DEF step
  <2> QED BY <1>1, <1>2, NewParserType, BoundedRecursion
<1>4. ASSUME NEW i \in 1..last
      PROVE  g[i] = TakeToken(g[i - 1], chunk[i])
  <2>1. i - 1 \in 0..last
    BY <1>1
  <2>2. g[i - 1] \in Parser
    BY <1>3, <2>1 DEF RecursiveTo
  <2>3. step[i][g[i - 1]] = TakeToken(g[i - 1], chunk[i])
    BY <2>2
  <2> HIDE DEF step
  <2> QED BY <1>3, <2>3 DEF RecursiveTo
<1>5. Parses(g)
  <2>1. ASSUME NEW i \in 0..last
        PROVE  g[i] = IF i = 0 THEN NewParser(id) ELSE TakeToken(g[i - 1], chunk[i])
    <3>1. CASE i = 0
      BY <1>3, <3>1 DEF RecursiveTo
    <3>2. CASE i # 0
      <4>1. i \in 1..last
        BY <1>1, <3>2
      <4> QED BY <1>4, <3>2, <4>1
    <3> QED BY <3>1, <3>2
  <2>2. g \in [0..last -> Parser]
    BY <1>3 DEF RecursiveTo
  <2> QED BY <2>1, <2>2 DEF NewParser
<1>6. \E h : Parses(h) /\ Parsing(chunk, id) = h
  <2>1. Parsing(chunk, id) = (CHOOSE h : Parses(h))
    BY DEF Parsing
  <2>2. Parses(CHOOSE h : Parses(h))
    <3> HIDE DEF Parses
    <3> QED BY <1>5
  <2> HIDE DEF Parses
  <2> QED BY <2>1, <2>2
<1>7. PICK h : Parses(h) /\ Parsing(chunk, id) = h
  BY <1>6
<1>8. h[0] = NewParser(id) /\ \A i \in 1..last : h[i] = TakeToken(h[i - 1], chunk[i])
  <2>1. 0 \in 0..last /\ \A i \in 1..last : i \in 0..last /\ i # 0
    BY <1>1
  <2> QED BY <1>7, <2>1 DEF NewParser
<1> QED BY <1>7, <1>8

LEMMA ParsingType ==
  ASSUME NEW chunk \in Seq(Stream), NEW id \in Nat
  PROVE  \A i \in 0..Len(chunk) : Parsing(chunk, id)[i] \in Parser
<1> PICK n : n = Len(chunk)
  OBVIOUS
<1> PICK g : g = Parsing(chunk, id)
  OBVIOUS
<1> DEFINE T == {i \in 0..n : g[i] \in Parser}
<1>1. n \in Nat
  BY LenProperties
<1>2. g[0] = NewParser(id) /\ \A i \in 1..n : g[i] = TakeToken(g[i - 1], chunk[i])
  BY ParsingDef
<1>3. 0 \in T
  <2>1. 0 \in 0..n
    BY <1>1
  <2> QED BY <1>2, <2>1, NewParserType
<1>4. ASSUME NEW i \in 1..n, i - 1 \in T PROVE i \in T
  <2>1. chunk[i] \in Stream /\ i \in 0..n /\ g[i - 1] \in Parser
    BY <1>1, <1>4, ElementOfSeq
  <2>2. g[i] \in Parser
    BY <1>2, <2>1, TakeTokenType
  <2> QED BY <2>1, <2>2
<1>5. \A i \in 0..n : i \in T
  <2> HIDE DEF T
  <2> QED BY <1>1, <1>3, <1>4, BoundedInduction
<1> QED BY <1>5

LEMMA DispatchType ==
  ASSUME NEW chunk \in Seq(Stream), NEW id \in Nat
  PROVE  Dispatch(chunk, id).events \in Seq(Event) /\ Dispatch(chunk, id).last_id \in Nat
<1>1. Len(chunk) \in 0..Len(chunk)
  BY LenProperties
<1>2. Parsing(chunk, id)[Len(chunk)] \in Parser
  BY <1>1, ParsingType
<1>3. CASE HasBlankLine(chunk)
  BY <1>2, <1>3 DEF Dispatch, Parser
<1>4. CASE ~HasBlankLine(chunk)
  BY <1>4, EmptySeq DEF Dispatch
<1> QED BY <1>3, <1>4
-----------------------------------------------------------------------------
(* Parsing a chunk of a document *)

Piece == JsonToken(Key)

Component == Key \cup {NoKey, Item}

Emitter ==
  [current_path : Seq(Component), buf : Seq(Piece), depth : Int, complete : BOOLEAN,
   failed : BOOLEAN, emitted : Seq(Seq(Piece))]

LEMMA NewEmitterType ==
  NewEmitter \in Emitter
<1>1. <<>> \in Seq(Component) /\ <<>> \in Seq(Piece) /\ <<>> \in Seq(Seq(Piece))
  BY EmptySeq
<1> QED BY <1>1 DEF NewEmitter, Emitter

LEMMA GenerateType ==
  ASSUME NEW e \in Emitter, NEW type, NEW key, [type |-> type, key |-> key] \in Piece
  PROVE  Generate(e, type, key) \in Emitter
<1> DEFINE depth == CASE type \in {"{", "["} -> e.depth + 1
                      [] type \in {"}", "]"} -> e.depth - 1
                      [] OTHER -> e.depth
<1>1. e.depth \in Int /\ e.buf \in Seq(Piece)
  BY DEF Emitter
<1>2. depth \in Int
  <2>1. e.depth + 1 \in Int /\ e.depth - 1 \in Int
    BY <1>1
  <2>2. CASE type \in {"{", "["}
    BY <2>1, <2>2
  <2>3. CASE type \in {"}", "]"}
    BY <2>1, <2>3
  <2>4. CASE ~(type \in {"{", "["}) /\ ~(type \in {"}", "]"})
    BY <1>1, <2>4
  <2> QED BY <2>2, <2>3, <2>4
<1>3. Append(e.buf, [type |-> type, key |-> key]) \in Seq(Piece)
  BY <1>1, AppendProperties
<1>4. [e EXCEPT !.failed = TRUE] \in Emitter
  BY DEF Emitter
<1>5. ASSUME NEW d \in Int
      PROVE  [e EXCEPT !.buf = Append(@, [type |-> type, key |-> key]), !.depth = d, !.complete = d = 0] \in Emitter
  BY <1>3 DEF Emitter
<1> QED
  <2> HIDE DEF depth
  <2>1. [e EXCEPT !.buf = Append(@, [type |-> type, key |-> key]), !.depth = depth, !.complete = depth = 0] \in Emitter
    BY <1>2, <1>5
  <2> USE DEF depth
  <2> QED BY <1>4, <2>1 DEF Generate

LEMMA PopType ==
  ASSUME NEW e \in Emitter
  PROVE  Pop(e) \in Emitter
<1>1. e.current_path \in Seq(Component)
  BY DEF Emitter
<1>2. CASE e.current_path = <<>>
  BY <1>1, <1>2 DEF Pop, Emitter
<1>3. CASE e.current_path # <<>>
  <2>1. Len(e.current_path) \in Nat /\ Len(e.current_path) # 0
    BY <1>1, <1>3, EmptySeq
  <2>2. Front(e.current_path) \in Seq(Component)
    BY <1>1, <2>1, SubSeqProperties DEF Front
  <2> QED BY <1>3, <2>2 DEF Pop, Emitter
<1> QED BY <1>2, <1>3

LEMMA PushType ==
  ASSUME NEW e \in Emitter, NEW component \in Component
  PROVE  Push(e, component) \in Emitter
<1>1. Append(e.current_path, component) \in Seq(Component)
  BY AppendProperties DEF Emitter
<1> QED BY <1>1 DEF Push, Emitter

LEMMA EmitType ==
  ASSUME NEW e \in Emitter
  PROVE  Emit(e) \in Emitter
<1>1. PICK emitted \in Seq(Seq(Piece)) : emitted = Append(e.emitted, e.buf)
  <2>1. e.emitted \in Seq(Seq(Piece)) /\ e.buf \in Seq(Piece)
    BY DEF Emitter
  <2> QED BY <2>1, AppendProperties
<1>2. PICK empty \in Seq(Piece) : empty = <<>>
  BY EmptySeq
<1>3. PICK zero \in Int : zero = 0
  OBVIOUS
<1>4. [e EXCEPT !.emitted = emitted, !.buf = empty, !.depth = zero, !.complete = FALSE] \in Emitter
  BY DEF Emitter
<1> QED BY <1>1, <1>2, <1>3, <1>4 DEF Emit

LEMMA GenerateIfType ==
  ASSUME NEW emitting, NEW e \in Emitter, NEW type, NEW key, [type |-> type, key |-> key] \in Piece
  PROVE  GenerateIf(emitting, e, type, key) \in Emitter
BY GenerateType DEF GenerateIf

LEMMA OnEndType ==
  ASSUME NEW match_path, NEW e \in Emitter, NEW type, [type |-> type, key |-> NoKey] \in Piece
  PROVE  OnEnd(match_path, e, type) \in Emitter
<1> PICK next \in Emitter : next = Pop(GenerateIf(IsEmitting(match_path, e), e, type, NoKey))
  BY GenerateIfType, PopType
<1>1. Emit(next) \in Emitter
  BY EmitType
<1> QED BY <1>1 DEF OnEnd

LEMMA OnTokenType ==
  ASSUME NEW match_path, NEW e \in Emitter, NEW token \in Piece
  PROVE  OnToken(match_path, e, token) \in Emitter
<1>1. /\ \A type \in {"{", "}", "[", "]", "null", "string", "number"} : [type |-> type, key |-> NoKey] \in Piece
      /\ NoKey \in Component /\ Item \in Component
      /\ token.type = "key" => [type |-> "key", key |-> token.key] \in Piece /\ token.key \in Component
  <2>1. NoKey \in Component /\ Item \in Component
    BY DEF Component
  <2>2. token.type = "key" => token.key \in Key
    BY DEF Piece, JsonToken
  <2>3. token.type = "key" => [type |-> "key", key |-> token.key] \in Piece /\ token.key \in Component
    BY <2>2 DEF Piece, JsonToken, Component
  <2>4. \A type \in {"{", "}", "[", "]", "null", "string", "number"} : [type |-> type, key |-> NoKey] \in Piece
    BY DEF Piece, JsonToken
  <2> QED BY <2>1, <2>3, <2>4
<1>2. OnStartMap(match_path, e) \in Emitter
  <2> PICK next \in Emitter : next = Push(e, NoKey)
    BY <1>1, PushType
  <2> QED BY <1>1, GenerateIfType DEF OnStartMap
<1>3. OnEnd(match_path, e, "}") \in Emitter /\ OnEnd(match_path, e, "]") \in Emitter
  BY <1>1, OnEndType
<1>4. OnStartArray(match_path, e) \in Emitter
  <2> PICK next \in Emitter : next = GenerateIf(IsEmitting(match_path, e), e, "[", NoKey)
    BY <1>1, GenerateIfType
  <2> QED BY <1>1, PushType DEF OnStartArray
<1>5. ASSUME token.type = "key" PROVE OnKey(match_path, e, token.key) \in Emitter
  <2> PICK next \in Emitter : next = Push(Pop(e), token.key)
    BY <1>1, <1>5, PushType, PopType
  <2> QED BY <1>1, <1>5, GenerateIfType DEF OnKey
<1>6. OnNull(match_path, e) \in Emitter
  <2> PICK next \in Emitter : next = Generate(e, "{", NoKey)
    BY <1>1, GenerateType
  <2>1. Generate(next, "}", NoKey) \in Emitter
    BY <1>1, GenerateType
  <2> QED BY <2>1 DEF OnNull
<1>7. OnString(match_path, e) \in Emitter
  <2>1. <<Token("string")>> \in Seq(Piece)
    <3>1. Token("string") \in Piece
      BY <1>1 DEF Token
    <3> QED BY <3>1
  <2>2. Append(e.emitted, <<Token("string")>>) \in Seq(Seq(Piece))
    BY <2>1, AppendProperties DEF Emitter
  <2>3. [e EXCEPT !.emitted = Append(@, <<Token("string")>>)] \in Emitter
    BY <2>2 DEF Emitter
  <2>4. GenerateIf(IsEmitting(match_path, e), e, "string", NoKey) \in Emitter
    BY <1>1, GenerateIfType
  <2> QED BY <2>3, <2>4 DEF OnString
<1>8. OnNumber(match_path, e) \in Emitter
  BY <1>1, GenerateIfType DEF OnNumber
<1>9. [e EXCEPT !.failed = TRUE] \in Emitter
  BY DEF Emitter
<1> QED BY <1>2, <1>3, <1>4, <1>5, <1>6, <1>7, <1>8, <1>9 DEF OnToken

TakePiece(match_path, e, token) == IF e.failed THEN e ELSE OnToken(match_path, e, token)

Fresh(e) == [e EXCEPT !.emitted = <<>>]

LEMMA FreshType ==
  ASSUME NEW e \in Emitter
  PROVE  Fresh(e) \in Emitter
<1>1. <<>> \in Seq(Seq(Piece))
  BY EmptySeq
<1> QED BY <1>1 DEF Emitter, Fresh

LEMMA EmittersDef ==
  ASSUME NEW match_path, NEW e \in Emitter, NEW chunk \in Seq(Piece)
  PROVE  /\ Emitters(match_path, e, chunk)[0] = Fresh(e)
         /\ \A i \in 1..Len(chunk) :
              Emitters(match_path, e, chunk)[i]
                = TakePiece(match_path, Emitters(match_path, e, chunk)[i - 1], chunk[i])
<1> PICK last : last = Len(chunk)
  OBVIOUS
<1> PICK first : first = Fresh(e)
  OBVIOUS
<1>1. last \in Nat /\ first \in Emitter
  BY LenProperties, FreshType
<1> DEFINE Parses(g) == g = [i \in 0..last |->
                               IF i = 0 THEN [e EXCEPT !.emitted = <<>>]
                               ELSE LET before == g[i - 1]
                                    IN IF before.failed THEN before ELSE OnToken(match_path, before, chunk[i])]
           step == [i \in 1..last |-> [state \in Emitter |-> TakePiece(match_path, state, chunk[i])]]
<1>2. step \in [1..last -> [Emitter -> Emitter]]
  <2>1. ASSUME NEW i \in 1..last, NEW state \in Emitter
        PROVE  TakePiece(match_path, state, chunk[i]) \in Emitter
    <3>1. chunk[i] \in Piece
      BY ElementOfSeq
    <3> QED BY <3>1, OnTokenType DEF TakePiece
  <2> QED BY <2>1
<1>3. PICK g : RecursiveTo(g, last, Emitter, first, step)
  <2> HIDE DEF step
  <2> QED BY <1>1, <1>2, BoundedRecursion
<1>4. ASSUME NEW i \in 1..last
      PROVE  g[i] = TakePiece(match_path, g[i - 1], chunk[i])
  <2>1. i - 1 \in 0..last
    BY <1>1
  <2>2. g[i - 1] \in Emitter
    BY <1>3, <2>1 DEF RecursiveTo
  <2>3. step[i][g[i - 1]] = TakePiece(match_path, g[i - 1], chunk[i])
    BY <2>2
  <2> HIDE DEF step
  <2> QED BY <1>3, <2>3 DEF RecursiveTo
<1>5. Parses(g)
  <2>1. ASSUME NEW i \in 0..last
        PROVE  g[i] = IF i = 0 THEN first ELSE TakePiece(match_path, g[i - 1], chunk[i])
    <3>1. CASE i = 0
      BY <1>3, <3>1 DEF RecursiveTo
    <3>2. CASE i # 0
      <4>1. i \in 1..last
        BY <1>1, <3>2
      <4> QED BY <1>4, <3>2, <4>1
    <3> QED BY <3>1, <3>2
  <2>2. g \in [0..last -> Emitter]
    BY <1>3 DEF RecursiveTo
  <2> QED BY <2>1, <2>2 DEF TakePiece, Fresh
<1>6. \E h : Parses(h) /\ Emitters(match_path, e, chunk) = h
  <2>1. Emitters(match_path, e, chunk) = (CHOOSE h : Parses(h))
    BY DEF Emitters
  <2>2. Parses(CHOOSE h : Parses(h))
    <3> HIDE DEF Parses
    <3> QED BY <1>5
  <2> HIDE DEF Parses
  <2> QED BY <2>1, <2>2
<1>7. PICK h : Parses(h) /\ Emitters(match_path, e, chunk) = h
  BY <1>6
<1>8. h[0] = first /\ \A i \in 1..last : h[i] = TakePiece(match_path, h[i - 1], chunk[i])
  <2>1. 0 \in 0..last /\ \A i \in 1..last : i \in 0..last /\ i # 0
    BY <1>1
  <2> QED BY <1>7, <2>1 DEF TakePiece, Fresh
<1> QED BY <1>7, <1>8

LEMMA ParseJsonType ==
  ASSUME NEW match_path, NEW e \in Emitter, NEW chunk \in Seq(Piece)
  PROVE  ParseJson(match_path, e, chunk) \in Emitter
<1> PICK n : n = Len(chunk)
  OBVIOUS
<1> PICK g : g = Emitters(match_path, e, chunk)
  OBVIOUS
<1> DEFINE T == {i \in 0..n : g[i] \in Emitter}
<1>1. n \in Nat
  BY LenProperties
<1>2. g[0] = Fresh(e) /\ \A i \in 1..n : g[i] = TakePiece(match_path, g[i - 1], chunk[i])
  BY EmittersDef
<1>3. 0 \in T
  <2>1. 0 \in 0..n
    BY <1>1
  <2> QED BY <1>2, <2>1, FreshType
<1>4. ASSUME NEW i \in 1..n, i - 1 \in T PROVE i \in T
  <2>1. chunk[i] \in Piece /\ i \in 0..n /\ g[i - 1] \in Emitter
    BY <1>1, <1>4, ElementOfSeq
  <2>2. g[i] \in Emitter
    BY <1>2, <2>1, OnTokenType DEF TakePiece
  <2> QED BY <2>1, <2>2
<1>5. \A i \in 0..n : i \in T
  <2> HIDE DEF T
  <2> QED BY <1>1, <1>3, <1>4, BoundedInduction
<1>6. n \in 0..n
  BY <1>1
<1> QED BY <1>5, <1>6 DEF ParseJson

-----------------------------------------------------------------------------
(* What is received *)

Tokens == IF response.desired_format = "JsonPath" THEN Piece ELSE Stream

LEMMA HalfTypes ==
  ASSUME NEW token \in Tokens, Cuttable(token)
  PROVE  FirstHalf(token) \in Tokens /\ SecondHalf(token) \in Tokens
<1>1. CASE response.desired_format = "JsonPath"
  <2>1. token \in Piece /\ token.type = "prefix"
    BY <1>1 DEF Tokens, Cuttable
  <2>2. token = [type |-> "prefix", key |-> NoKey]
    BY <2>1 DEF Piece, JsonToken
  <2>3. FirstHalf(token) = [type |-> "text", key |-> NoKey] /\ SecondHalf(token) = [type |-> "text", key |-> NoKey]
    BY <2>2 DEF FirstHalf, SecondHalf
  <2>4. [type |-> "text", key |-> NoKey] \in Piece
    BY DEF Piece, JsonToken
  <2> QED BY <1>1, <2>3, <2>4 DEF Tokens
<1>2. CASE response.desired_format # "JsonPath"
  <2>1. token \in Stream
    BY <1>2 DEF Tokens
  <2> QED BY <1>2, <2>1 DEF Tokens, Stream, StreamToken, FirstHalf, SecondHalf, LineEnd
<1> QED BY <1>1, <1>2

LEMMA TokensSubset ==
  Tokens \subseteq BodyToken
BY DEF Tokens, BodyToken, Piece, Stream

(* What curl hands over, and what it keeps for later. *)
ChunkOf(n, cut) ==
  IF cut THEN Append(SubSeq(rest, 1, n - 1), FirstHalf(rest[n])) ELSE SubSeq(rest, 1, n)

AfterChunk(n, cut) ==
  LET after == SubSeq(rest, n + 1, Len(rest))
  IN IF cut THEN <<SecondHalf(rest[n])>> \o after ELSE after

LEMMA ChunkFacts ==
  ASSUME rest \in Seq(Tokens), NEW n \in 1..Len(rest), NEW cut \in BOOLEAN,
         cut => Cuttable(rest[n])
  PROVE  /\ ChunkOf(n, cut) \in Seq(Tokens) /\ Len(ChunkOf(n, cut)) = n /\ n \in Nat /\ n # 0
         /\ \A i \in 1..n : ChunkOf(n, cut)[i] = IF cut /\ i = n THEN FirstHalf(rest[n]) ELSE rest[i]
         /\ AfterChunk(n, cut) \in Seq(Tokens)
         /\ Len(AfterChunk(n, cut)) = IF cut THEN (Len(rest) - n) + 1 ELSE Len(rest) - n
         /\ \A i \in 1..Len(AfterChunk(n, cut)) :
              AfterChunk(n, cut)[i] = IF ~cut THEN rest[n + i]
                                      ELSE IF i = 1 THEN SecondHalf(rest[n]) ELSE rest[n + (i - 1)]
<1> PICK length \in Nat : length = Len(rest)
  BY LenProperties
<1>1. n \in Nat /\ n # 0 /\ n <= length /\ n - 1 \in Int /\ n \in Int /\ length \in Int /\ n + 1 \in Int
  OBVIOUS
<1>2. \A i \in 1..length : rest[i] \in Tokens
  BY ElementOfSeq
<1>3. /\ SubSeq(rest, 1, n) \in Seq(Tokens) /\ Len(SubSeq(rest, 1, n)) = n
      /\ \A i \in 1..n : SubSeq(rest, 1, n)[i] = rest[i]
  <2>1. \A i \in 1..n : rest[i] \in Tokens
    BY <1>1, <1>2
  <2>2. /\ SubSeq(rest, 1, n) \in Seq(Tokens) /\ Len(SubSeq(rest, 1, n)) = IF 1 <= n THEN n - 1 + 1 ELSE 0
        /\ \A i \in 1..(n - 1 + 1) : SubSeq(rest, 1, n)[i] = rest[1 + i - 1]
    BY <1>1, <2>1, SubSeqProperties
  <2> QED BY <1>1, <2>2
<1>4. /\ SubSeq(rest, 1, n - 1) \in Seq(Tokens) /\ Len(SubSeq(rest, 1, n - 1)) = n - 1
      /\ \A i \in 1..(n - 1) : SubSeq(rest, 1, n - 1)[i] = rest[i]
  <2>1. \A i \in 1..(n - 1) : rest[i] \in Tokens
    BY <1>1, <1>2
  <2>2. /\ SubSeq(rest, 1, n - 1) \in Seq(Tokens)
        /\ Len(SubSeq(rest, 1, n - 1)) = IF 1 <= n - 1 THEN (n - 1) - 1 + 1 ELSE 0
        /\ \A i \in 1..((n - 1) - 1 + 1) : SubSeq(rest, 1, n - 1)[i] = rest[1 + i - 1]
    BY <1>1, <2>1, SubSeqProperties
  <2> QED BY <1>1, <2>2
<1> PICK after : after = SubSeq(rest, n + 1, Len(rest))
  OBVIOUS
<1>5. /\ after \in Seq(Tokens) /\ Len(after) = length - n
      /\ \A i \in 1..(length - n) : after[i] = rest[n + i]
  <2>1. \A i \in (n + 1)..length : rest[i] \in Tokens
    BY <1>1, <1>2
  <2>2. /\ SubSeq(rest, n + 1, length) \in Seq(Tokens)
        /\ Len(SubSeq(rest, n + 1, length)) = IF n + 1 <= length THEN length - (n + 1) + 1 ELSE 0
        /\ \A i \in 1..(length - (n + 1) + 1) : SubSeq(rest, n + 1, length)[i] = rest[(n + 1) + i - 1]
    BY <1>1, <2>1, SubSeqProperties
  <2>3. \A i \in 1..(length - n) : i \in 1..(length - (n + 1) + 1) /\ (n + 1) + i - 1 = n + i
    BY <1>1
  <2> QED BY <1>1, <2>2, <2>3
<1>6. CASE cut
  <2>1. FirstHalf(rest[n]) \in Tokens /\ SecondHalf(rest[n]) \in Tokens
    BY <1>2, <1>6, HalfTypes
  <2> PICK chunk : chunk = Append(SubSeq(rest, 1, n - 1), FirstHalf(rest[n]))
    OBVIOUS
  <2>2. /\ chunk \in Seq(Tokens) /\ Len(chunk) = (n - 1) + 1
        /\ \A i \in 1..(n - 1) : chunk[i] = SubSeq(rest, 1, n - 1)[i]
        /\ chunk[(n - 1) + 1] = FirstHalf(rest[n])
    BY <1>4, <2>1, AppendProperties
  <2>3. /\ chunk \in Seq(Tokens) /\ Len(chunk) = n
        /\ \A i \in 1..n : chunk[i] = IF i = n THEN FirstHalf(rest[n]) ELSE rest[i]
    BY <1>1, <1>4, <2>2
  <2> PICK half : half = <<SecondHalf(rest[n])>>
    OBVIOUS
  <2>4. half \in Seq(Tokens) /\ Len(half) = 1 /\ half[1] = SecondHalf(rest[n])
    BY <2>1
  <2>5. /\ half \o after \in Seq(Tokens) /\ Len(half \o after) = 1 + (length - n)
        /\ \A i \in 1..(1 + (length - n)) : (half \o after)[i] = IF i <= 1 THEN half[i] ELSE after[i - 1]
    BY <1>5, <2>4, ConcatProperties
  <2>6. \A i \in 1..(1 + (length - n)) :
          (half \o after)[i] = IF i = 1 THEN SecondHalf(rest[n]) ELSE rest[n + (i - 1)]
    <3> TAKE i \in 1..(1 + (length - n))
    <3>1. CASE i = 1
      BY <1>1, <2>4, <2>5, <3>1
    <3>2. CASE i # 1
      <4>1. i - 1 \in 1..(length - n) /\ ~(i <= 1)
        BY <1>1, <3>2
      <4> QED BY <1>5, <2>5, <3>2, <4>1
    <3> QED BY <3>1, <3>2
  <2>7. ChunkOf(n, cut) = chunk /\ AfterChunk(n, cut) = half \o after
    BY <1>6 DEF ChunkOf, AfterChunk
  <2>8. Len(half \o after) = (length - n) + 1
    BY <1>1, <2>5
  <2> QED BY <1>1, <1>6, <2>3, <2>5, <2>6, <2>7, <2>8
<1>7. CASE ~cut
  <2>1. ChunkOf(n, cut) = SubSeq(rest, 1, n) /\ AfterChunk(n, cut) = after
    BY <1>7 DEF ChunkOf, AfterChunk
  <2> QED BY <1>1, <1>3, <1>5, <1>7, <2>1
<1> QED BY <1>6, <1>7

-----------------------------------------------------------------------------
(* The body reaches the client once *)

Kinds == {"response_chunk", "server_sent_event"}

Handling ==
  /\ response \in Response
  /\ place \in {"transfer", "done", "finished"}
  /\ rest \in Seq(Tokens)
  /\ response_code \in 100..599 \cup {NoCode}
  /\ response_buffer \in Body
  /\ emitter \in Emitter
  /\ last_id \in Nat
  /\ retries \in Nat
  /\ sent \in Seq(Message)
  /\ received \in Body

(* Before a status nothing is received. *)
NothingYet ==
  response_code < 0 => response_buffer = <<>> /\ received = <<>> /\ (place # "finished" => sent = <<>>)

(* What is sent in chunks is not buffered. *)
SentOrBuffered == Success /\ Streamed => response_buffer = <<>>

Unfinished == \A i \in 1..Len(sent) : sent[i].type \in Kinds

InChunks == Bodies(Chosen("response_chunk", sent))

(* What was received is in chunks, and the rest is in the buffer. *)
OnceSoFar == ~Parsed => InChunks \o response_buffer = received

IInv ==
  /\ Handling
  /\ NothingYet
  /\ SentOrBuffered
  /\ place # "finished" => Unfinished /\ OnceSoFar
  /\ BodyOnce

LEMMA Joined ==
  ASSUME NEW first \in Body, NEW second \in Body, NEW third \in Body
  PROVE  first \o (second \o third) = (first \o second) \o third
<1>1. (first \o second) \o third = first \o (second \o third)
  BY ConcatAssociative DEF Body
<1> QED BY <1>1

LEMMA CodeFacts ==
  ASSUME response_code \in 100..599 \cup {NoCode}
  PROVE  /\ response_code \in Int
         /\ response_code # NoCode <=> response_code > 0
         /\ Success => response_code # NoCode
BY DEF NoCode, Success

LEMMA ChunksType ==
  ASSUME NEW messages \in Seq(Message)
  PROVE  /\ Chosen("response_chunk", messages) \in Seq(Bodied)
         /\ Bodies(Chosen("response_chunk", messages)) \in Body
<1>1. {m \in Message : m.type = "response_chunk"} \subseteq Bodied
  BY DEF Message, Bodied
<1>2. Chosen("response_chunk", messages) \in Seq(Bodied)
  BY <1>1, ChosenSeq, SeqMonotonic
<1> QED BY <1>2, BodiesType

LEMMA InitIInv ==
  ASSUME Init
  PROVE  IInv
<1>1. response.tokens \in Seq(Tokens)
  BY HandlerAssumption DEF Init, Tokens, Piece, Stream
<1>2. <<>> \in Body /\ <<>> \in Seq(Message) /\ Len(<<>>) = 0
  BY EmptySeq DEF Body
<1>3. Handling
  BY <1>1, <1>2, NewEmitterType, HandlerAssumption DEF Init, Handling, NoEvent
<1>4. InChunks \o response_buffer = received
  <2>1. InChunks = <<>>
    BY ChosenEmpty, BodiesEmpty DEF InChunks, Init
  <2> QED BY <1>2, <2>1, ConcatEmptySeq DEF Init, Body
<1>5. Unfinished
  BY <1>2 DEF Unfinished, Init
<1> QED BY <1>3, <1>4, <1>5 DEF IInv, Init, NothingYet, SentOrBuffered, OnceSoFar, BodyOnce

(* What a chunk changes. *)
Written(chunk) ==
  /\ response_buffer' \in Body
  /\ emitter' \in Emitter
  /\ last_id' \in Nat
  /\ sent' \in Seq(Message)
  /\ \A i \in 1..Len(sent') : sent'[i].type \in Kinds
  /\ Success /\ Streamed => response_buffer' = <<>>
  /\ ~Parsed => Bodies(Chosen("response_chunk", sent')) \o response_buffer' = received \o chunk

LEMMA BufferWritten ==
  ASSUME Handling, Unfinished, OnceSoFar, NEW chunk \in Body, Buffer(chunk),
         ~(Success /\ Streamed)
  PROVE  Written(chunk)
<1>1. response_buffer' = response_buffer \o chunk /\ UNCHANGED <<sent, emitter, last_id>>
  BY DEF Buffer
<1>2. response_buffer \in Body /\ sent \in Seq(Message) /\ received \in Body
  BY DEF Handling
<1>3. response_buffer' \in Body
  BY <1>1, <1>2, ConcatProperties DEF Body
<1>4. ASSUME ~Parsed PROVE InChunks \o response_buffer' = received \o chunk
  <2>1. InChunks \in Body
    BY <1>2, ChunksType DEF InChunks
  <2>2. InChunks \o (response_buffer \o chunk) = (InChunks \o response_buffer) \o chunk
    BY <1>2, <2>1, Joined
  <2> QED BY <1>1, <1>4, <2>2 DEF OnceSoFar
<1>5. ~Parsed => Bodies(Chosen("response_chunk", sent')) \o response_buffer' = received \o chunk
  BY <1>1, <1>4 DEF InChunks
<1> QED BY <1>1, <1>2, <1>3, <1>5 DEF Written, Handling, Unfinished

LEMMA ForwardWritten ==
  ASSUME Handling, Unfinished, OnceSoFar, SentOrBuffered, NEW chunk \in Body, Forward(chunk),
         Success, Streamed
  PROVE  Written(chunk)
<1> PICK more : more = Append(sent, Chunk(chunk))
  OBVIOUS
<1>1. sent' = more /\ UNCHANGED <<response_buffer, emitter, last_id>>
  BY DEF Forward
<1>2. response_buffer = <<>> /\ sent \in Seq(Message) /\ received \in Body
  BY DEF Handling, SentOrBuffered
<1>3. Chunk(chunk) \in Message /\ Chunk(chunk) \in Bodied /\ Chunk(chunk).type = "response_chunk" /\ Chunk(chunk).body = chunk
  BY DEF Chunk, Message, Bodied
<1>4. /\ more \in Seq(Message) /\ Len(more) = Len(sent) + 1 /\ Len(sent) \in Nat
      /\ \A i \in 1..Len(sent) : more[i] = sent[i]
      /\ more[Len(sent) + 1] = Chunk(chunk)
  BY <1>2, <1>3, AppendProperties, LenProperties
<1>5. \A i \in 1..Len(more) : more[i].type \in Kinds
  <2> TAKE i \in 1..Len(more)
  <2>1. CASE i = Len(sent) + 1
    BY <1>3, <1>4, <2>1 DEF Kinds
  <2>2. CASE i # Len(sent) + 1
    <3>1. i \in 1..Len(sent)
      BY <1>4, <2>2
    <3> QED BY <1>4, <3>1 DEF Unfinished
  <2> QED BY <2>1, <2>2
<1>6. ASSUME ~Parsed PROVE Bodies(Chosen("response_chunk", more)) \o <<>> = received \o chunk
  <2>1. Chosen("response_chunk", more) = Append(Chosen("response_chunk", sent), Chunk(chunk))
    BY <1>2, <1>3, ChosenAppend DEF Choose
  <2>2. Bodies(Chosen("response_chunk", more)) = InChunks \o chunk
    BY <1>2, <1>3, <2>1, ChunksType, BodiesAppend DEF InChunks
  <2>3. InChunks = received
    <3>1. InChunks \in Body
      BY <1>2, ChunksType DEF InChunks
    <3>2. InChunks \o <<>> = InChunks
      BY <3>1, ConcatEmptySeq DEF Body
    <3> QED BY <1>2, <1>6, <3>2 DEF OnceSoFar
  <2>4. received \o chunk \in Body
    BY <1>2, ConcatProperties DEF Body
  <2> QED BY <2>2, <2>3, <2>4, ConcatEmptySeq DEF Body
<1>7. ~Parsed => Bodies(Chosen("response_chunk", sent')) \o response_buffer' = received \o chunk
  BY <1>1, <1>2, <1>6
<1>8. response_buffer' \in Body /\ emitter' \in Emitter /\ last_id' \in Nat /\ response_buffer' = <<>>
  BY <1>1, <1>2 DEF Handling
<1> QED BY <1>1, <1>4, <1>5, <1>7, <1>8 DEF Written

AllOf(types, messages) == \A i \in 1..Len(messages) : messages[i].type \in types

LEMMA AllOfConcat ==
  ASSUME NEW types, NEW old \in Seq(Message), NEW new \in Seq(Message),
         AllOf(types, old), AllOf(types, new)
  PROVE  AllOf(types, old \o new)
<1> PICK m \in Nat : m = Len(old)
  BY LenProperties
<1> PICK n \in Nat : n = Len(new)
  BY LenProperties
<1>1. /\ Len(old \o new) = m + n
      /\ \A i \in 1..(m + n) : (old \o new)[i] = IF i <= m THEN old[i] ELSE new[i - m]
  BY ConcatProperties
<1>2. ASSUME NEW i \in 1..(m + n) PROVE (old \o new)[i].type \in types
  <2>1. CASE i <= m
    <3>1. i \in 1..Len(old)
      BY <2>1
    <3> QED BY <1>1, <2>1, <3>1 DEF AllOf
  <2>2. CASE ~(i <= m)
    <3>1. i - m \in 1..Len(new)
      BY <2>2
    <3> QED BY <1>1, <2>2, <3>1 DEF AllOf
  <2> QED BY <2>1, <2>2
<1> QED BY <1>1, <1>2 DEF AllOf

(* Messages more of the kinds sent before the end. *)
LEMMA SentMore ==
  ASSUME sent \in Seq(Message), Unfinished, NEW more \in Seq(Message),
         AllOf(Kinds, more)
  PROVE  /\ sent \o more \in Seq(Message)
         /\ \A i \in 1..Len(sent \o more) : (sent \o more)[i].type \in Kinds
<1>1. AllOf(Kinds, sent)
  BY DEF AllOf, Unfinished
<1>2. AllOf(Kinds, sent \o more)
  BY <1>1, AllOfConcat
<1> QED BY <1>2, ConcatProperties DEF AllOf

(* What a path selects is sent in chunks. *)
LEMMA ParsePathSends ==
  ASSUME Handling, response.desired_format = "JsonPath", NEW chunk \in Seq(Tokens), chunk # <<>>,
         ParsePath(chunk)
  PROVE  /\ emitter' \in Emitter /\ UNCHANGED <<response_buffer, last_id>>
         /\ \E more \in Seq(Message) : AllOf({"response_chunk"}, more) /\ sent' = sent \o more
<1>0. emitter \in Emitter
  BY DEF Handling
<1>1. chunk \in Seq(Piece)
  BY DEF Tokens
<1>2. WithoutPrefix(chunk) \in Seq(Piece)
  BY <1>1, HeadTailProperties DEF WithoutPrefix, Unprefixed
<1> PICK parsed \in Emitter : parsed = ParseJson(response.match_path, emitter, WithoutPrefix(chunk))
  BY <1>0, <1>2, ParseJsonType
<1>3. parsed.emitted \in Seq(Seq(Piece))
  BY DEF Emitter
<1> PICK n \in Nat : n = Len(parsed.emitted)
  BY <1>3, LenProperties
<1> DEFINE more == [i \in 1..n |-> Chunk(parsed.emitted[i])]
<1>4. \A i \in 1..n : parsed.emitted[i] \in Body
  <2>1. \A i \in 1..n : parsed.emitted[i] \in Seq(Piece)
    BY <1>3, ElementOfSeq
  <2>2. Piece \subseteq BodyToken
    BY DEF Piece, BodyToken
  <2> QED BY <2>1, <2>2, SeqMonotonic DEF Body
<1>5. \A i \in 1..n : more[i] \in Message /\ more[i].type = "response_chunk"
  BY <1>4 DEF Message, Chunk
<1>6. more \in Seq(Message) /\ Len(more) = n
  <2>1. more \in [1..n -> Message]
    BY <1>5
  <2> HIDE DEF more
  <2> QED BY <2>1
<1>7. /\ sent' = sent \o more /\ emitter' = [parsed EXCEPT !.emitted = <<>>]
      /\ UNCHANGED <<response_buffer, last_id>>
  BY DEF ParsePath
<1>8. emitter' \in Emitter
  BY <1>7, FreshType DEF Fresh
<1>9. AllOf({"response_chunk"}, more)
  BY <1>5, <1>6 DEF AllOf
<1> HIDE DEF more
<1> QED BY <1>6, <1>7, <1>8, <1>9

LEMMA ParsedWritten ==
  ASSUME Handling, Unfinished, SentOrBuffered, NEW chunk \in Seq(Tokens), chunk # <<>>,
         Success, Parsed,
         \/ response.desired_format = "ServerSentEvents" /\ ParseEvents(chunk)
         \/ response.desired_format = "JsonPath" /\ ParsePath(chunk)
  PROVE  Written(chunk)
<1>1. /\ response_buffer \in Body /\ sent \in Seq(Message) /\ last_id \in Nat /\ emitter \in Emitter
      /\ response_buffer = <<>>
  BY DEF Handling, SentOrBuffered, Parsed, Streamed
<1>2. CASE response.desired_format = "ServerSentEvents" /\ ParseEvents(chunk)
  <2>1. chunk \in Seq(Stream)
    BY <1>2 DEF Tokens
  <2> PICK parsed : parsed = Dispatch(chunk, last_id)
    OBVIOUS
  <2>2. parsed.events \in Seq(Event) /\ parsed.last_id \in Nat
    BY <1>1, <2>1, DispatchType
  <2> PICK n \in Nat : n = Len(parsed.events)
    BY <2>2, LenProperties
  <2> DEFINE more == [i \in 1..n |-> [type |-> "server_sent_event", event |-> parsed.events[i]]]
  <2>3. \A i \in 1..n : parsed.events[i] \in Event
    BY <2>2, ElementOfSeq
  <2>4. \A i \in 1..n : more[i] \in Message /\ more[i].type \in Kinds
    BY <2>3 DEF Message, Kinds
  <2>5. more \in Seq(Message) /\ Len(more) = n
    <3>1. more \in [1..n -> Message]
      BY <2>4
    <3> HIDE DEF more
    <3> QED BY <3>1
  <2>6. sent' = sent \o more /\ last_id' = parsed.last_id /\ UNCHANGED <<response_buffer, emitter>>
    BY <1>2 DEF ParseEvents
  <2> HIDE DEF more
  <2>7. AllOf(Kinds, more)
    BY <2>4, <2>5 DEF AllOf
  <2>8. sent \o more \in Seq(Message) /\ \A i \in 1..Len(sent \o more) : (sent \o more)[i].type \in Kinds
    BY <1>1, <2>5, <2>7, SentMore
  <2> QED BY <1>1, <2>2, <2>6, <2>8 DEF Written
<1>3. CASE response.desired_format = "JsonPath" /\ ParsePath(chunk)
  <2>1. emitter' \in Emitter /\ UNCHANGED <<response_buffer, last_id>>
    BY <1>3, ParsePathSends
  <2>2. PICK more \in Seq(Message) : AllOf({"response_chunk"}, more) /\ sent' = sent \o more
    BY <1>3, ParsePathSends
  <2>3. AllOf(Kinds, more)
    BY <2>2 DEF AllOf, Kinds
  <2>4. sent \o more \in Seq(Message) /\ \A i \in 1..Len(sent \o more) : (sent \o more)[i].type \in Kinds
    BY <1>1, <2>3, SentMore
  <2> QED BY <1>1, <2>1, <2>2, <2>4 DEF Written
<1> QED BY <1>2, <1>3

LEMMA WriteWritten ==
  ASSUME Handling, Unfinished, OnceSoFar, SentOrBuffered,
         NEW chunk \in Seq(Tokens), chunk # <<>>, Write(chunk)
  PROVE  Written(chunk)
<1>1. chunk \in Body
  BY TokensSubset, SeqMonotonic DEF Body
<1>2. response.desired_format \in Format
  BY HandlerAssumption DEF Handling
<1>3. CASE ~Success
  BY <1>1, <1>3, BufferWritten DEF Write
<1>4. CASE Success /\ response.desired_format = "FullResponseBody"
  BY <1>1, <1>4, BufferWritten DEF Write, Streamed
<1>5. CASE Success /\ response.desired_format = "PartialResponseChunks"
  BY <1>1, <1>5, ForwardWritten DEF Write, Streamed
<1>6. CASE Success /\ response.desired_format = "ServerSentEvents"
  BY <1>6, ParsedWritten DEF Write, Parsed
<1>7. CASE Success /\ response.desired_format = "JsonPath"
  BY <1>7, ParsedWritten DEF Write, Parsed
<1> QED BY <1>2, <1>3, <1>4, <1>5, <1>6, <1>7 DEF Format

LEMMA StatusStep ==
  ASSUME IInv, NEW code \in response.codes, ReceiveStatus(code)
  PROVE  IInv'
<1>1. /\ response_code < 0 /\ response_code' = code /\ place = "transfer"
      /\ UNCHANGED <<response, place, rest, response_buffer, emitter, last_id, retries, sent, history>>
  BY DEF ReceiveStatus
<1>2. code \in 100..599
  BY HandlerAssumption DEF IInv, Handling
<1>3. response_buffer = <<>> /\ received = <<>> /\ sent = <<>>
  BY <1>1 DEF IInv, NothingYet
<1>4. Handling'
  BY <1>1, <1>2 DEF IInv, Handling, Tokens, history
<1>5. NothingYet' /\ SentOrBuffered'
  BY <1>1, <1>2, <1>3 DEF NothingYet, SentOrBuffered, history
<1>6. InChunks' \o response_buffer' = received'
  <2>1. InChunks' = <<>>
    BY <1>1, <1>3, ChosenEmpty, BodiesEmpty DEF InChunks
  <2> QED BY <1>1, <1>3, <2>1 DEF history
<1>7. Unfinished' /\ OnceSoFar'
  BY <1>1, <1>6 DEF IInv, Unfinished, OnceSoFar, history
<1> QED BY <1>1, <1>4, <1>5, <1>7 DEF IInv, BodyOnce

LEMMA ChunkStep ==
  ASSUME IInv, NEW n \in 1..Len(rest), NEW cut \in BOOLEAN, ReceiveChunk(n, cut)
  PROVE  IInv'
<1>1. /\ place = "transfer" /\ response_code # NoCode /\ (cut => Cuttable(rest[n]))
      /\ UNCHANGED <<response, place, response_code, retries>>
  BY DEF ReceiveChunk
<1> PICK chunk : chunk = ChunkOf(n, cut)
  OBVIOUS
<1>2. /\ Write(chunk)
      /\ rest' = AfterChunk(n, cut)
      /\ received' = IF Parsed THEN received ELSE received \o chunk
  BY DEF ReceiveChunk, ChunkOf, AfterChunk
<1>3. /\ Handling /\ Unfinished /\ OnceSoFar /\ SentOrBuffered
      /\ rest \in Seq(Tokens) /\ received \in Body /\ response \in Response
      /\ response_code \in 100..599 \cup {NoCode} /\ retries \in Nat
  BY <1>1 DEF IInv, Handling
<1>4. /\ chunk \in Seq(Tokens) /\ Len(chunk) = n /\ n \in Nat /\ n # 0
      /\ AfterChunk(n, cut) \in Seq(Tokens)
  BY <1>1, <1>3, ChunkFacts
<1>5. chunk # <<>>
  BY <1>4, EmptySeq
<1>6. Written(chunk)
  BY <1>2, <1>3, <1>4, <1>5, WriteWritten
<1>7. received' \in Body
  <2>1. chunk \in Body
    BY <1>4, TokensSubset, SeqMonotonic DEF Body
  <2> QED BY <1>2, <1>3, <2>1, ConcatProperties DEF Body
<1>8. Tokens' = Tokens /\ (Parsed' <=> Parsed) /\ (Success' <=> Success) /\ (Streamed' <=> Streamed)
  BY <1>1 DEF Tokens, Parsed, Success, Streamed
<1>9. Handling'
  BY <1>1, <1>2, <1>3, <1>4, <1>6, <1>7, <1>8 DEF Handling, Written
<1>10. NothingYet'
  BY <1>1, <1>3 DEF NothingYet, NoCode
<1>11. SentOrBuffered' /\ Unfinished'
  BY <1>6, <1>8 DEF SentOrBuffered, Unfinished, Written
<1>12. OnceSoFar'
  <2>1. ASSUME ~Parsed PROVE InChunks' \o response_buffer' = received'
    BY <1>2, <1>6, <2>1 DEF Written, InChunks
  <2> QED BY <1>8, <2>1 DEF OnceSoFar
<1> QED BY <1>1, <1>9, <1>10, <1>11, <1>12 DEF IInv, BodyOnce

LEMMA TransferEndsStep ==
  ASSUME IInv, TransferEnds
  PROVE  IInv'
<1>1. /\ place = "transfer" /\ place' = "done"
      /\ UNCHANGED <<response, rest, response_code, response_buffer, emitter, last_id, retries, sent, received>>
  BY DEF TransferEnds, history
<1>2. Handling'
  BY <1>1 DEF IInv, Handling, Tokens
<1>3. NothingYet' /\ SentOrBuffered'
  BY <1>1 DEF IInv, NothingYet, SentOrBuffered, Success, Streamed
<1>4. Unfinished' /\ OnceSoFar'
  BY <1>1 DEF IInv, Unfinished, OnceSoFar, InChunks, Parsed, Success
<1> QED BY <1>1, <1>2, <1>3, <1>4 DEF IInv, BodyOnce

LEMMA RetryStep ==
  ASSUME IInv, Retry
  PROVE  IInv'
<1>1. /\ place = "done" /\ place' = "transfer" /\ retries > 0 /\ retries' = retries - 1
      /\ rest' = response.tokens
      /\ UNCHANGED <<response, response_code, response_buffer, emitter, last_id, sent, received>>
  BY DEF Retry, WillRetry, history
<1>2. response.tokens \in Seq(Tokens)
  BY HandlerAssumption DEF IInv, Handling, Tokens, Piece, Stream
<1>3. Handling'
  BY <1>1, <1>2 DEF IInv, Handling, Tokens
<1>4. NothingYet' /\ SentOrBuffered'
  BY <1>1 DEF IInv, NothingYet, SentOrBuffered, Success, Streamed
<1>5. Unfinished' /\ OnceSoFar'
  BY <1>1 DEF IInv, Unfinished, OnceSoFar, InChunks, Parsed, Success
<1> QED BY <1>1, <1>3, <1>4, <1>5 DEF IInv, BodyOnce

(* At the end the client gets one final message, the last, and with it     *)
(* what is in the buffer.                                                  *)
Final == [type |-> "response_finished", code |-> response_code, body |-> response_buffer]

Error == [type |-> "response_error", code |-> response_code, body |-> response_buffer]

LEMMA Pair ==
  ASSUME NEW first \in Message, NEW second \in Message
  PROVE  <<first>> \o <<second>> = <<first, second>>
<1>1. <<first>> \in Seq(Message) /\ <<second>> \in Seq(Message) /\ <<first, second>> \in Seq(Message)
  OBVIOUS
<1> PICK both : both = <<first>> \o <<second>>
  OBVIOUS
<1>2. both \in Seq(Message) /\ Len(both) = 2 /\ both[1] = first /\ both[2] = second
  BY <1>1, ConcatProperties
<1> PICK pair : pair = <<first, second>>
  OBVIOUS
<1>3. pair \in Seq(Message) /\ Len(pair) = 2 /\ pair[1] = first /\ pair[2] = second
  BY <1>1
<1>4. \A i \in 1..Len(both) : both[i] = pair[i]
  <2> TAKE i \in 1..Len(both)
  <2>1. i = 1 \/ i = 2
    BY <1>2
  <2> QED BY <1>2, <1>3, <2>1
<1>5. Len(both) = Len(pair)
  BY <1>2, <1>3
<1>6. both = pair
  <2>1. both \in Seq(Message) /\ pair \in Seq(Message)
    BY <1>2, <1>3
  <2> QED BY <1>4, <1>5, <2>1, SeqEqual, Zenon
<1> QED BY <1>6

LEMMA FinishSends ==
  ASSUME Handling, SentOrBuffered, Finish
  PROVE  \E before \in Seq(Message) :
           /\ before = sent \/ before = Append(sent, Error)
           /\ sent' = Append(before, Final)
<1>1. sent \in Seq(Message) /\ response_code \in Int /\ response_buffer \in Body
  BY CodeFacts DEF Handling
<1>2. Final \in Message /\ Error \in Message
  BY <1>1 DEF Final, Error, Message
<1>3. Error = [Final EXCEPT !.type = "response_error"]
  BY DEF Final, Error
<1>4. sent' = sent \o (IF Success THEN <<Final>> ELSE <<Error, Final>>)
  <2>1. response_buffer' = response_buffer
    BY DEF Finish, SentOrBuffered
  <2>2. sent' = sent \o (IF Success THEN <<Final>> ELSE <<[Final EXCEPT !.type = "response_error"], Final>>)
    BY <2>1 DEF Finish, Final
  <2> HIDE DEF Final, Error
  <2> QED BY <1>3, <2>2
<1>5. CASE Success
  <2>1. Append(sent, Final) = sent \o <<Final>>
    BY <1>1, <1>2, AppendIsConcat
  <2> QED BY <1>1, <1>4, <1>5, <2>1
<1>6. CASE ~Success
  <2>1. Append(sent, Error) = sent \o <<Error>> /\ Append(sent, Error) \in Seq(Message)
    BY <1>1, <1>2, AppendIsConcat, AppendProperties
  <2>2. Append(Append(sent, Error), Final) = (sent \o <<Error>>) \o <<Final>>
    BY <1>2, <2>1, AppendIsConcat
  <2>3. (sent \o <<Error>>) \o <<Final>> = sent \o (<<Error>> \o <<Final>>)
    <3>1. <<Error>> \in Seq(Message) /\ <<Final>> \in Seq(Message)
      BY <1>2
    <3> QED BY <1>1, <3>1, ConcatAssociative
  <2>4. <<Error>> \o <<Final>> = <<Error, Final>>
    BY <1>2, Pair
  <2> QED BY <1>4, <1>6, <2>1, <2>2, <2>3, <2>4
<1> QED BY <1>5, <1>6

LEMMA FinishStep ==
  ASSUME IInv, Finish
  PROVE  IInv'
<1>1. /\ place = "done" /\ place' = "finished"
      /\ response_buffer' = IF Success /\ Streamed THEN <<>> ELSE response_buffer
      /\ UNCHANGED <<response, rest, response_code, emitter, last_id, retries, received>>
  BY DEF Finish, history
<1>2. /\ Handling /\ Unfinished /\ OnceSoFar /\ sent \in Seq(Message)
      /\ response_code \in Int /\ response_buffer \in Body
  BY <1>1, CodeFacts DEF IInv, Handling
<1>3. PICK before \in Seq(Message) :
        /\ before = sent \/ before = Append(sent, Error)
        /\ sent' = Append(before, Final)
  BY <1>2, FinishSends DEF IInv
<1>4. Final \in Message /\ Error \in Message /\ Final.type = "response_finished" /\ Error.type = "response_error"
  BY <1>2 DEF Final, Error, Message
<1> PICK after : after = Append(before, Final)
  OBVIOUS
<1>5. /\ after \in Seq(Message) /\ Len(after) = Len(before) + 1 /\ Len(before) \in Nat
      /\ after[Len(before) + 1] = Final
  BY <1>4, AppendProperties, LenProperties
<1>6. Chosen("response_finished", sent) = <<>>
  BY <1>2, ChosenNone DEF Unfinished, Kinds
<1>7. /\ Chosen("response_finished", before) = <<>>
      /\ Chosen("response_chunk", before) = Chosen("response_chunk", sent)
  <2>1. ASSUME before = Append(sent, Error)
        PROVE  /\ Chosen("response_finished", before) = <<>>
               /\ Chosen("response_chunk", before) = Chosen("response_chunk", sent)
    BY <1>2, <1>4, <1>6, <2>1, ChosenAppend DEF Choose
  <2> QED BY <1>3, <1>6, <2>1
<1>8. /\ Chosen("response_finished", after) = Append(<<>>, Final)
      /\ Chosen("response_chunk", after) = Chosen("response_chunk", sent)
  <2>1. /\ Chosen("response_finished", after) = Choose("response_finished", Final, Chosen("response_finished", before))
        /\ Chosen("response_chunk", after) = Choose("response_chunk", Final, Chosen("response_chunk", before))
    BY <1>4, ChosenAppend
  <2> QED BY <1>4, <1>7, <2>1 DEF Choose
<1> PICK finals : finals = Chosen("response_finished", after)
  OBVIOUS
<1>9. Len(finals) = 1 /\ finals[1] = Final
  BY <1>8
<1>10. Last(after) = Final
  BY <1>5 DEF Last
<1>11. ~Parsed => Bodies(Chosen("response_chunk", after)) \o Final.body = received
  BY <1>2, <1>8 DEF OnceSoFar, InChunks, Final
<1>12. (Parsed' <=> Parsed) /\ (Success' <=> Success) /\ (Streamed' <=> Streamed) /\ Tokens' = Tokens
  BY <1>1 DEF Parsed, Success, Streamed, Tokens
<1>13. BodyOnce'
  <2>1. Messages("response_finished")' = finals /\ Messages("response_chunk")' = Chosen("response_chunk", after)
    BY <1>3 DEF Messages, Chosen
  <2>2. sent' = after /\ received' = received
    BY <1>1, <1>3
  <2> QED BY <1>9, <1>10, <1>11, <1>12, <2>1, <2>2 DEF BodyOnce
<1>14. response_buffer' \in Body /\ SentOrBuffered'
  <2>1. <<>> \in Body
    BY EmptySeq DEF Body
  <2> QED BY <1>1, <1>2, <1>12, <2>1 DEF SentOrBuffered
<1>15. Handling'
  BY <1>1, <1>2, <1>3, <1>5, <1>12, <1>14 DEF Handling
<1>16. NothingYet'
  BY <1>1 DEF IInv, NothingYet
<1> QED BY <1>1, <1>13, <1>14, <1>15, <1>16 DEF IInv

LEMMA HandlerStep ==
  ASSUME IInv, [Next]_vars
  PROVE  IInv'
<1>1. ASSUME NEW code \in response.codes, ReceiveStatus(code) PROVE IInv'
  BY <1>1, StatusStep
<1>2. ASSUME NEW n \in 1..Len(rest), NEW cut \in BOOLEAN, ReceiveChunk(n, cut) PROVE IInv'
  BY <1>2, ChunkStep
<1>3. CASE TransferEnds
  BY <1>3, TransferEndsStep
<1>4. CASE Retry
  BY <1>4, RetryStep
<1>5. CASE Finish
  BY <1>5, FinishStep
<1>6. CASE UNCHANGED vars
  <2>1. UNCHANGED <<response, place, rest, response_code, response_buffer, emitter, last_id, retries, sent, received>>
    BY <1>6 DEF vars, history
  <2>2. Handling' /\ NothingYet' /\ SentOrBuffered'
    BY <2>1 DEF IInv, Handling, Tokens, NothingYet, SentOrBuffered, Success, Streamed
  <2>3. place' # "finished" => Unfinished' /\ OnceSoFar'
    BY <2>1 DEF IInv, Unfinished, OnceSoFar, InChunks, Parsed, Success
  <2>4. BodyOnce'
    BY <2>1 DEF IInv, BodyOnce, Messages, Parsed, Success
  <2> QED BY <2>2, <2>3, <2>4 DEF IInv
<1> QED BY <1>1, <1>2, <1>3, <1>4, <1>5, <1>6 DEF Next

(* Whatever the status codes, the retries and the chunks, the client gets  *)
(* one final message, the last, and what was received, once and in order.  *)
THEOREM ClientGetsBodyOnce == Spec => []BodyOnce
<1>1. Init => IInv
  BY InitIInv
<1>2. IInv /\ [Next]_vars => IInv'
  BY HandlerStep
<1>3. IInv => BodyOnce
  BY DEF IInv
<1> QED BY <1>1, <1>2, <1>3, PTL DEF Spec

-----------------------------------------------------------------------------
(* Parsing a chunk: which events it dispatches *)

(* What of a stream is true of any part of it, with tokens cut or not.  A  *)
(* first end of line may be blank or not.                                  *)
WellFormed(c) ==
  /\ \A i \in 1..Len(c) : c[i].of # NoEvent
  /\ \A i \in 1..(Len(c) - 1) :
       /\ IsLineEnd(c[i]) \/ IsLineEnd(c[i + 1])
       /\ ~IsBlank(c, i) => c[i + 1].of = c[i].of
       /\ i > 1 /\ IsBlank(c, i) => c[i + 1].of = c[i].of + 1
  /\ \A i, j \in 1..Len(c) : i <= j => c[i].of <= c[j].of

(* The parser after k tokens has begun a line with the last, or none.      *)
LineOf(c, k, line) ==
  /\ k = 0 \/ IsLineEnd(c[k]) => line = <<>>
  /\ k > 0 /\ ~IsLineEnd(c[k]) => line = <<c[k]>>

(* A field it holds is of the event of the last token, and that event has  *)
(* not ended.                                                              *)
Held(c, k, value) ==
  value # NoEvent =>
    /\ k > 0
    /\ value = c[k].of
    /\ ~IsBlank(c, k)
    /\ \E j \in 1..k : ~IsLineEnd(c[j]) /\ c[j].of = value

(* A field of that event whose line has ended is held.                     *)
Taken(c, k, type, value) ==
  k > 0 /\ ~IsBlank(c, k) =>
    \A j \in 1..(k - 1) : c[j].type = type /\ c[j].of = c[k].of => value = c[k].of

(* An event was dispatched at the blank line that ends it.                 *)
EndedAt(c, m, value) ==
  /\ IsBlank(c, m)
  /\ c[m].of = value
  /\ \E j \in 1..m : ~IsLineEnd(c[j]) /\ c[j].of = value

MadeOf(c, k, event) ==
  /\ event.event = event.data
  /\ \E m \in 2..k : EndedAt(c, m, event.event)

Rising(events) ==
  \A i, j \in 1..Len(events) : i < j => events[i].event < events[j].event

HasField(c, m, type) == \E j \in 1..m : c[j].type = type /\ c[j].of = c[m].of

(* An event with both fields was dispatched.                               *)
Found(c, k, events) ==
  \A m \in 2..k : IsBlank(c, m) /\ HasField(c, m, "event") /\ HasField(c, m, "data") =>
    \E i \in 1..Len(events) : events[i].event = c[m].of

ParserInv(c, k, parser) ==
  /\ LineOf(c, k, parser.line)
  /\ Held(c, k, parser.pending.event) /\ Held(c, k, parser.pending.data)
  /\ Taken(c, k, "event", parser.pending.event) /\ Taken(c, k, "data", parser.pending.data)
  /\ \A i \in 1..Len(parser.events) : MadeOf(c, k, parser.events[i])
  /\ Rising(parser.events)
  /\ Found(c, k, parser.events)

LEMMA FieldsAreNoEnds ==
  ASSUME NEW token, token.type = "event" \/ token.type = "data" \/ token.type = "id"
  PROVE  ~IsLineEnd(token)
BY DEF IsLineEnd, LineEnd

LEMMA ParserTypes ==
  ASSUME NEW parser \in Parser
  PROVE  /\ parser.pending \in [event : Nat, data : Nat]
         /\ parser.pending.event \in Nat /\ parser.pending.data \in Nat
         /\ parser.last_id \in Nat /\ parser.line \in Seq(Stream) /\ parser.events \in Seq(Event)
BY DEF Parser

LEMMA PartTypes ==
  ASSUME NEW c \in Seq(Stream)
  PROVE  Len(c) \in Nat /\ \A i \in 1..Len(c) : c[i] \in Stream /\ c[i].of \in Nat
<1>1. Len(c) \in Nat /\ \A i \in 1..Len(c) : c[i] \in Stream
  BY LenProperties, ElementOfSeq
<1>2. \A token \in Stream : token.of \in Nat
  BY DEF Stream, StreamToken
<1> QED BY <1>1, <1>2

(* What was dispatched stays so. *)
LEMMA MadeOfLater ==
  ASSUME NEW c, NEW k \in Nat, NEW event, MadeOf(c, k - 1, event)
  PROVE  MadeOf(c, k, event)
BY DEF MadeOf

(* The fields of the event of token k that come before token k - 1 are     *)
(* also of the event of token k - 1.                                       *)
LEMMA TakenBefore ==
  ASSUME NEW c \in Seq(Stream), WellFormed(c), NEW k \in 1..Len(c), NEW type, NEW value,
         Taken(c, k - 1, type, value),
         NEW j \in 1..(k - 1), j # k - 1, c[j].type = type, c[j].of = c[k].of
  PROVE  value = c[k - 1].of /\ c[k - 1].of = c[k].of /\ ~IsBlank(c, k - 1)
<1>0. Len(c) \in Nat /\ \A i \in 1..Len(c) : c[i].of \in Nat
  BY PartTypes
<1>1. /\ k - 1 \in 1..Len(c) /\ k - 1 \in 1..(Len(c) - 1) /\ (k - 1) + 1 = k /\ j <= k - 1 /\ k - 1 <= k
      /\ j \in 1..Len(c) /\ j \in 1..((k - 1) - 1) /\ k - 1 > 1
  BY <1>0
<1>2. c[j].of <= c[k - 1].of /\ c[k - 1].of <= c[k].of
  BY <1>1 DEF WellFormed
<1>3. c[k - 1].of = c[k].of
  BY <1>0, <1>1, <1>2
<1>4. ~IsBlank(c, k - 1)
  <2>1. c[k].of # c[k - 1].of + 1
    BY <1>0, <1>1, <1>3
  <2> QED BY <1>1, <2>1 DEF WellFormed
<1>5. value = c[k - 1].of
  BY <1>1, <1>3, <1>4 DEF Taken
<1> QED BY <1>3, <1>4, <1>5

LEMMA HeldOn ==
  ASSUME NEW c \in Seq(Stream), WellFormed(c), NEW k \in 1..Len(c), NEW value,
         Held(c, k - 1, value), ~IsBlank(c, k)
  PROVE  Held(c, k, value)
<1> SUFFICES ASSUME value # NoEvent PROVE Held(c, k, value)
  BY DEF Held
<1>0. Len(c) \in Nat
  BY PartTypes
<1>1. k - 1 > 0 /\ value = c[k - 1].of /\ ~IsBlank(c, k - 1)
  BY DEF Held
<1>2. PICK j \in 1..(k - 1) : ~IsLineEnd(c[j]) /\ c[j].of = value
  BY DEF Held
<1>3. c[k].of = c[k - 1].of
  <2>1. k - 1 \in 1..(Len(c) - 1) /\ (k - 1) + 1 = k
    BY <1>0, <1>1
  <2> QED BY <1>1, <2>1 DEF WellFormed
<1>4. k > 0 /\ j \in 1..k
  BY <1>0
<1> QED BY <1>1, <1>2, <1>3, <1>4 DEF Held

(* A token of a line *)
LEMMA TextStep ==
  ASSUME NEW c \in Seq(Stream), WellFormed(c), NEW k \in 1..Len(c), NEW parser \in Parser,
         ParserInv(c, k - 1, parser), ~IsLineEnd(c[k])
  PROVE  ParserInv(c, k, TakeToken(parser, c[k]))
<1> PICK next : next = TakeToken(parser, c[k])
  OBVIOUS
<1>0. Len(c) \in Nat /\ k \in Nat /\ k - 1 \in Nat /\ ~IsBlank(c, k)
  BY PartTypes DEF IsBlank
<1>1. next.pending = parser.pending /\ next.events = parser.events /\ next.line = Append(parser.line, c[k])
  BY DEF TakeToken, Parser
<1>2. k - 1 > 0 => IsLineEnd(c[k - 1])
  <2> SUFFICES ASSUME k - 1 > 0 PROVE IsLineEnd(c[k - 1])
    OBVIOUS
  <2>1. k - 1 \in 1..(Len(c) - 1) /\ (k - 1) + 1 = k
    BY <1>0
  <2>2. IsLineEnd(c[k - 1]) \/ IsLineEnd(c[(k - 1) + 1])
    BY <2>1 DEF WellFormed
  <2> QED BY <2>1, <2>2
<1>3. LineOf(c, k, next.line)
  <2>1. parser.line = <<>>
    BY <1>0, <1>2 DEF ParserInv, LineOf
  <2>2. Append(<<>>, c[k]) = <<c[k]>>
    OBVIOUS
  <2> QED BY <1>0, <1>1, <2>1, <2>2 DEF LineOf
<1>4. Held(c, k, next.pending.event) /\ Held(c, k, next.pending.data)
  BY <1>0, <1>1, HeldOn DEF ParserInv
<1>5. ASSUME NEW type \in {"event", "data"}, NEW value, Taken(c, k - 1, type, value)
      PROVE  Taken(c, k, type, value)
  <2> SUFFICES ASSUME NEW j \in 1..(k - 1), c[j].type = type, c[j].of = c[k].of
               PROVE  value = c[k].of
    BY DEF Taken
  <2>1. ~IsLineEnd(c[j])
    BY FieldsAreNoEnds
  <2>2. j # k - 1
    BY <1>0, <1>2, <2>1
  <2> QED BY <1>5, <2>2, TakenBefore
<1>6. Taken(c, k, "event", next.pending.event) /\ Taken(c, k, "data", next.pending.data)
  BY <1>1, <1>5 DEF ParserInv
<1>7. \A i \in 1..Len(next.events) : MadeOf(c, k, next.events[i])
  BY <1>0, <1>1, MadeOfLater DEF ParserInv
<1>8. Rising(next.events)
  BY <1>1 DEF ParserInv
<1>9. Found(c, k, next.events)
  <2>1. \A m \in 2..k : IsBlank(c, m) => m \in 2..(k - 1)
    BY <1>0
  <2>2. Found(c, k - 1, next.events)
    BY <1>1 DEF ParserInv
  <2> QED BY <2>1, <2>2 DEF Found
<1>10. ParserInv(c, k, next)
  BY <1>3, <1>4, <1>6, <1>7, <1>8, <1>9 DEF ParserInv
<1> QED BY <1>10

(* The end of a line that is not blank *)
LEMMA LineStep ==
  ASSUME NEW c \in Seq(Stream), WellFormed(c), NEW k \in 1..Len(c), NEW parser \in Parser,
         ParserInv(c, k - 1, parser), IsLineEnd(c[k]), ~IsBlank(c, k)
  PROVE  ParserInv(c, k, TakeToken(parser, c[k]))
<1> PICK next : next = TakeToken(parser, c[k])
  OBVIOUS
<1> PICK pending \in [event : Nat, data : Nat] : pending = parser.pending
  BY ParserTypes
<1>0. Len(c) \in Nat /\ k \in Nat /\ k - 1 \in Nat
  BY PartTypes
<1>1. k > 1 /\ ~IsLineEnd(c[k - 1])
  BY <1>0 DEF IsBlank
<1>2. parser.line = <<c[k - 1]>>
  <2>1. k - 1 > 0
    BY <1>0, <1>1
  <2> QED BY <1>1, <2>1 DEF ParserInv, LineOf
<1>3. c[k].of = c[k - 1].of /\ ~IsBlank(c, k - 1)
  <2>1. k - 1 \in 1..(Len(c) - 1) /\ (k - 1) + 1 = k
    BY <1>0, <1>1
  <2>2. ~IsBlank(c, k - 1)
    BY <1>1 DEF IsBlank
  <2> QED BY <2>1, <2>2 DEF WellFormed
<1> PICK token \in Stream : token = c[k - 1]
  <2>1. k - 1 \in 1..Len(c)
    BY <1>0, <1>1
  <2> QED BY <2>1, PartTypes
<1>4. /\ next.line = <<>> /\ next.events = parser.events
      /\ next.pending.event = IF token.type = "event" THEN token.of ELSE pending.event
      /\ next.pending.data = IF token.type = "data" THEN token.of ELSE pending.data
  <2>1. parser.line # <<>> /\ parser.line[1] = token
    BY <1>2
  <2>2. next = [TakeLine(parser, parser.line) EXCEPT !.line = <<>>]
    BY DEF TakeToken
  <2>3. CASE token.type = "event"
    <3>1. TakeLine(parser, parser.line) = [parser EXCEPT !.pending.event = token.of]
      BY <2>1, <2>3 DEF TakeLine
    <3> QED BY <2>2, <2>3, <3>1 DEF Parser
  <2>4. CASE token.type = "data"
    <3>1. TakeLine(parser, parser.line) = [parser EXCEPT !.pending.data = token.of]
      BY <2>1, <2>4 DEF TakeLine
    <3> QED BY <2>2, <2>4, <3>1 DEF Parser
  <2>5. CASE token.type = "id"
    <3>1. TakeLine(parser, parser.line) = [parser EXCEPT !.last_id = token.of]
      BY <2>1, <2>5 DEF TakeLine
    <3> QED BY <2>2, <2>5, <3>1 DEF Parser
  <2>6. CASE token.type \notin {"event", "data", "id"}
    <3>1. TakeLine(parser, parser.line) = parser
      BY <2>1, <2>6 DEF TakeLine
    <3> QED BY <2>2, <2>6, <3>1 DEF Parser
  <2> QED BY <2>3, <2>4, <2>5, <2>6
<1>5. LineOf(c, k, next.line)
  BY <1>4 DEF LineOf
<1>6. Held(c, k, token.of)
  <2>1. k > 0 /\ k - 1 \in 1..k
    BY <1>0, <1>1
  <2> QED BY <1>1, <1>3, <2>1 DEF Held
<1>7. Held(c, k, next.pending.event) /\ Held(c, k, next.pending.data)
  BY <1>4, <1>6, HeldOn DEF ParserInv
<1>8. ASSUME NEW type \in {"event", "data"}, NEW old, Taken(c, k - 1, type, old)
      PROVE  Taken(c, k, type, IF token.type = type THEN token.of ELSE old)
  <2> SUFFICES ASSUME NEW j \in 1..(k - 1), c[j].type = type, c[j].of = c[k].of
               PROVE  (IF token.type = type THEN token.of ELSE old) = c[k].of
    BY DEF Taken
  <2>1. CASE j = k - 1
    BY <1>3, <2>1
  <2>2. CASE j # k - 1
    <3>1. old = c[k - 1].of
      BY <1>8, <2>2, TakenBefore
    <3> QED BY <1>3, <3>1
  <2> QED BY <2>1, <2>2
<1>9. Taken(c, k, "event", next.pending.event) /\ Taken(c, k, "data", next.pending.data)
  BY <1>4, <1>8 DEF ParserInv
<1>10. \A i \in 1..Len(next.events) : MadeOf(c, k, next.events[i])
  BY <1>0, <1>4, MadeOfLater DEF ParserInv
<1>11. Rising(next.events)
  BY <1>4 DEF ParserInv
<1>12. Found(c, k, next.events)
  <2>1. \A m \in 2..k : IsBlank(c, m) => m \in 2..(k - 1)
    BY <1>0
  <2>2. Found(c, k - 1, next.events)
    BY <1>4 DEF ParserInv
  <2> QED BY <2>1, <2>2 DEF Found
<1>13. ParserInv(c, k, next)
  BY <1>5, <1>7, <1>9, <1>10, <1>11, <1>12 DEF ParserInv
<1> QED BY <1>13

(* An event that ended earlier comes before the one that is held. *)
LEMMA EndedBefore ==
  ASSUME NEW c \in Seq(Stream), WellFormed(c), NEW k \in 1..Len(c), NEW m \in 2..Len(c),
         IsBlank(c, m), m < k
  PROVE  c[m].of < c[k].of
<1>0. Len(c) \in Nat /\ \A i \in 1..Len(c) : c[i].of \in Nat
  BY PartTypes
<1>1. m \in 1..(Len(c) - 1) /\ m > 1 /\ m + 1 \in 1..Len(c) /\ m \in 1..Len(c) /\ m + 1 <= k
  BY <1>0
<1>2. c[m + 1].of = c[m].of + 1 /\ c[m + 1].of <= c[k].of
  BY <1>1 DEF WellFormed
<1>3. c[m].of \in Nat /\ c[k].of \in Nat /\ c[m + 1].of \in Nat
  BY <1>0, <1>1
<1> QED BY <1>2, <1>3

(* A blank line *)
LEMMA BlankStep ==
  ASSUME NEW c \in Seq(Stream), WellFormed(c), NEW k \in 1..Len(c), NEW parser \in Parser,
         ParserInv(c, k - 1, parser), IsBlank(c, k)
  PROVE  ParserInv(c, k, TakeToken(parser, c[k]))
<1> PICK next : next = TakeToken(parser, c[k])
  OBVIOUS
<1> PICK held \in [event : Nat, data : Nat] : held = parser.pending
  BY ParserTypes
<1> PICK events \in Seq(Event) : events = parser.events
  BY ParserTypes
<1> PICK e : e = [event |-> held.event, data |-> held.data, id |-> parser.last_id]
  OBVIOUS
<1>0. Len(c) \in Nat /\ k \in Nat /\ k - 1 \in Nat /\ \A i \in 1..Len(c) : c[i].of \in Nat
  BY PartTypes
<1>1. IsLineEnd(c[k]) /\ (k - 1 > 0 => IsLineEnd(c[k - 1]))
  BY <1>0 DEF IsBlank
<1>2. parser.line = <<>>
  BY <1>0, <1>1 DEF ParserInv, LineOf
<1>3. e \in Event
  BY ParserTypes DEF Event
<1>4. /\ next.line = <<>> /\ next.pending.event = NoEvent /\ next.pending.data = NoEvent
      /\ next.events = IF held.event # NoEvent /\ held.data # NoEvent THEN Append(events, e) ELSE events
  <2>1. next = [TakeLine(parser, <<>>) EXCEPT !.line = <<>>]
    BY <1>1, <1>2 DEF TakeToken
  <2> QED BY <2>1 DEF TakeLine, NewEvent, Parser
<1>5. LineOf(c, k, next.line)
  BY <1>1, <1>4 DEF LineOf
<1>6. Held(c, k, next.pending.event) /\ Held(c, k, next.pending.data)
  BY <1>4 DEF Held
<1>7. Taken(c, k, "event", next.pending.event) /\ Taken(c, k, "data", next.pending.data)
  BY DEF Taken
<1>8. /\ \A i \in 1..Len(events) : MadeOf(c, k, events[i]) /\ MadeOf(c, k - 1, events[i])
      /\ Rising(events) /\ Found(c, k - 1, events)
      /\ Held(c, k - 1, held.event) /\ Held(c, k - 1, held.data)
      /\ Taken(c, k - 1, "event", held.event) /\ Taken(c, k - 1, "data", held.data)
  BY <1>0, MadeOfLater DEF ParserInv
<1>9. Len(events) \in Nat /\ \A i \in 1..Len(events) : events[i] \in Event /\ events[i].event \in Nat
  <2>1. Len(events) \in Nat /\ \A i \in 1..Len(events) : events[i] \in Event
    BY LenProperties, ElementOfSeq
  <2> QED BY <2>1 DEF Event
<1>10. CASE held.event # NoEvent /\ held.data # NoEvent
  <2>1. /\ k - 1 > 0 /\ held.event = c[k - 1].of /\ held.data = c[k - 1].of /\ ~IsBlank(c, k - 1)
    BY <1>8, <1>10 DEF Held
  <2>2. PICK j \in 1..(k - 1) : ~IsLineEnd(c[j]) /\ c[j].of = held.event
    BY <1>8, <1>10 DEF Held
  <2>3. k - 1 \in 1..(Len(c) - 1) /\ (k - 1) + 1 = k /\ k \in 2..k /\ j \in 1..k /\ k - 1 \in 1..Len(c)
    BY <1>0, <2>1
  <2>4. c[k].of = c[k - 1].of
    BY <2>1, <2>3 DEF WellFormed
  <2>5. MadeOf(c, k, e)
    <3>1. EndedAt(c, k, held.event)
      BY <2>1, <2>2, <2>3, <2>4 DEF EndedAt
    <3>2. e.event = held.event /\ e.data = held.data
      OBVIOUS
    <3> QED BY <2>1, <2>3, <3>1, <3>2 DEF MadeOf
  <2> PICK more : more = Append(events, e)
    OBVIOUS
  <2>6. /\ more \in Seq(Event) /\ Len(more) = Len(events) + 1
        /\ \A i \in 1..Len(events) : more[i] = events[i]
        /\ more[Len(events) + 1] = e
    BY <1>3, AppendProperties
  <2>7. next.events = more
    BY <1>4, <1>10
  <2>8. \A i \in 1..Len(more) : MadeOf(c, k, more[i])
    <3> TAKE i \in 1..Len(more)
    <3>1. CASE i = Len(events) + 1
      BY <2>5, <2>6, <3>1
    <3>2. CASE i # Len(events) + 1
      <4>1. i \in 1..Len(events)
        BY <1>9, <2>6, <3>2
      <4> QED BY <1>8, <2>6, <4>1
    <3> QED BY <3>1, <3>2
  <2>9. ASSUME NEW i \in 1..Len(events) PROVE events[i].event < e.event
    <3>1. PICK m \in 2..(k - 1) : EndedAt(c, m, events[i].event)
      BY <1>8 DEF MadeOf
    <3>2. IsBlank(c, m) /\ c[m].of = events[i].event
      BY <3>1 DEF EndedAt
    <3>3. m # k - 1 /\ m < k - 1 /\ m \in 2..Len(c)
      BY <1>0, <2>1, <3>2
    <3>4. c[m].of < c[k - 1].of
      BY <2>3, <3>2, <3>3, EndedBefore
    <3> QED BY <2>1, <3>2, <3>4
  <2>10. Rising(more)
    <3> SUFFICES ASSUME NEW i \in 1..Len(more), NEW l \in 1..Len(more), i < l
                 PROVE  more[i].event < more[l].event
      BY DEF Rising
    <3>1. i \in 1..Len(events)
      BY <1>9, <2>6
    <3>2. CASE l = Len(events) + 1
      BY <2>6, <2>9, <3>1, <3>2
    <3>3. CASE l # Len(events) + 1
      <4>1. l \in 1..Len(events)
        BY <1>9, <2>6, <3>3
      <4> QED BY <1>8, <2>6, <3>1, <4>1 DEF Rising
    <3> QED BY <3>2, <3>3
  <2>11. Found(c, k, more)
    <3> SUFFICES ASSUME NEW m \in 2..k, IsBlank(c, m), HasField(c, m, "event"), HasField(c, m, "data")
                 PROVE  \E i \in 1..Len(more) : more[i].event = c[m].of
      BY DEF Found
    <3>1. CASE m = k
      <4>1. Len(events) + 1 \in 1..Len(more) /\ more[Len(events) + 1].event = held.event
        BY <1>9, <2>6
      <4> QED BY <2>1, <2>4, <3>1, <4>1
    <3>2. CASE m # k
      <4>1. m \in 2..(k - 1)
        BY <1>0, <3>2
      <4>2. PICK i \in 1..Len(events) : events[i].event = c[m].of
        BY <1>8, <4>1 DEF Found
      <4>3. i \in 1..Len(more) /\ more[i] = events[i]
        BY <1>9, <2>6
      <4> QED BY <4>2, <4>3
    <3> QED BY <3>1, <3>2
  <2>12. ParserInv(c, k, next)
    BY <1>5, <1>6, <1>7, <2>7, <2>8, <2>10, <2>11 DEF ParserInv
  <2> QED BY <2>12
<1>11. CASE ~(held.event # NoEvent /\ held.data # NoEvent)
  <2>1. next.events = events
    BY <1>4, <1>11
  <2>2. ASSUME NEW type \in {"event", "data"}, NEW value, HasField(c, k, type), Taken(c, k - 1, type, value)
        PROVE  value # NoEvent
    <3>1. PICK j \in 1..k : c[j].type = type /\ c[j].of = c[k].of
      BY <2>2 DEF HasField
    <3>2. ~IsLineEnd(c[j])
      BY <3>1, FieldsAreNoEnds
    <3>3. j # k /\ j \in 1..(k - 1)
      BY <1>0, <1>1, <3>2
    <3>4. j # k - 1
      BY <1>0, <1>1, <3>2, <3>3
    <3>5. value = c[k - 1].of /\ c[k - 1].of = c[k].of
      BY <2>2, <3>1, <3>3, <3>4, TakenBefore
    <3> QED BY <3>5 DEF WellFormed
  <2>3. ~(HasField(c, k, "event") /\ HasField(c, k, "data"))
    BY <1>8, <1>11, <2>2
  <2>4. Found(c, k, events)
    <3> SUFFICES ASSUME NEW m \in 2..k, IsBlank(c, m), HasField(c, m, "event"), HasField(c, m, "data")
                 PROVE  \E i \in 1..Len(events) : events[i].event = c[m].of
      BY DEF Found
    <3>1. m \in 2..(k - 1)
      BY <1>0, <2>3
    <3> QED BY <1>8, <3>1 DEF Found
  <2>5. ParserInv(c, k, next)
    BY <1>5, <1>6, <1>7, <1>8, <2>1, <2>4 DEF ParserInv
  <2> QED BY <2>5
<1> QED BY <1>10, <1>11

LEMMA ParserInvHolds ==
  ASSUME NEW c \in Seq(Stream), WellFormed(c), NEW id \in Nat
  PROVE  \A k \in 0..Len(c) : ParserInv(c, k, Parsing(c, id)[k])
<1> PICK n : n = Len(c)
  OBVIOUS
<1> PICK g : g = Parsing(c, id)
  OBVIOUS
<1> DEFINE T == {k \in 0..n : ParserInv(c, k, g[k])}
<1>1. n \in Nat
  BY PartTypes
<1>2. /\ g[0] = NewParser(id) /\ \A k \in 1..n : g[k] = TakeToken(g[k - 1], c[k])
      /\ \A k \in 0..n : g[k] \in Parser
  BY ParsingDef, ParsingType
<1>3. 0 \in T
  <2>1. ParserInv(c, 0, NewParser(id))
    BY DEF ParserInv, NewParser, NewEvent, LineOf, Held, Taken, Rising, Found
  <2> QED BY <1>1, <1>2, <2>1
<1>4. ASSUME NEW k \in 1..n, k - 1 \in T PROVE k \in T
  <2>1. k \in 0..n /\ k - 1 \in 0..n
    BY <1>1
  <2>2. ParserInv(c, k - 1, g[k - 1]) /\ g[k - 1] \in Parser
    BY <1>2, <1>4, <2>1
  <2>3. ParserInv(c, k, TakeToken(g[k - 1], c[k]))
    BY <2>2, TextStep, LineStep, BlankStep
  <2>4. ParserInv(c, k, g[k])
    BY <1>2, <2>3
  <2> QED BY <2>1, <2>4
<1>5. \A k \in 0..n : k \in T
  <2> HIDE DEF T
  <2> QED BY <1>1, <1>3, <1>4, BoundedInduction
<1> QED BY <1>5

-----------------------------------------------------------------------------
(* A chunk is a part of the stream *)

LEMMA StreamOrder ==
  ASSUME NEW S \in Seq(Stream), IsStream(S)
  PROVE  \A i, j \in 1..Len(S) : i <= j => S[i].of <= S[j].of
<1> PICK n : n = Len(S)
  OBVIOUS
<1>0. n \in Nat /\ \A i \in 1..n : S[i].of \in Nat
  BY PartTypes
<1> DEFINE T == {j \in 0..n : \A i \in 1..j : S[i].of <= S[j].of}
<1>1. 0 \in T
  BY <1>0
<1>2. ASSUME NEW j \in 1..n, j - 1 \in T PROVE j \in T
  <2>1. j \in 0..n
    BY <1>0
  <2>2. ASSUME NEW i \in 1..j PROVE S[i].of <= S[j].of
    <3>1. CASE i = j
      BY <1>0, <3>1
    <3>2. CASE i # j
      <4>1. i \in 1..(j - 1) /\ j - 1 \in 1..(n - 1) /\ (j - 1) + 1 = j /\ j - 1 \in 1..n /\ i \in 1..n
        BY <1>0, <3>2
      <4>2. S[i].of <= S[j - 1].of
        BY <1>2, <4>1
      <4>3. S[j].of = S[j - 1].of + 1 \/ S[j].of = S[j - 1].of
        BY <4>1 DEF IsStream
      <4>4. S[i].of \in Nat /\ S[j].of \in Nat /\ S[j - 1].of \in Nat
        BY <1>0, <4>1
      <4> QED BY <4>2, <4>3, <4>4
    <3> QED BY <3>1, <3>2
  <2> QED BY <2>1, <2>2
<1>3. \A j \in 0..n : j \in T
  <2> HIDE DEF T
  <2> QED BY <1>0, <1>1, <1>2, BoundedInduction
<1>4. ASSUME NEW i \in 1..n, NEW j \in 1..n, i <= j PROVE S[i].of <= S[j].of
  <2>1. j \in 0..n /\ i \in 1..j
    BY <1>0, <1>4
  <2>2. j \in T
    <3> HIDE DEF T
    <3> QED BY <1>3, <2>1
  <2> QED BY <2>1, <2>2
<1> QED BY <1>4

(* The token of the stream, or what a cut leaves of it.                    *)
PieceOf(token, whole_token) ==
  \/ token = whole_token
  \/ CanCut(whole_token) /\ (token = FirstHalf(whole_token) \/ token = SecondHalf(whole_token))

PartOf(c, S, p) ==
  /\ p + Len(c) <= Len(S)
  /\ \A i \in 1..Len(c) : PieceOf(c[i], S[p + i])

LEMMA PieceFacts ==
  ASSUME NEW whole_token \in Stream, NEW token, PieceOf(token, whole_token)
  PROVE  /\ token.of = whole_token.of
         /\ IsLineEnd(token) <=> IsLineEnd(whole_token)
         /\ ~IsLineEnd(token) /\ token.type # "text" => token = whole_token
BY DEF PieceOf, FirstHalf, SecondHalf, CanCut, IsLineEnd, LineEnd, Stream, StreamToken

LEMMA PartFacts ==
  ASSUME NEW S \in Seq(Stream), IsStream(S), NEW p \in Nat, NEW c \in Seq(Stream), PartOf(c, S, p)
  PROVE  \A i \in 1..Len(c) :
           /\ p + i \in 1..Len(S)
           /\ c[i].of = S[p + i].of
           /\ IsLineEnd(c[i]) <=> IsLineEnd(S[p + i])
           /\ ~IsLineEnd(c[i]) /\ c[i].type # "text" => c[i] = S[p + i]
           /\ i > 1 => (IsBlank(c, i) <=> IsBlank(S, p + i))
<1>0. Len(c) \in Nat /\ Len(S) \in Nat /\ p + Len(c) <= Len(S) /\ \A i \in 1..Len(S) : S[i] \in Stream
  BY PartTypes DEF PartOf
<1>1. ASSUME NEW i \in 1..Len(c)
      PROVE  /\ p + i \in 1..Len(S)
             /\ c[i].of = S[p + i].of
             /\ IsLineEnd(c[i]) <=> IsLineEnd(S[p + i])
             /\ ~IsLineEnd(c[i]) /\ c[i].type # "text" => c[i] = S[p + i]
  <2>1. p + i \in 1..Len(S)
    BY <1>0
  <2>2. PieceOf(c[i], S[p + i]) /\ S[p + i] \in Stream
    BY <1>0, <2>1 DEF PartOf
  <2> QED BY <2>1, <2>2, PieceFacts
<1>2. ASSUME NEW i \in 1..Len(c), i > 1
      PROVE  IsBlank(c, i) <=> IsBlank(S, p + i)
  <2>1. i - 1 \in 1..Len(c) /\ p + (i - 1) = (p + i) - 1 /\ p + i > 1
    BY <1>0, <1>2
  <2>2. /\ IsLineEnd(c[i]) <=> IsLineEnd(S[p + i])
        /\ IsLineEnd(c[i - 1]) <=> IsLineEnd(S[(p + i) - 1])
    BY <1>1, <2>1
  <2> QED BY <1>2, <2>1, <2>2 DEF IsBlank
<1> QED BY <1>1, <1>2

LEMMA PartWellFormed ==
  ASSUME NEW S \in Seq(Stream), IsStream(S), NEW p \in Nat, NEW c \in Seq(Stream), PartOf(c, S, p)
  PROVE  WellFormed(c)
<1>0. Len(c) \in Nat /\ Len(S) \in Nat /\ p + Len(c) <= Len(S)
  BY PartTypes DEF PartOf
<1>1. \A i \in 1..Len(c) :
        /\ p + i \in 1..Len(S)
        /\ c[i].of = S[p + i].of
        /\ IsLineEnd(c[i]) <=> IsLineEnd(S[p + i])
        /\ i > 1 => (IsBlank(c, i) <=> IsBlank(S, p + i))
  BY PartFacts
<1>2. \A i \in 1..Len(c) : c[i].of # NoEvent
  BY <1>1 DEF IsStream
<1>3. ASSUME NEW i \in 1..(Len(c) - 1)
      PROVE  /\ IsLineEnd(c[i]) \/ IsLineEnd(c[i + 1])
             /\ ~IsBlank(c, i) => c[i + 1].of = c[i].of
             /\ i > 1 /\ IsBlank(c, i) => c[i + 1].of = c[i].of + 1
  <2>1. i \in 1..Len(c) /\ i + 1 \in 1..Len(c) /\ p + i \in 1..(Len(S) - 1) /\ p + (i + 1) = (p + i) + 1
    BY <1>0
  <2>2. /\ IsLineEnd(S[p + i]) \/ IsLineEnd(S[(p + i) + 1])
        /\ S[(p + i) + 1].of = IF IsBlank(S, p + i) THEN S[p + i].of + 1 ELSE S[p + i].of
    BY <2>1 DEF IsStream
  <2>3. /\ c[i].of = S[p + i].of /\ c[i + 1].of = S[(p + i) + 1].of
        /\ IsLineEnd(c[i]) <=> IsLineEnd(S[p + i])
        /\ IsLineEnd(c[i + 1]) <=> IsLineEnd(S[(p + i) + 1])
    BY <1>1, <2>1
  <2>4. ~IsBlank(c, i) => ~IsBlank(S, p + i)
    <3>1. CASE i > 1
      BY <1>1, <2>1, <3>1
    <3>2. CASE ~(i > 1)
      BY <2>3, <3>2 DEF IsBlank
    <3> QED BY <3>1, <3>2
  <2>5. i > 1 /\ IsBlank(c, i) => IsBlank(S, p + i)
    BY <1>1, <2>1
  <2> QED BY <2>2, <2>3, <2>4, <2>5
<1>4. \A i, j \in 1..Len(c) : i <= j => c[i].of <= c[j].of
  <2> TAKE i, j \in 1..Len(c)
  <2> HAVE i <= j
  <2>1. p + i <= p + j /\ p + i \in 1..Len(S) /\ p + j \in 1..Len(S)
    BY <1>0, <1>1
  <2>2. S[p + i].of <= S[p + j].of
    BY <2>1, StreamOrder
  <2> QED BY <1>1, <2>2
<1> QED BY <1>2, <1>3, <1>4 DEF WellFormed

(* The tokens after a blank line are of later events. *)
LEMMA AfterBlank ==
  ASSUME NEW S \in Seq(Stream), IsStream(S), NEW b \in 1..Len(S), IsBlank(S, b),
         NEW l \in 1..Len(S), b < l
  PROVE  S[b].of < S[l].of
<1>0. Len(S) \in Nat /\ \A i \in 1..Len(S) : S[i].of \in Nat
  BY PartTypes
<1>1. b \in 1..(Len(S) - 1) /\ b + 1 \in 1..Len(S) /\ b + 1 <= l
  BY <1>0
<1>2. S[b + 1].of = S[b].of + 1
  BY <1>1 DEF IsStream
<1>3. S[b + 1].of <= S[l].of
  BY <1>1, StreamOrder
<1>4. S[b].of \in Nat /\ S[b + 1].of \in Nat /\ S[l].of \in Nat
  BY <1>0, <1>1
<1> QED BY <1>2, <1>3, <1>4

(* A part that has all tokens of a complete event has its fields and its   *)
(* blank line. *)
LEMMA WholeHasFields ==
  ASSUME NEW S \in Seq(Stream), IsStream(S), S = response.tokens,
         NEW p \in Nat, NEW c \in Seq(Stream), PartOf(c, S, p),
         NEW e \in WholeIn(c), Complete(e)
  PROVE  \E m \in 2..Len(c) :
           IsBlank(c, m) /\ c[m].of = e /\ HasField(c, m, "event") /\ HasField(c, m, "data")
<1> PICK n : n = Len(c)
  OBVIOUS
<1> PICK last : last = Len(S)
  OBVIOUS
<1>0. n \in Nat /\ last \in Nat /\ \A i \in 1..last : S[i] \in Stream /\ S[i].of \in Nat
  BY PartTypes
<1>1. \A i \in 1..n :
        /\ p + i \in 1..last
        /\ c[i].of = S[p + i].of
        /\ IsLineEnd(c[i]) <=> IsLineEnd(S[p + i])
        /\ ~IsLineEnd(c[i]) /\ c[i].type # "text" => c[i] = S[p + i]
        /\ i > 1 => (IsBlank(c, i) <=> IsBlank(S, p + i))
  BY PartFacts
<1> DEFINE A == {i \in 1..n : c[i].of = e /\ c[i].type # "text"}
           B == {i \in 1..last : S[i].of = e}
           f == [i \in A |-> p + i]
<1>2. Cardinality(A) = Cardinality(B)
  BY DEF WholeIn
<1>3. IsFiniteSet(B)
  <2>1. IsFiniteSet(1..last)
    <3>1. 1 \in Int /\ last \in Int
      BY <1>0
    <3> QED BY <3>1, FS_Interval
  <2>2. B \in SUBSET (1..last)
    OBVIOUS
  <2> HIDE DEF B
  <2> QED BY <2>1, <2>2, FS_Subset
<1>4. f \in Injection(A, B)
  <2>1. \A i \in A : p + i \in B
    BY <1>1
  <2>2. f \in [A -> B]
    <3> HIDE DEF A, B
    <3> QED BY <2>1
  <2>3. \A i, j \in A : f[i] = f[j] => i = j
    BY <1>0
  <2> HIDE DEF A, B, f
  <2> QED BY <2>2, <2>3 DEF Injection, IsInjective
<1>5. f \in Surjection(A, B)
  <2> HIDE DEF A, B, f
  <2> QED BY <1>2, <1>3, <1>4, FS_Injection
<1>6. \A l \in B : \E i \in A : p + i = l
  <2>1. \A l \in B : \E i \in A : f[i] = l
    <3> HIDE DEF A, B, f
    <3> QED BY <1>5 DEF Surjection
  <2> QED BY <2>1
<1>7. PICK b \in 1..last : S[b].of = e /\ IsBlank(S, b)
  BY DEF Complete
<1>8. PICK m \in A : p + m = b
  BY <1>6, <1>7
<1>9. ASSUME NEW type \in {"event", "data"}
      PROVE  \E i \in 1..m : i # m /\ c[i].type = type /\ c[i].of = c[m].of
  <2>1. PICK l \in 1..last : S[l] = [type |-> type, of |-> e]
    BY DEF Complete
  <2>2. PICK i \in A : p + i = l
    BY <1>6, <2>1
  <2>3. ~IsLineEnd(S[l]) /\ S[l].of = e /\ S[l].type = type
    BY <2>1, FieldsAreNoEnds
  <2>4. c[i] = S[l]
    BY <1>1, <2>2, <2>3
  <2>5. IsLineEnd(S[b])
    BY <1>7 DEF IsBlank
  <2>6. ~(b < l)
    <3> SUFFICES ASSUME b < l PROVE FALSE
      OBVIOUS
    <3>1. S[b].of < S[l].of
      BY <1>7, AfterBlank
    <3> QED BY <1>0, <1>7, <2>1, <2>3, <3>1
  <2>7. i # m /\ i <= m
    BY <1>0, <1>8, <2>2, <2>3, <2>5, <2>6
  <2>8. i \in 1..m /\ c[m].of = e
    BY <1>0, <2>7
  <2> QED BY <2>3, <2>4, <2>7, <2>8
<1>10. m \in 2..n
  <2>1. PICK i \in 1..m : i # m
    BY <1>9
  <2> QED BY <1>0, <2>1
<1>11. IsBlank(c, m)
  BY <1>1, <1>7, <1>8, <1>10
<1>12. HasField(c, m, "event") /\ HasField(c, m, "data")
  BY <1>9 DEF HasField
<1> QED BY <1>10, <1>11, <1>12

(* What is dispatched of a part of the stream: events that end in it, in   *)
(* order, none of two, and every complete one that is whole in it.         *)
EndsIn(S, p, n, e) ==
  \E m \in 1..n :
    /\ p + m \in 1..Len(S) /\ IsBlank(S, p + m) /\ S[p + m].of = e
    /\ \E j \in 1..m : ~IsLineEnd(S[p + j]) /\ S[p + j].of = e

Yields(S, p, n, events, wholly) ==
  /\ \A i \in 1..Len(events) :
       events[i].event = events[i].data /\ EndsIn(S, p, n, events[i].event)
  /\ Rising(events)
  /\ \A e \in wholly : Complete(e) => \E i \in 1..Len(events) : events[i].event = e

LEMMA DispatchedOfPart ==
  ASSUME NEW S \in Seq(Stream), IsStream(S), S = response.tokens,
         NEW p \in Nat, NEW c \in Seq(Stream), PartOf(c, S, p), NEW id \in Nat,
         NEW events \in Seq(Event), events = Dispatch(c, id).events
  PROVE  Yields(S, p, Len(c), events, WholeIn(c))
<1> PICK n : n = Len(c)
  OBVIOUS
<1>0. n \in Nat /\ n \in 0..n
  BY PartTypes
<1>1. WellFormed(c)
  BY PartWellFormed
<1> PICK parser : parser = Parsing(c, id)[n]
  OBVIOUS
<1>2. ParserInv(c, n, parser)
  BY <1>0, <1>1, ParserInvHolds
<1>3. CASE HasBlankLine(c)
  <2>1. events = parser.events
    BY <1>3 DEF Dispatch
  <2>2. ASSUME NEW i \in 1..Len(events)
        PROVE  events[i].event = events[i].data /\ EndsIn(S, p, n, events[i].event)
    <3>1. MadeOf(c, n, events[i])
      BY <1>2, <2>1 DEF ParserInv
    <3>2. PICK m \in 2..n : EndedAt(c, m, events[i].event)
      BY <3>1 DEF MadeOf
    <3>3. PICK j \in 1..m : ~IsLineEnd(c[j]) /\ c[j].of = events[i].event
      BY <3>2 DEF EndedAt
    <3>4. m \in 1..n /\ j \in 1..n /\ m > 1
      BY <1>0
    <3>5. \A k \in 1..n :
            /\ p + k \in 1..Len(S) /\ c[k].of = S[p + k].of
            /\ IsLineEnd(c[k]) <=> IsLineEnd(S[p + k])
            /\ k > 1 => (IsBlank(c, k) <=> IsBlank(S, p + k))
      BY PartFacts
    <3>6. p + m \in 1..Len(S) /\ IsBlank(S, p + m) /\ S[p + m].of = events[i].event
      BY <3>2, <3>4, <3>5 DEF EndedAt
    <3>7. ~IsLineEnd(S[p + j]) /\ S[p + j].of = events[i].event
      BY <3>3, <3>4, <3>5
    <3>8. EndsIn(S, p, n, events[i].event)
      BY <3>4, <3>6, <3>7 DEF EndsIn
    <3> QED BY <3>1, <3>8 DEF MadeOf
  <2>3. Rising(events)
    BY <1>2, <2>1 DEF ParserInv
  <2>4. ASSUME NEW e \in WholeIn(c), Complete(e)
        PROVE  \E i \in 1..Len(events) : events[i].event = e
    <3>1. PICK m \in 2..n : IsBlank(c, m) /\ c[m].of = e /\ HasField(c, m, "event") /\ HasField(c, m, "data")
      BY <2>4, WholeHasFields
    <3>2. Found(c, n, events)
      BY <1>2, <2>1 DEF ParserInv
    <3> QED BY <3>1, <3>2 DEF Found
  <2> QED BY <2>2, <2>3, <2>4 DEF Yields
<1>4. CASE ~HasBlankLine(c)
  <2>1. events = <<>> /\ Len(events) = 0
    BY <1>4, EmptySeq DEF Dispatch
  <2>2. ASSUME NEW e \in WholeIn(c), Complete(e)
        PROVE  FALSE
    <3>1. PICK m \in 2..n : IsBlank(c, m)
      BY <2>2, WholeHasFields
    <3>2. m - 1 \in 1..n /\ m - 1 < n /\ (m - 1) + 1 = m /\ m > 1
      BY <1>0
    <3>3. IsLineEnd(c[m - 1]) /\ IsLineEnd(c[(m - 1) + 1])
      BY <3>1, <3>2 DEF IsBlank
    <3>4. HasBlankLine(c)
      BY <3>2, <3>3 DEF HasBlankLine
    <3> QED BY <1>4, <3>4
  <2> QED BY <2>1, <2>2 DEF Rising, Yields
<1> QED BY <1>3, <1>4

-----------------------------------------------------------------------------
(* What is left of the stream *)

(* r is the end of S, of whose first token a cut may have left a half.     *)
EndOf(r, S) ==
  LET past == Len(S) - Len(r) IN
    /\ Len(r) <= Len(S)
    /\ \A i \in 1..Len(r) :
         \/ r[i] = S[past + i]
         \/ i = 1 /\ CanCut(S[past + 1]) /\ r[1] = SecondHalf(S[past + 1])

Past == Len(response.tokens) - Len(rest)

LEMMA HalvesAreNotCut ==
  ASSUME NEW token \in Stream, CanCut(token)
  PROVE  ~CanCut(SecondHalf(token))
BY DEF CanCut, SecondHalf, Stream, StreamToken, LineEnd

LEMMA ChunkIsPart ==
  ASSUME rest \in Seq(Tokens), response.desired_format = "ServerSentEvents",
         NEW S \in Seq(Stream), S = response.tokens, EndOf(rest, S),
         NEW n \in 1..Len(rest), NEW cut \in BOOLEAN, cut => Cuttable(rest[n])
  PROVE  /\ Past \in Nat
         /\ PartOf(ChunkOf(n, cut), S, Past)
         /\ EndOf(AfterChunk(n, cut), S)
         /\ Len(S) - Len(AfterChunk(n, cut)) = IF cut THEN (Past + n) - 1 ELSE Past + n
<1> DEFINE chunk == ChunkOf(n, cut)
           after == AfterChunk(n, cut)
           length == Len(rest)
           total == Len(S)
           left == Len(after)
           past == Past
<1>0. n \in Nat /\ 1 <= n /\ n <= length /\ length \in Nat /\ total \in Nat
  BY LenProperties
<1>1. /\ Len(chunk) = n
      /\ \A i \in 1..n : chunk[i] = IF cut /\ i = n THEN FirstHalf(rest[n]) ELSE rest[i]
      /\ after \in Seq(Tokens)
      /\ left = IF cut THEN (length - n) + 1 ELSE length - n
      /\ \A i \in 1..left :
           after[i] = IF ~cut THEN rest[n + i]
                      ELSE IF i = 1 THEN SecondHalf(rest[n]) ELSE rest[n + (i - 1)]
  <2>1. Len(ChunkOf(n, cut)) = n /\ AfterChunk(n, cut) \in Seq(Tokens)
    BY ChunkFacts
  <2>2. \A i \in 1..n : ChunkOf(n, cut)[i] = IF cut /\ i = n THEN FirstHalf(rest[n]) ELSE rest[i]
    BY ChunkFacts
  <2>3. Len(AfterChunk(n, cut)) = IF cut THEN (Len(rest) - n) + 1 ELSE Len(rest) - n
    BY ChunkFacts
  <2>4. \A i \in 1..Len(AfterChunk(n, cut)) :
          AfterChunk(n, cut)[i] = IF ~cut THEN rest[n + i]
                                  ELSE IF i = 1 THEN SecondHalf(rest[n]) ELSE rest[n + (i - 1)]
    BY ChunkFacts
  <2> QED BY <2>1, <2>2, <2>3, <2>4, Zenon
<1>2. past = total - length /\ length <= total /\ past \in Nat
  BY <1>0 DEF Past, EndOf
<1>9. left \in Nat
  BY <1>0, <1>1
<1> HIDE DEF chunk, after, length, total, left, past
<1>3. \A i \in 1..length :
        \/ rest[i] = S[past + i]
        \/ i = 1 /\ CanCut(S[past + 1]) /\ rest[1] = SecondHalf(S[past + 1])
  BY DEF EndOf, Past, length, past
<1>4. ASSUME cut PROVE rest[n] = S[past + n] /\ CanCut(S[past + n])
  <2>1. CanCut(rest[n])
    BY <1>4 DEF Cuttable
  <2>2. ASSUME n = 1, CanCut(S[past + 1]), rest[1] = SecondHalf(S[past + 1])
        PROVE  FALSE
    <3>1. past + 1 \in 1..total
      BY <1>0, <1>2
    <3>2. S[past + 1] \in Stream
      BY <3>1, ElementOfSeq DEF total
    <3> QED BY <2>1, <2>2, <3>2, HalvesAreNotCut
  <2>3. n \in 1..length
    BY <1>0
  <2>4. rest[n] = S[past + n]
    BY <1>3, <2>2, <2>3
  <2> QED BY <2>1, <2>4
<1>5. PartOf(chunk, S, past)
  <2>1. ASSUME NEW i \in 1..n PROVE PieceOf(chunk[i], S[past + i])
    <3>1. i \in 1..length
      BY <1>0
    <3>2. CASE cut /\ i = n
      BY <1>1, <1>4, <3>2 DEF PieceOf
    <3>3. CASE ~(cut /\ i = n)
      <4>1. chunk[i] = rest[i]
        BY <1>1, <3>3
      <4> QED BY <1>3, <3>1, <4>1 DEF PieceOf
    <3> QED BY <3>2, <3>3
  <2>2. past + n <= total
    BY <1>0, <1>2
  <2> QED BY <1>1, <2>1, <2>2 DEF PartOf, total
<1>6. total - left = IF cut THEN (past + n) - 1 ELSE past + n
  <2>1. CASE cut
    BY <1>0, <1>1, <1>2, <2>1
  <2>2. CASE ~cut
    BY <1>0, <1>1, <1>2, <2>2
  <2> QED BY <2>1, <2>2
<1>7. EndOf(after, S)
  <2>1. left <= total
    BY <1>0, <1>1, <1>2
  <2> DEFINE gone == total - left
  <2>2. ASSUME NEW i \in 1..left
        PROVE  \/ after[i] = S[gone + i]
               \/ i = 1 /\ CanCut(S[gone + 1]) /\ after[1] = SecondHalf(S[gone + 1])
    <3>1. CASE ~cut
      <4>1. n + i \in 1..length /\ n + i # 1 /\ gone + i = past + (n + i)
        BY <1>0, <1>1, <1>2, <1>6, <3>1
      <4>2. rest[n + i] = S[past + (n + i)]
        BY <1>3, <4>1
      <4>3. after[i] = rest[n + i]
        BY <1>1, <3>1
      <4> QED BY <4>1, <4>2, <4>3
    <3>2. CASE cut /\ i = 1
      <4>1. gone + 1 = past + n
        BY <1>0, <1>2, <1>6, <3>2
      <4>2. after[1] = SecondHalf(rest[n])
        BY <1>1, <3>2
      <4> QED BY <1>4, <3>2, <4>1, <4>2
    <3>3. CASE cut /\ i # 1
      <4>1. n + (i - 1) \in 1..length /\ n + (i - 1) # 1 /\ gone + i = past + (n + (i - 1))
        BY <1>0, <1>1, <1>2, <1>6, <3>3
      <4>2. rest[n + (i - 1)] = S[past + (n + (i - 1))]
        BY <1>3, <4>1
      <4>3. after[i] = rest[n + (i - 1)]
        BY <1>1, <3>3
      <4> QED BY <4>1, <4>2, <4>3
    <3> QED BY <3>1, <3>2, <3>3
  <2> QED BY <2>1, <2>2 DEF EndOf, total, left
<1> QED BY <1>2, <1>5, <1>6, <1>7 DEF chunk, after, length, total, left, past

-----------------------------------------------------------------------------
(* The events the client is sent *)

(* All messages are chosen if they have the type. *)
LEMMA ChosenAll ==
  ASSUME NEW type, NEW messages \in Seq(Message), AllOf({type}, messages)
  PROVE  Chosen(type, messages) = messages
<1> PICK n : n = Len(messages)
  OBVIOUS
<1> PICK g : g = OfType(type, messages)
  OBVIOUS
<1> DEFINE T == {i \in 0..n : /\ g[i] \in Seq(Message) /\ Len(g[i]) = i
                              /\ \A j \in 1..i : g[i][j] = messages[j]}
<1>1. n \in Nat
  BY LenProperties
<1>2. g[0] = <<>> /\ \A i \in 1..n : g[i] = Choose(type, messages[i], g[i - 1])
  BY OfTypeDef
<1>3. 0 \in T
  <2>1. 0 \in 0..n /\ <<>> \in Seq(Message) /\ Len(<<>>) = 0
    BY <1>1, EmptySeq
  <2>2. g[0] \in Seq(Message) /\ Len(g[0]) = 0 /\ \A j \in 1..0 : g[0][j] = messages[j]
    BY <1>2, <2>1
  <2> QED BY <2>1, <2>2
<1>4. ASSUME NEW i \in 1..n, i - 1 \in T PROVE i \in T
  <2>1. messages[i] \in Message /\ messages[i].type = type /\ i \in 0..n
    BY <1>1, ElementOfSeq DEF AllOf
  <2> PICK old : old = g[i - 1]
    OBVIOUS
  <2>2. old \in Seq(Message) /\ Len(old) = i - 1 /\ \A j \in 1..(i - 1) : old[j] = messages[j]
    BY <1>4
  <2>3. g[i] = Append(old, messages[i])
    BY <1>2, <2>1 DEF Choose
  <2>4. /\ g[i] \in Seq(Message) /\ Len(g[i]) = (i - 1) + 1 /\ g[i][(i - 1) + 1] = messages[i]
        /\ \A j \in 1..(i - 1) : g[i][j] = old[j]
    BY <2>1, <2>2, <2>3, AppendProperties
  <2>5. \A j \in 1..i : g[i][j] = messages[j]
    <3> TAKE j \in 1..i
    <3>1. CASE j = i
      BY <1>1, <2>4, <3>1
    <3>2. CASE j # i
      <4>1. j \in 1..(i - 1)
        BY <1>1, <3>2
      <4> QED BY <2>2, <2>4, <4>1
    <3> QED BY <3>1, <3>2
  <2>6. (i - 1) + 1 = i
    BY <1>1
  <2> QED BY <2>1, <2>4, <2>5, <2>6
<1>5. \A i \in 0..n : i \in T
  <2> HIDE DEF T
  <2> QED BY <1>1, <1>3, <1>4, BoundedInduction
<1>6. n \in T
  <2>1. n \in 0..n
    BY <1>1
  <2> HIDE DEF T
  <2> QED BY <1>5, <2>1
<1> PICK all : all = g[n]
  OBVIOUS
<1>7. all \in Seq(Message) /\ Len(all) = Len(messages) /\ \A j \in 1..n : all[j] = messages[j]
  BY <1>6
<1>8. all = messages
  BY <1>7, SeqEqual
<1> QED BY <1>8 DEF Chosen

EventMessages == {m \in Message : m.type = "server_sent_event"}

EventsIn(messages) == [i \in 1..Len(messages) |-> messages[i].event]

LEMMA EventsInType ==
  ASSUME NEW messages \in Seq(EventMessages)
  PROVE  EventsIn(messages) \in Seq(Event) /\ Len(EventsIn(messages)) = Len(messages)
<1> PICK n \in Nat : n = Len(messages)
  BY LenProperties
<1>1. \A i \in 1..n : messages[i].event \in Event
  <2> TAKE i \in 1..n
  <2>1. messages[i] \in EventMessages
    BY ElementOfSeq
  <2> QED BY <2>1 DEF EventMessages, Message
<1>2. EventsIn(messages) \in [1..n -> Event]
  BY <1>1 DEF EventsIn
<1> QED BY <1>2

LEMMA DispatchedType ==
  ASSUME sent \in Seq(Message)
  PROVE  Dispatched \in Seq(Event) /\ Dispatched = EventsIn(Chosen("server_sent_event", sent))
<1>1. Dispatched = EventsIn(Chosen("server_sent_event", sent))
  BY DEF Dispatched, EventsIn, Messages, Chosen
<1>2. Chosen("server_sent_event", sent) \in Seq(EventMessages)
  BY ChosenSeq DEF EventMessages
<1> QED BY <1>1, <1>2, EventsInType

(* The events of a chunk are added to those dispatched before. *)
LEMMA ParseEventsSends ==
  ASSUME Handling, AllOf({"server_sent_event"}, sent), NEW chunk \in Seq(Stream), ParseEvents(chunk),
         sent' \in Seq(Message), NEW events, events = Dispatch(chunk, last_id).events
  PROVE  /\ AllOf({"server_sent_event"}, sent)'
         /\ events \in Seq(Event) /\ Dispatched \in Seq(Event)
         /\ Dispatched' = Dispatched \o events
<1> PICK old : old = sent
  OBVIOUS
<1>1. old \in Seq(Message) /\ last_id \in Nat
  BY DEF Handling
<1>2. events \in Seq(Event)
  BY <1>1, DispatchType
<1> DEFINE m == Len(old)
           n == Len(events)
<1>0. m \in Nat /\ n \in Nat /\ m = Len(old) /\ n = Len(events)
  BY <1>1, <1>2, LenProperties
<1> HIDE DEF m, n
<1> DEFINE more == [i \in 1..n |-> [type |-> "server_sent_event", event |-> events[i]]]
<1>3. more \in Seq(Message) /\ Len(more) = n
  <2>1. \A i \in 1..n : more[i] \in Message
    <3> TAKE i \in 1..n
    <3>1. events[i] \in Event
      BY <1>0, <1>2, ElementOfSeq
    <3> QED BY <3>1 DEF Message
  <2>2. more \in [1..n -> Message]
    BY <2>1
  <2> HIDE DEF more
  <2> QED BY <1>0, <2>2
<1>4. \A i \in 1..n : more[i].type = "server_sent_event" /\ more[i].event = events[i]
  OBVIOUS
<1>5. sent' = old \o more
  BY <1>0 DEF ParseEvents
<1> HIDE DEF more
<1> PICK new : new = old \o more
  OBVIOUS
<1>6. AllOf({"server_sent_event"}, more)
  BY <1>3, <1>4 DEF AllOf
<1>7. AllOf({"server_sent_event"}, new)
  BY <1>1, <1>3, <1>6, AllOfConcat
<1>8. /\ new \in Seq(Message) /\ Len(new) = m + n
      /\ \A i \in 1..(m + n) : new[i] = IF i <= m THEN old[i] ELSE more[i - m]
  <2>1. /\ old \o more \in Seq(Message) /\ Len(old \o more) = Len(old) + Len(more)
        /\ \A i \in 1..(Len(old) + Len(more)) :
             (old \o more)[i] = IF i <= Len(old) THEN old[i] ELSE more[i - Len(old)]
    BY <1>1, <1>3, ConcatProperties
  <2> QED BY <1>0, <1>3, <2>1
<1>9. Dispatched = EventsIn(old) /\ Dispatched \in Seq(Event) /\ Dispatched' = EventsIn(new)
  <2>1. Dispatched = EventsIn(Chosen("server_sent_event", old)) /\ Dispatched \in Seq(Event)
    BY <1>1, DispatchedType
  <2>2. Dispatched' = EventsIn(Chosen("server_sent_event", new))
    BY <1>5 DEF Dispatched, EventsIn, Messages, Chosen
  <2>3. Chosen("server_sent_event", old) = old /\ Chosen("server_sent_event", new) = new
    BY <1>1, <1>7, <1>8, ChosenAll
  <2> QED BY <2>1, <2>2, <2>3
<1> PICK before \in Seq(Event) : before = EventsIn(old)
  BY <1>9
<1>10. Len(before) = m /\ \A i \in 1..m : before[i] = old[i].event
  <2>1. EventsIn(old) = [i \in 1..m |-> old[i].event]
    BY <1>0 DEF EventsIn
  <2> QED BY <1>0, <2>1
<1>11. /\ before \o events \in Seq(Event) /\ Len(before \o events) = m + n
       /\ \A i \in 1..(m + n) : (before \o events)[i] = IF i <= m THEN before[i] ELSE events[i - m]
  <2>1. /\ before \o events \in Seq(Event) /\ Len(before \o events) = Len(before) + Len(events)
        /\ \A i \in 1..(Len(before) + Len(events)) :
             (before \o events)[i] = IF i <= Len(before) THEN before[i] ELSE events[i - Len(before)]
    BY <1>2, ConcatProperties
  <2> QED BY <1>0, <1>10, <2>1
<1>12. EventsIn(new) \in Seq(Event) /\ Len(EventsIn(new)) = m + n
       /\ \A i \in 1..(m + n) : EventsIn(new)[i] = new[i].event
  <2>1. \A i \in 1..(m + n) : new[i].event \in Event
    <3> TAKE i \in 1..(m + n)
    <3>1. new[i] \in Message /\ new[i].type = "server_sent_event"
      BY <1>7, <1>8, ElementOfSeq DEF AllOf
    <3> QED BY <3>1 DEF Message
  <2>2. EventsIn(new) = [i \in 1..(m + n) |-> new[i].event]
    BY <1>8 DEF EventsIn
  <2>3. m + n \in Nat
    BY <1>0
  <2> DEFINE total == m + n
  <2>6. total \in Nat
    BY <2>3
  <2> HIDE DEF total
  <2>4. EventsIn(new) \in [1..total -> Event]
    BY <2>1, <2>2 DEF total
  <2>5. EventsIn(new) \in Seq(Event) /\ Len(EventsIn(new)) = total
    BY <2>4, <2>6
  <2> QED BY <2>2, <2>5 DEF total
<1>13. \A i \in 1..(m + n) : EventsIn(new)[i] = (before \o events)[i]
  <2> TAKE i \in 1..(m + n)
  <2>1. CASE i <= m
    <3>1. i \in 1..m
      BY <1>0, <2>1
    <3>2. EventsIn(new)[i] = old[i].event /\ (before \o events)[i] = before[i]
      BY <1>8, <1>11, <1>12, <2>1
    <3> QED BY <1>10, <3>1, <3>2
  <2>2. CASE ~(i <= m)
    <3>1. i - m \in 1..n
      BY <1>0, <2>2
    <3>2. EventsIn(new)[i] = more[i - m].event /\ (before \o events)[i] = events[i - m]
      BY <1>8, <1>11, <1>12, <2>2
    <3> QED BY <1>4, <3>1, <3>2
  <2> QED BY <2>1, <2>2
<1>14. EventsIn(new) = before \o events
  BY <1>11, <1>12, <1>13, SeqEqual
<1>15. AllOf({"server_sent_event"}, sent)'
  BY <1>5, <1>7
<1> QED BY <1>2, <1>9, <1>14, <1>15

-----------------------------------------------------------------------------
(* The events of a stream are kept *)

Streaming == response.desired_format = "ServerSentEvents" /\ Success

Remaining ==
  response.desired_format = "ServerSentEvents" => EndOf(rest, response.tokens)

(* The client is sent nothing but events before the end, or no events.     *)
OnlyEvents == Streaming /\ place # "finished" => AllOf({"server_sent_event"}, sent)

NoEvents ==
  ~Streaming =>
    whole = {} /\ AllOf({"response_chunk", "response_error", "response_finished"}, sent)

(* Every line after the first p tokens is of a later event than these.     *)
Before(events, S, p) ==
  \A i \in 1..Len(events) : \A l \in 1..Len(S) :
    l > p /\ ~IsLineEnd(S[l]) => events[i].event < S[l].of

Behind == Streaming => Before(Dispatched, response.tokens, Past)

EInv ==
  /\ IInv
  /\ Remaining
  /\ OnlyEvents
  /\ NoEvents
  /\ Behind
  /\ EventsKept

(* EventsKept without the state. *)
Kept(events, wholly) ==
  /\ \A i \in 1..Len(events) : events[i].event = events[i].data
  /\ Rising(events)
  /\ \A e \in wholly : Complete(e) => \E i \in 1..Len(events) : events[i].event = e

LEMMA EventsKeptIs == EventsKept <=> Kept(Dispatched, whole)
BY DEF EventsKept, Kept, Rising

LEMMA NothingDispatched ==
  ASSUME sent \in Seq(Message), AllOf({"response_chunk", "response_error", "response_finished"}, sent)
  PROVE  Dispatched = <<>>
<1>1. Chosen("server_sent_event", sent) = <<>>
  BY ChosenNone DEF AllOf
<1>2. EventsIn(<<>>) = <<>>
  <2>1. Len(<<>>) = 0
    BY EmptySeq
  <2> QED BY <2>1 DEF EventsIn
<1> QED BY <1>1, <1>2, DispatchedType

LEMMA NothingKept ==
  Kept(<<>>, {})
<1>1. Len(<<>>) = 0
  BY EmptySeq
<1> QED BY <1>1 DEF Kept, Rising

(* Without a stream there are no events. *)
LEMMA KeptWithout ==
  ASSUME sent \in Seq(Message), ~Streaming, NoEvents
  PROVE  Behind /\ EventsKept /\ OnlyEvents
<1>1. Dispatched = <<>> /\ whole = {}
  BY NothingDispatched DEF NoEvents
<1>2. EventsKept
  BY <1>1, EventsKeptIs, NothingKept
<1>3. Behind /\ OnlyEvents
  BY DEF Behind, OnlyEvents
<1> QED BY <1>2, <1>3

LEMMA InitEInv ==
  ASSUME Init
  PROVE  EInv
<1>1. IInv
  BY InitIInv
<1>2. sent \in Seq(Message) /\ rest \in Seq(Tokens)
  BY <1>1 DEF IInv, Handling
<1>3. Remaining
  <2>1. Len(rest) \in Nat /\ rest = response.tokens
    BY <1>2, LenProperties DEF Init
  <2>2. Len(response.tokens) - Len(rest) = 0 /\ \A i \in 1..Len(rest) : 0 + i = i
    BY <2>1
  <2>3. EndOf(rest, response.tokens)
    BY <2>1, <2>2 DEF EndOf
  <2> QED BY <2>3 DEF Remaining
<1>4. ~Streaming
  BY DEF Init, Streaming, Success, NoCode
<1>5. NoEvents
  <2>1. Len(<<>>) = 0
    BY EmptySeq
  <2> QED BY <2>1 DEF Init, NoEvents, AllOf
<1> QED BY <1>1, <1>2, <1>3, <1>4, <1>5, KeptWithout DEF EInv

(* A chunk of a stream: after it come later events.                        *)
LEMMA LaterEvents ==
  ASSUME NEW S \in Seq(Stream), IsStream(S), NEW p \in Nat, NEW n \in Nat, NEW e, EndsIn(S, p, n, e),
         NEW l \in 1..Len(S), ~IsLineEnd(S[l]), l >= p + n
  PROVE  e < S[l].of
<1>1. PICK m \in 1..n : p + m \in 1..Len(S) /\ IsBlank(S, p + m) /\ S[p + m].of = e
  BY DEF EndsIn
<1>2. p + m # l
  BY <1>1 DEF IsBlank
<1>3. p + m < l
  <2>1. m \in Nat /\ m <= n /\ l \in Int
    OBVIOUS
  <2> QED BY <1>2, <2>1
<1> QED BY <1>1, <1>3, AfterBlank

(* The events of the next chunk come after those dispatched. *)
LEMMA KeptMore ==
  ASSUME NEW S \in Seq(Stream), IsStream(S), NEW p \in Nat, NEW n \in Nat,
         NEW old \in Seq(Event), NEW new \in Seq(Event), NEW wholly, NEW more, Kept(old, wholly),
         Before(old, S, p), Yields(S, p, n, new, more),
         NEW q \in Nat, q >= p, q >= (p + n) - 1
  PROVE  Kept(old \o new, wholly \cup more) /\ Before(old \o new, S, q)
<1> DEFINE both == old \o new
           k == Len(old)
<1>1. k \in Nat /\ Len(new) \in Nat
  BY LenProperties
<1>2. /\ Len(both) = k + Len(new)
      /\ \A i \in 1..(k + Len(new)) : both[i] = IF i <= k THEN old[i] ELSE new[i - k]
  BY ConcatProperties
<1> HIDE DEF both, k
<1>3. \A i \in 1..Len(both) :
        \/ i \in 1..k /\ both[i] = old[i]
        \/ i > k /\ i - k \in 1..Len(new) /\ both[i] = new[i - k]
  <2> TAKE i \in 1..Len(both)
  <2>1. CASE i <= k
    <3>1. i \in 1..k
      BY <1>1, <2>1
    <3> QED BY <1>2, <2>1, <3>1
  <2>2. CASE ~(i <= k)
    <3>1. i > k /\ i - k \in 1..Len(new)
      BY <1>1, <1>2, <2>2
    <3> QED BY <1>2, <2>2, <3>1
  <2> QED BY <2>1, <2>2
<1>4. /\ \A i \in 1..k : i \in 1..Len(both) /\ both[i] = old[i]
      /\ \A i \in 1..Len(new) : k + i \in 1..Len(both) /\ both[k + i] = new[i]
  <2>1. \A i \in 1..k : i \in 1..Len(both) /\ i <= k /\ i \in 1..(k + Len(new))
    BY <1>1, <1>2
  <2>2. \A i \in 1..Len(new) :
          k + i \in 1..Len(both) /\ ~(k + i <= k) /\ (k + i) - k = i /\ k + i \in 1..(k + Len(new))
    BY <1>1, <1>2
  <2> QED BY <1>2, <2>1, <2>2
<1>5. ASSUME NEW i \in 1..k, NEW j \in 1..Len(new)
      PROVE  old[i].event < new[j].event
  <2>1. PICK m \in 1..n : /\ p + m \in 1..Len(S)
                         /\ \E l \in 1..m : ~IsLineEnd(S[p + l]) /\ S[p + l].of = new[j].event
    BY DEF Yields, EndsIn
  <2>2. PICK l \in 1..m : ~IsLineEnd(S[p + l]) /\ S[p + l].of = new[j].event
    BY <2>1
  <2>3. p + l \in 1..Len(S) /\ p + l > p
    <3>1. Len(S) \in Nat
      BY LenProperties
    <3> QED BY <2>1, <3>1
  <2> QED BY <2>2, <2>3 DEF k, Before
<1>6. \A i \in 1..Len(both) : both[i].event = both[i].data
  <2> TAKE i \in 1..Len(both)
  <2>1. \A j \in 1..k : old[j].event = old[j].data
    BY DEF Kept, k
  <2>2. CASE i \in 1..k /\ both[i] = old[i]
    BY <2>1, <2>2
  <2>3. CASE i - k \in 1..Len(new) /\ both[i] = new[i - k]
    BY <2>3 DEF Yields
  <2> QED BY <1>3, <2>2, <2>3
<1>7. Rising(both)
  <2> SUFFICES ASSUME NEW i \in 1..Len(both), NEW j \in 1..Len(both), i < j
               PROVE  both[i].event < both[j].event
    BY DEF Rising
  <2>1. CASE i \in 1..k /\ j \in 1..k
    <3>1. both[i] = old[i] /\ both[j] = old[j]
      BY <1>4, <2>1
    <3> QED BY <2>1, <3>1 DEF Kept, Rising, k
  <2>2. CASE i \in 1..k /\ ~(j \in 1..k)
    <3>1. both[i] = old[i] /\ j - k \in 1..Len(new) /\ both[j] = new[j - k]
      BY <1>3, <1>4, <2>2
    <3> QED BY <1>5, <2>2, <3>1
  <2>3. CASE ~(i \in 1..k)
    <3>1. i > k /\ i - k \in 1..Len(new) /\ both[i] = new[i - k]
      BY <1>3, <2>3
    <3>2. ~(j \in 1..k)
      BY <1>1, <3>1
    <3>3. j - k \in 1..Len(new) /\ both[j] = new[j - k]
      BY <1>3, <3>2
    <3>4. i - k < j - k
      BY <1>1
    <3> QED BY <3>1, <3>3, <3>4 DEF Yields, Rising
  <2> QED BY <2>1, <2>2, <2>3
<1>8. ASSUME NEW e \in wholly \cup more, Complete(e)
      PROVE  \E i \in 1..Len(both) : both[i].event = e
  <2>1. CASE e \in wholly
    <3>1. PICK i \in 1..k : old[i].event = e
      BY <1>8, <2>1 DEF Kept, k
    <3> QED BY <1>4, <3>1
  <2>2. CASE e \in more
    <3>1. PICK i \in 1..Len(new) : new[i].event = e
      BY <1>8, <2>2 DEF Yields
    <3> QED BY <1>4, <3>1
  <2> QED BY <2>1, <2>2
<1>9. ASSUME NEW i \in 1..Len(both), NEW l \in 1..Len(S), l > q, ~IsLineEnd(S[l])
      PROVE  both[i].event < S[l].of
  <2>0. l > p /\ l >= p + n
    BY <1>9
  <2>1. CASE i \in 1..k /\ both[i] = old[i]
    BY <1>9, <2>0, <2>1 DEF k, Before
  <2>2. CASE i - k \in 1..Len(new) /\ both[i] = new[i - k]
    <3>1. EndsIn(S, p, n, both[i].event)
      BY <2>2 DEF Yields
    <3> QED BY <1>9, <2>0, <3>1, LaterEvents
  <2> QED BY <1>3, <2>1, <2>2
<1>10. Kept(both, wholly \cup more)
  BY <1>6, <1>7, <1>8 DEF Kept
<1> QED BY <1>9, <1>10 DEF both, Before

(* Without a stream no event is sent. *)
LEMMA WithoutStreamSends ==
  ASSUME Handling, ~Streaming, AllOf({"response_chunk", "response_error", "response_finished"}, sent),
         NEW chunk \in Seq(Tokens), chunk # <<>>, Write(chunk)
  PROVE  AllOf({"response_chunk", "response_error", "response_finished"}, sent')
<1> DEFINE types == {"response_chunk", "response_error", "response_finished"}
<1>1. sent \in Seq(Message) /\ response.desired_format \in Format /\ emitter \in Emitter
  BY HandlerAssumption DEF Handling
<1>2. CASE Buffer(chunk)
  BY <1>2 DEF Buffer
<1>3. CASE Forward(chunk)
  <2>1. chunk \in Body
    BY TokensSubset, SeqMonotonic DEF Body
  <2>2. Chunk(chunk) \in Message /\ Chunk(chunk).type \in types
    BY <2>1 DEF Chunk, Message
  <2>3. <<Chunk(chunk)>> \in Seq(Message) /\ AllOf(types, <<Chunk(chunk)>>)
    BY <2>2 DEF AllOf
  <2>4. sent' = sent \o <<Chunk(chunk)>>
    BY <1>1, <1>3, <2>2, AppendIsConcat DEF Forward
  <2> HIDE DEF types
  <2>5. AllOf(types, sent \o <<Chunk(chunk)>>)
    BY <1>1, <2>3, AllOfConcat DEF types
  <2> QED BY <2>4, <2>5 DEF types
<1>4. CASE response.desired_format = "JsonPath" /\ ParsePath(chunk)
  <2>1. PICK more \in Seq(Message) : AllOf({"response_chunk"}, more) /\ sent' = sent \o more
    BY <1>4, ParsePathSends
  <2>2. AllOf(types, more)
    BY <2>1 DEF AllOf
  <2> HIDE DEF types
  <2>3. AllOf(types, sent \o more)
    BY <1>1, <2>2, AllOfConcat DEF types
  <2> QED BY <2>1, <2>3 DEF types
<1> QED BY <1>1, <1>2, <1>3, <1>4 DEF Write, Streaming, Format

LEMMA ChunkOfStream ==
  ASSUME EInv, IInv', Streaming,
         NEW n \in 1..Len(rest), NEW cut \in BOOLEAN, ReceiveChunk(n, cut)
  PROVE  EInv'
<1> PICK S : S = response.tokens
  OBVIOUS
<1> PICK chunk : chunk = ChunkOf(n, cut)
  OBVIOUS
<1> PICK p : p = Past
  OBVIOUS
<1> PICK old : old = Dispatched
  OBVIOUS
<1> PICK new : new = Dispatch(chunk, last_id).events
  OBVIOUS
<1>1. /\ place = "transfer" /\ (cut => Cuttable(rest[n])) /\ Parsed
      /\ response.desired_format = "ServerSentEvents" /\ Success
      /\ UNCHANGED <<response, place, response_code>>
  BY DEF ReceiveChunk, Streaming, Parsed
<1>2. /\ ParseEvents(chunk)
      /\ rest' = AfterChunk(n, cut)
      /\ whole' = whole \cup WholeIn(chunk)
  BY <1>1 DEF ReceiveChunk, ChunkOf, AfterChunk, Write
<1>3. Handling /\ response \in Response /\ rest \in Seq(Tokens) /\ last_id \in Nat /\ sent' \in Seq(Message)
  BY DEF EInv, IInv, Handling
<1>4. S \in Seq(Stream) /\ IsStream(S) /\ chunk \in Seq(Stream) /\ Len(chunk) = n /\ n \in Nat
  <2>1. chunk \in Seq(Tokens) /\ Len(chunk) = n /\ n \in Nat
    BY <1>1, <1>3, ChunkFacts
  <2>2. Tokens = Stream
    BY <1>1 DEF Tokens
  <2>3. S \in Seq(Stream) /\ IsStream(S)
    BY <1>1, <1>3, HandlerAssumption DEF Stream
  <2> QED BY <2>1, <2>2, <2>3
<1>5. EndOf(rest, S)
  BY <1>1 DEF EInv, Remaining
<1>6. /\ p \in Nat /\ PartOf(chunk, S, p)
      /\ EndOf(AfterChunk(n, cut), S)
      /\ Len(S) - Len(AfterChunk(n, cut)) = IF cut THEN (p + n) - 1 ELSE p + n
  BY <1>1, <1>3, <1>4, <1>5, ChunkIsPart
<1>7. AllOf({"server_sent_event"}, sent)
  BY <1>1 DEF EInv, OnlyEvents, Streaming
<1>8. /\ AllOf({"server_sent_event"}, sent)'
      /\ new \in Seq(Event) /\ old \in Seq(Event)
      /\ Dispatched' = old \o new
  BY <1>2, <1>3, <1>4, <1>7, ParseEventsSends
<1>9. Yields(S, p, n, new, WholeIn(chunk))
  <2>1. Yields(S, p, Len(chunk), new, WholeIn(chunk))
    BY <1>3, <1>4, <1>6, <1>8, DispatchedOfPart
  <2> QED BY <1>4, <2>1
<1>10. Kept(old, whole)
  BY EventsKeptIs DEF EInv
<1>11. Before(old, S, p)
  BY DEF EInv, Behind
<1> PICK q : q = Len(S) - Len(AfterChunk(n, cut))
  OBVIOUS
<1>12. Kept(old \o new, whole \cup WholeIn(chunk)) /\ Before(old \o new, S, q)
  <2>1. S \in Seq(Stream) /\ IsStream(S) /\ p \in Nat /\ n \in Nat /\ old \in Seq(Event) /\ new \in Seq(Event)
    BY <1>4, <1>6, <1>8
  <2>2. q \in Nat /\ q >= p /\ q >= (p + n) - 1
    <3>1. n >= 1
      BY <1>4
    <3>2. q = (p + n) - 1 \/ q = p + n
      BY <1>6
    <3> QED BY <2>1, <3>1, <3>2
  <2> QED BY <1>9, <1>10, <1>11, <2>1, <2>2, KeptMore
<1> PICK both : both = old \o new
  OBVIOUS
<1>13. Dispatched' = both /\ whole' = whole \cup WholeIn(chunk) /\ response' = response
  BY <1>1, <1>2, <1>8
<1>14. EventsKept'
  <2>1. Kept(Dispatched, whole)'
    <3>1. \A e : Complete(e)' <=> Complete(e)
      BY <1>13 DEF Complete
    <3> QED BY <1>12, <1>13, <3>1 DEF Kept
  <2> QED BY <2>1 DEF EventsKept, Kept, Rising
<1>15. Streaming' /\ place' # "finished"
  BY <1>1 DEF Streaming, Success
<1>16. Behind'
  <2>1. Past' = q
    BY <1>2, <1>13 DEF Past
  <2> QED BY <1>12, <1>13, <2>1 DEF Behind
<1>17. Remaining' /\ OnlyEvents' /\ NoEvents'
  BY <1>2, <1>6, <1>8, <1>13, <1>15 DEF Remaining, OnlyEvents, NoEvents
<1> QED BY <1>14, <1>16, <1>17 DEF EInv

(* Without a stream: whatever is left of the body, no event is sent. *)
LEMMA ChunkWithoutStream ==
  ASSUME EInv, IInv', ~Streaming,
         NEW n \in 1..Len(rest), NEW cut \in BOOLEAN, ReceiveChunk(n, cut)
  PROVE  EInv'
<1> PICK chunk : chunk = ChunkOf(n, cut)
  OBVIOUS
<1>1. (cut => Cuttable(rest[n])) /\ UNCHANGED <<response, place, response_code>>
  BY DEF ReceiveChunk
<1>2. Write(chunk) /\ rest' = AfterChunk(n, cut) /\ whole' = whole
  BY DEF ReceiveChunk, ChunkOf, AfterChunk, Streaming, Parsed
<1>3. Handling /\ response \in Response /\ rest \in Seq(Tokens) /\ sent' \in Seq(Message)
  BY DEF EInv, IInv, Handling
<1>4. chunk \in Seq(Tokens) /\ chunk # <<>>
  <2>1. chunk \in Seq(Tokens) /\ Len(chunk) = n /\ n # 0
    BY <1>1, <1>3, ChunkFacts
  <2> QED BY <2>1, EmptySeq
<1>5. whole = {} /\ AllOf({"response_chunk", "response_error", "response_finished"}, sent)
  BY DEF EInv, NoEvents
<1>6. AllOf({"response_chunk", "response_error", "response_finished"}, sent')
  BY <1>2, <1>3, <1>4, <1>5, WithoutStreamSends
<1>7. ~Streaming'
  BY <1>1 DEF Streaming, Success
<1>8. NoEvents'
  BY <1>2, <1>5, <1>6 DEF NoEvents
<1>9. Remaining'
  <2> SUFFICES ASSUME response.desired_format = "ServerSentEvents"
               PROVE  EndOf(AfterChunk(n, cut), response.tokens)
    BY <1>1, <1>2 DEF Remaining
  <2>1. response.tokens \in Seq(Stream) /\ EndOf(rest, response.tokens)
    BY <1>3, HandlerAssumption DEF Stream, EInv, Remaining
  <2> QED BY <1>1, <1>3, <2>1, ChunkIsPart
<1>10. Behind' /\ EventsKept' /\ OnlyEvents'
  <2>1. (sent \in Seq(Message))' /\ ~Streaming' /\ NoEvents'
    BY <1>3, <1>7, <1>8
  <2>2. sent \in Seq(Message) /\ ~Streaming /\ NoEvents => Behind /\ EventsKept /\ OnlyEvents
    BY KeptWithout
  <2> QED BY <2>1, KeptWithout, PTL
<1> QED BY <1>8, <1>9, <1>10 DEF EInv

(* A step that sends nothing and leaves the stream where it is. *)
LEMMA QuietStep ==
  ASSUME EInv, IInv', UNCHANGED <<response, rest, response_code, sent, whole>>,
         place' = "transfer" \/ place' = "done" \/ place' = place, place # "finished" \/ place' = place
  PROVE  EInv'
<1>1. /\ Dispatched' = Dispatched /\ Past' = Past /\ (Streaming' <=> Streaming)
      /\ response' = response /\ rest' = rest /\ sent' = sent /\ whole' = whole
  BY DEF Dispatched, Messages, Past, Streaming, Success
<1>2. Remaining' /\ NoEvents' /\ Behind'
  BY <1>1 DEF EInv, Remaining, NoEvents, Behind
<1>3. OnlyEvents'
  BY <1>1 DEF EInv, OnlyEvents
<1>4. EventsKept'
  BY <1>1 DEF EInv, EventsKept, Complete
<1> QED BY <1>2, <1>3, <1>4 DEF EInv

LEMMA StatusKeeps ==
  ASSUME EInv, IInv', NEW code \in response.codes, ReceiveStatus(code)
  PROVE  EInv'
<1>1. /\ response_code < 0 /\ place = "transfer"
      /\ UNCHANGED <<response, rest, place, sent, whole>>
  BY DEF ReceiveStatus, history
<1>2. sent = <<>>
  BY <1>1 DEF EInv, IInv, NothingYet
<1>3. ~Streaming
  <2>1. response_code \in Int
    BY CodeFacts DEF EInv, IInv, Handling
  <2> QED BY <1>1, <2>1 DEF Streaming, Success
<1>4. whole = {} /\ Dispatched = <<>> /\ sent \in Seq(Message)
  <2>1. sent \in Seq(Message)
    BY DEF EInv, IInv, Handling
  <2>2. AllOf({"response_chunk", "response_error", "response_finished"}, sent) /\ whole = {}
    BY <1>3 DEF EInv, NoEvents
  <2> QED BY <2>1, <2>2, NothingDispatched
<1>5. Dispatched' = <<>> /\ whole' = {} /\ sent' = <<>> /\ Len(<<>>) = 0
  <2>1. Dispatched' = Dispatched
    BY <1>1 DEF Dispatched, Messages
  <2> QED BY <1>1, <1>2, <1>4, <2>1, EmptySeq
<1>6. Remaining'
  BY <1>1 DEF EInv, Remaining
<1>7. OnlyEvents' /\ NoEvents' /\ Behind'
  BY <1>5 DEF OnlyEvents, NoEvents, Behind, AllOf, Before
<1>8. EventsKept'
  BY <1>5 DEF EventsKept
<1> QED BY <1>6, <1>7, <1>8 DEF EInv

LEMMA RetryKeeps ==
  ASSUME EInv, IInv', Retry
  PROVE  EInv'
<1>1. /\ response_code < 0 \/ response_code >= 500
      /\ rest' = response.tokens
      /\ UNCHANGED <<response, response_code, sent, whole>>
  BY DEF Retry, WillRetry, history
<1>2. ~Streaming /\ ~Streaming'
  <2>1. response_code \in Int
    BY CodeFacts DEF EInv, IInv, Handling
  <2> QED BY <1>1, <2>1 DEF Streaming, Success
<1>3. NoEvents' /\ (sent \in Seq(Message))'
  BY <1>1, <1>2 DEF EInv, NoEvents, IInv, Handling
<1>4. Remaining'
  <2>1. Len(response.tokens) \in Nat
    BY HandlerAssumption, LenProperties DEF EInv, IInv, Handling
  <2>2. Len(response.tokens) - Len(response.tokens) = 0 /\ \A i \in 1..Len(response.tokens) : 0 + i = i
    BY <2>1
  <2>3. EndOf(response.tokens, response.tokens)
    BY <2>1, <2>2 DEF EndOf
  <2> QED BY <1>1, <2>3 DEF Remaining
<1>5. Behind' /\ EventsKept' /\ OnlyEvents'
  BY <1>2, <1>3, KeptWithout, PTL
<1> QED BY <1>3, <1>4, <1>5 DEF EInv

LEMMA FinishKeeps ==
  ASSUME EInv, IInv', Finish
  PROVE  EInv'
<1>1. /\ place' = "finished"
      /\ UNCHANGED <<response, rest, response_code, whole>>
  BY DEF Finish, history
<1>2. Handling /\ sent \in Seq(Message) /\ response_code \in Int /\ response_buffer \in Body
  BY CodeFacts DEF EInv, IInv, Handling
<1>3. PICK before \in Seq(Message) :
        /\ before = sent \/ before = Append(sent, Error)
        /\ sent' = Append(before, Final)
  BY <1>2, FinishSends DEF EInv, IInv
<1>4. Final \in Message /\ Error \in Message /\ Final.type = "response_finished" /\ Error.type = "response_error"
  BY <1>2 DEF Final, Error, Message
<1>5. Chosen("server_sent_event", sent') = Chosen("server_sent_event", sent)
  <2>1. Chosen("server_sent_event", before) = Chosen("server_sent_event", sent)
    <3>1. CASE before = sent
      BY <3>1
    <3>2. CASE before = Append(sent, Error)
      BY <1>2, <1>4, <3>2, ChosenAppend DEF Choose
    <3> QED BY <1>3, <3>1, <3>2
  <2>2. Chosen("server_sent_event", Append(before, Final)) = Chosen("server_sent_event", before)
    BY <1>4, ChosenAppend DEF Choose
  <2> QED BY <1>3, <2>1, <2>2
<1>6. Dispatched' = Dispatched
  BY <1>5 DEF Dispatched, Messages, Chosen
<1>7. Past' = Past /\ (Streaming' <=> Streaming)
  BY <1>1 DEF Past, Streaming, Success
<1>8. Remaining' /\ OnlyEvents' /\ Behind'
  BY <1>1, <1>6, <1>7 DEF EInv, Remaining, OnlyEvents, Behind
<1>9. NoEvents'
  <2> DEFINE types == {"response_chunk", "response_error", "response_finished"}
  <2> SUFFICES ASSUME ~Streaming PROVE whole = {} /\ AllOf(types, sent')
    BY <1>1, <1>7 DEF NoEvents
  <2>1. whole = {} /\ AllOf(types, sent)
    BY DEF EInv, NoEvents
  <2>2. /\ <<Error>> \in Seq(Message) /\ AllOf(types, <<Error>>)
        /\ <<Final>> \in Seq(Message) /\ AllOf(types, <<Final>>)
    BY <1>4 DEF AllOf
  <2> HIDE DEF types
  <2>3. AllOf(types, before)
    <3>1. CASE before = sent
      BY <2>1, <3>1
    <3>2. CASE before = Append(sent, Error)
      <4>1. before = sent \o <<Error>>
        BY <1>2, <1>4, <3>2, AppendIsConcat
      <4> QED BY <1>2, <2>1, <2>2, <4>1, AllOfConcat
    <3> QED BY <1>3, <3>1, <3>2
  <2>4. Append(before, Final) = before \o <<Final>>
    BY <1>4, AppendIsConcat
  <2>5. AllOf(types, before \o <<Final>>)
    BY <2>2, <2>3, AllOfConcat
  <2> QED BY <1>3, <2>1, <2>4, <2>5
<1>10. EventsKept'
  BY <1>1, <1>6 DEF EInv, EventsKept, Complete
<1> QED BY <1>8, <1>9, <1>10 DEF EInv

LEMMA KeepingStep ==
  ASSUME EInv, [Next]_vars
  PROVE  EInv'
<1>0. IInv'
  BY HandlerStep DEF EInv
<1>1. ASSUME NEW code \in response.codes, ReceiveStatus(code) PROVE EInv'
  BY <1>0, <1>1, StatusKeeps
<1>2. ASSUME NEW n \in 1..Len(rest), NEW cut \in BOOLEAN, ReceiveChunk(n, cut) PROVE EInv'
  BY <1>0, <1>2, ChunkOfStream, ChunkWithoutStream
<1>3. CASE TransferEnds
  BY <1>0, <1>3, QuietStep DEF TransferEnds, history
<1>4. CASE Retry
  BY <1>0, <1>4, RetryKeeps
<1>5. CASE Finish
  BY <1>0, <1>5, FinishKeeps
<1>6. CASE UNCHANGED vars
  BY <1>0, <1>6, QuietStep DEF vars, history
<1> QED BY <1>1, <1>2, <1>3, <1>4, <1>5, <1>6 DEF Next

(* However a stream is cut, what is dispatched is no event of two, nor one *)
(* twice or out of order, and every complete event that came in one chunk. *)
THEOREM DispatchedEventsKept == Spec => []EventsKept
<1>1. Init => EInv
  BY InitEInv
<1>2. EInv /\ [Next]_vars => EInv'
  BY KeepingStep
<1>3. EInv => EventsKept
  BY DEF EInv
<1> QED BY <1>1, <1>2, <1>3, PTL DEF Spec

-----------------------------------------------------------------------------
(* Where a value is in a document *)

(* One more number counts if it is one of those counted. *)
LEMMA CountOneMore ==
  ASSUME NEW n \in Nat \ {0}, NEW T
  PROVE  Cardinality({j \in 1..n : j \in T})
           = Cardinality({j \in 1..(n - 1) : j \in T}) + (IF n \in T THEN 1 ELSE 0)
<1> DEFINE old == {j \in 1..(n - 1) : j \in T}
           new == {j \in 1..n : j \in T}
<1>1. IsFiniteSet(old) /\ Cardinality(old) \in Nat
  <2>1. IsFiniteSet(1..(n - 1))
    BY FS_Interval
  <2>2. IsFiniteSet(old)
    BY <2>1, FS_Subset
  <2> QED BY <2>2, FS_CardinalityType
<1>2. CASE n \in T
  <2>1. new = old \cup {n} /\ n \notin old
    BY <1>2
  <2>2. Cardinality(new) = Cardinality(old) + 1
    <3> HIDE DEF old, new
    <3> QED BY <1>1, <2>1, FS_AddElement
  <2> QED BY <1>2, <2>2
<1>3. CASE n \notin T
  <2>1. new = old
    BY <1>3
  <2> QED BY <1>1, <1>3, <2>1
<1> QED BY <1>2, <1>3

(* A count is a number. *)
LEMMA CountType ==
  ASSUME NEW n \in Nat, NEW T
  PROVE  Cardinality({j \in 1..n : j \in T}) \in Nat
<1>1. IsFiniteSet(1..n)
  BY FS_Interval
<1>2. IsFiniteSet({j \in 1..n : j \in T})
  BY <1>1, FS_Subset
<1> QED BY <1>2, FS_CardinalityType

(* The depth after one token more. *)
LEMMA DepthStep ==
  ASSUME NEW tokens, NEW n \in Nat \ {0}
  PROVE  /\ Depth(tokens, n) \in Int /\ Depth(tokens, n - 1) \in Int
         /\ Opens(tokens[n]) => Depth(tokens, n) = Depth(tokens, n - 1) + 1
         /\ Closes(tokens[n]) => Depth(tokens, n) = Depth(tokens, n - 1) - 1
         /\ ~Opens(tokens[n]) /\ ~Closes(tokens[n]) => Depth(tokens, n) = Depth(tokens, n - 1)
<1> DEFINE O == {j \in 1..n : Opens(tokens[j])}
           C == {j \in 1..n : Closes(tokens[j])}
<1>1. /\ {j \in 1..n : Opens(tokens[j])} = {j \in 1..n : j \in O}
      /\ {j \in 1..(n - 1) : Opens(tokens[j])} = {j \in 1..(n - 1) : j \in O}
      /\ {j \in 1..n : Closes(tokens[j])} = {j \in 1..n : j \in C}
      /\ {j \in 1..(n - 1) : Closes(tokens[j])} = {j \in 1..(n - 1) : j \in C}
  OBVIOUS
<1>2. (n \in O <=> Opens(tokens[n])) /\ (n \in C <=> Closes(tokens[n]))
  OBVIOUS
<1> HIDE DEF O, C
<1>3. /\ Cardinality({j \in 1..n : j \in O})
           = Cardinality({j \in 1..(n - 1) : j \in O}) + (IF n \in O THEN 1 ELSE 0)
      /\ Cardinality({j \in 1..n : j \in C})
           = Cardinality({j \in 1..(n - 1) : j \in C}) + (IF n \in C THEN 1 ELSE 0)
  BY CountOneMore
<1>4. /\ Cardinality({j \in 1..(n - 1) : j \in O}) \in Nat
      /\ Cardinality({j \in 1..(n - 1) : j \in C}) \in Nat
  <2>1. n - 1 \in Nat
    OBVIOUS
  <2> QED BY <2>1, CountType
<1>5. ~(Opens(tokens[n]) /\ Closes(tokens[n]))
  BY DEF Opens, Closes
<1> PICK o, c, p, d : /\ o = Cardinality({j \in 1..(n - 1) : j \in O})
                      /\ c = Cardinality({j \in 1..(n - 1) : j \in C})
                      /\ p = Cardinality({j \in 1..n : j \in O})
                      /\ d = Cardinality({j \in 1..n : j \in C})
  OBVIOUS
<1>6. Depth(tokens, n) = p - d /\ Depth(tokens, n - 1) = o - c
  BY <1>1 DEF Depth
<1>7. /\ o \in Nat /\ c \in Nat
      /\ p = o + (IF Opens(tokens[n]) THEN 1 ELSE 0)
      /\ d = c + (IF Closes(tokens[n]) THEN 1 ELSE 0)
  BY <1>2, <1>3, <1>4
<1> QED BY <1>5, <1>6, <1>7

(* At the beginning nothing is open. *)
LEMMA DepthZero ==
  ASSUME NEW tokens
  PROVE  Depth(tokens, 0) = 0
<1>1. {j \in 1..0 : Opens(tokens[j])} = {} /\ {j \in 1..0 : Closes(tokens[j])} = {}
  OBVIOUS
<1> QED BY <1>1, FS_EmptySet DEF Depth

(* A depth is a whole number. *)
LEMMA DepthType ==
  ASSUME NEW tokens, NEW n \in Nat
  PROVE  Depth(tokens, n) \in Int
<1>1. CASE n = 0
  BY <1>1, DepthZero
<1>2. CASE n # 0
  BY <1>2, DepthStep
<1> QED BY <1>1, <1>2

Enters(token) == Opens(token) \/ token.type = "key"

EntryOf(token) == IF token.type = "[" THEN Item ELSE token.key

(* A component changes only with a token that enters its depth. *)
LEMMA ComponentStep ==
  ASSUME NEW tokens, NEW n \in Nat \ {0}, NEW depth
  PROVE  ComponentAt(tokens, n, depth)
           = IF Enters(tokens[n]) /\ Depth(tokens, n) = depth
             THEN EntryOf(tokens[n]) ELSE ComponentAt(tokens, n - 1, depth)
<1>1. CASE Enters(tokens[n]) /\ Depth(tokens, n) = depth
  <2> PICK S : S = Entries(tokens, n, depth)
    OBVIOUS
  <2>1. n \in S /\ \A j \in S : j \in Int /\ n >= j
    BY <1>1 DEF Entries, Enters
  <2> PICK m : m = Max(S)
    OBVIOUS
  <2>2. m \in S /\ \A j \in S : m >= j
    BY <2>1 DEF Max
  <2>3. Max(S) = n
    <3>1. m \in 1..n
      BY <2>2 DEF Entries
    <3>2. m >= n
      BY <2>1, <2>2
    <3> QED BY <3>1, <3>2
  <2> QED BY <1>1, <2>3 DEF ComponentAt, EntryOf
<1>2. CASE ~(Enters(tokens[n]) /\ Depth(tokens, n) = depth)
  <2>1. Entries(tokens, n, depth) = Entries(tokens, n - 1, depth)
    BY <1>2 DEF Entries, Enters
  <2> QED BY <1>2, <2>1 DEF ComponentAt
<1> QED BY <1>1, <1>2

(* What a sequence is that agrees with another up to its end. *)
LEMMA IsAppend ==
  ASSUME NEW X, NEW p \in Seq(X), NEW q \in Seq(X), NEW x \in X,
         Len(q) = Len(p) + 1, \A d \in 1..Len(p) : q[d] = p[d], q[Len(p) + 1] = x
  PROVE  q = Append(p, x)
<1> PICK n \in Nat : n = Len(p)
  BY LenProperties
<1> PICK r : r = Append(p, x)
  OBVIOUS
<1>1. r \in Seq(X) /\ Len(r) = n + 1 /\ r[n + 1] = x /\ \A d \in 1..n : r[d] = p[d]
  BY AppendProperties
<1>2. \A d \in 1..(n + 1) : q[d] = r[d]
  <2> TAKE d \in 1..(n + 1)
  <2>1. CASE d = n + 1
    BY <1>1, <2>1
  <2>2. CASE d # n + 1
    <3>1. d \in 1..n
      BY <2>2
    <3> QED BY <1>1, <3>1
  <2> QED BY <2>1, <2>2
<1>3. q = r
  <2>1. Len(q) = Len(r) /\ \A d \in 1..Len(q) : q[d] = r[d]
    BY <1>1, <1>2
  <2> QED BY <1>1, <2>1, SeqEqual
<1> QED BY <1>3

(* All but the last element. *)
LEMMA FrontProperties ==
  ASSUME NEW X, NEW p \in Seq(X), Len(p) > 0
  PROVE  /\ Front(p) \in Seq(X) /\ Len(Front(p)) = Len(p) - 1
         /\ \A d \in 1..(Len(p) - 1) : Front(p)[d] = p[d]
<1> PICK n \in Nat : n = Len(p)
  BY LenProperties
<1>1. \A d \in 1..(n - 1) : p[d] \in X
  BY ElementOfSeq
<1>2. /\ SubSeq(p, 1, n - 1) \in Seq(X)
      /\ Len(SubSeq(p, 1, n - 1)) = IF 1 <= n - 1 THEN (n - 1) - 1 + 1 ELSE 0
      /\ \A d \in 1..((n - 1) - 1 + 1) : SubSeq(p, 1, n - 1)[d] = p[1 + d - 1]
  BY <1>1, SubSeqProperties
<1>3. \A d \in 1..(n - 1) : SubSeq(p, 1, n - 1)[d] = p[d]
  BY <1>2
<1> QED BY <1>2, <1>3 DEF Front

(* The path after one token more. *)
LEMMA PathStep ==
  ASSUME NEW tokens, NEW n \in Nat \ {0}, Depth(tokens, n - 1) >= 0
  PROVE  LET before == PathAt(tokens, n - 1) IN
         /\ tokens[n].type = "{" => PathAt(tokens, n) = Append(before, tokens[n].key)
         /\ tokens[n].type = "[" => PathAt(tokens, n) = Append(before, Item)
         /\ tokens[n].type = "key" /\ Depth(tokens, n - 1) > 0 =>
              PathAt(tokens, n) = Append(Front(before), tokens[n].key)
         /\ Closes(tokens[n]) /\ Depth(tokens, n - 1) > 0 => PathAt(tokens, n) = Front(before)
         /\ ~Enters(tokens[n]) /\ ~Closes(tokens[n]) => PathAt(tokens, n) = before
<1> PICK p, q : p = PathAt(tokens, n - 1) /\ q = PathAt(tokens, n)
  OBVIOUS
<1> PICK D \in Nat : D = Depth(tokens, n - 1)
  BY DepthStep
<1> PICK E \in Int : E = Depth(tokens, n)
  BY DepthStep
<1> DEFINE X == {ComponentAt(tokens, n - 1, d) : d \in Int} \cup {ComponentAt(tokens, n, d) : d \in Int}
                  \cup {EntryOf(tokens[n])}
<1>1. /\ Opens(tokens[n]) => E = D + 1
      /\ Closes(tokens[n]) => E = D - 1
      /\ ~Opens(tokens[n]) /\ ~Closes(tokens[n]) => E = D
  BY DepthStep
<1>2. /\ p = [d \in 1..D |-> ComponentAt(tokens, n - 1, d)]
      /\ q = [d \in 1..E |-> ComponentAt(tokens, n, d)]
  BY DEF PathAt
<1>3. /\ \A d \in Int : ComponentAt(tokens, n - 1, d) \in X /\ ComponentAt(tokens, n, d) \in X
      /\ EntryOf(tokens[n]) \in X
  OBVIOUS
<1> HIDE DEF X
<1>4. p \in Seq(X) /\ Len(p) = D /\ \A d \in 1..D : p[d] = ComponentAt(tokens, n - 1, d)
  BY <1>2, <1>3
<1>5. ASSUME E >= 0 PROVE q \in Seq(X) /\ Len(q) = E /\ \A d \in 1..E : q[d] = ComponentAt(tokens, n, d)
  BY <1>2, <1>3, <1>5
<1>6. \A d \in Int : ComponentAt(tokens, n, d)
                       = IF Enters(tokens[n]) /\ E = d THEN EntryOf(tokens[n])
                         ELSE ComponentAt(tokens, n - 1, d)
  BY ComponentStep
<1>7. CASE Opens(tokens[n])
  <2>1. E = D + 1 /\ Enters(tokens[n])
    BY <1>1, <1>7 DEF Enters
  <2>2. /\ q \in Seq(X) /\ Len(q) = D + 1 /\ q[D + 1] = EntryOf(tokens[n])
        /\ \A d \in 1..D : q[d] = p[d]
    BY <1>4, <1>5, <1>6, <2>1
  <2>3. q = Append(p, EntryOf(tokens[n]))
    BY <1>3, <1>4, <2>2, IsAppend
  <2> QED BY <1>7, <2>3 DEF EntryOf, Opens, Enters, Closes
<1>8. CASE tokens[n].type = "key"
  <2>1. E = D /\ Enters(tokens[n]) /\ ~Opens(tokens[n]) /\ ~Closes(tokens[n])
    BY <1>1, <1>8 DEF Enters, Opens, Closes
  <2>2. ASSUME D > 0 PROVE q = Append(Front(p), tokens[n].key)
    <3>1. /\ q \in Seq(X) /\ Len(q) = D /\ q[D] = EntryOf(tokens[n])
          /\ \A d \in 1..(D - 1) : q[d] = p[d]
      BY <1>4, <1>5, <1>6, <2>1, <2>2
    <3> PICK f : f = Front(p)
      OBVIOUS
    <3>2. f \in Seq(X) /\ Len(f) = D - 1 /\ \A d \in 1..(D - 1) : f[d] = p[d]
      BY <1>4, <2>2, FrontProperties
    <3>3. Len(q) = Len(f) + 1 /\ q[Len(f) + 1] = EntryOf(tokens[n]) /\ \A d \in 1..Len(f) : q[d] = f[d]
      BY <2>2, <3>1, <3>2
    <3>4. q = Append(f, EntryOf(tokens[n]))
      BY <1>3, <3>1, <3>2, <3>3, IsAppend
    <3> QED BY <1>8, <3>4 DEF EntryOf
  <2> QED BY <1>8, <2>1, <2>2
<1>9. CASE Closes(tokens[n])
  <2>1. E = D - 1 /\ ~Enters(tokens[n])
    BY <1>1, <1>9 DEF Enters, Opens, Closes
  <2>2. ASSUME D > 0 PROVE q = Front(p)
    <3>1. q \in Seq(X) /\ Len(q) = D - 1 /\ \A d \in 1..(D - 1) : q[d] = p[d]
      BY <1>4, <1>5, <1>6, <2>1, <2>2
    <3> PICK f : f = Front(p)
      OBVIOUS
    <3>2. f \in Seq(X) /\ Len(f) = D - 1 /\ \A d \in 1..(D - 1) : f[d] = p[d]
      BY <1>4, <2>2, FrontProperties
    <3>3. q = f
      <4>1. Len(q) = Len(f) /\ \A d \in 1..Len(q) : q[d] = f[d]
        BY <3>1, <3>2
      <4> QED BY <3>1, <3>2, <4>1, SeqEqual
    <3> QED BY <3>3
  <2> QED BY <1>9, <2>1, <2>2 DEF Enters, Opens, Closes
<1>10. CASE ~Enters(tokens[n]) /\ ~Closes(tokens[n])
  <2>1. E = D
    BY <1>1, <1>10 DEF Enters
  <2>2. q = p
    BY <1>2, <1>6, <1>10, <2>1
  <2> QED BY <1>10, <2>2 DEF Enters, Opens, Closes
<1> QED BY <1>7, <1>8, <1>9, <1>10 DEF Enters

(* In a document depths are natural, and keys and ends come inside         *)
(* something.                                                              *)
LEMMA DocumentFacts ==
  ASSUME NEW tokens \in Seq(Piece), IsDocument(tokens), NEW n \in 0..Len(tokens)
  PROVE  /\ Depth(tokens, n) \in Nat
         /\ n > 0 /\ (Closes(tokens[n]) \/ tokens[n].type = "key") => Depth(tokens, n - 1) > 0
<1>1. \A i \in 0..Len(tokens) : Depth(tokens, i) \in Nat /\ (i # 0 /\ i # Len(tokens) => Depth(tokens, i) > 0)
  <2> TAKE i \in 0..Len(tokens)
  <2>1. Depth(tokens, i) \in Int
    BY DepthType
  <2>2. CASE i = 0
    BY <2>2, DepthZero
  <2>3. CASE i = Len(tokens)
    BY <2>1, <2>3, DepthZero DEF IsDocument
  <2>4. CASE i # 0 /\ i # Len(tokens)
    <3>1. i \in 1..(Len(tokens) - 1)
      BY <2>4, LenProperties
    <3> QED BY <2>1, <2>4, <3>1 DEF IsDocument
  <2> QED BY <2>2, <2>3, <2>4
<1>2. ASSUME n > 0, Closes(tokens[n]) \/ tokens[n].type = "key"
      PROVE  Depth(tokens, n - 1) > 0
  <2>0. n \in Nat \ {0} /\ Len(tokens) \in Nat /\ n \in 1..Len(tokens)
    BY <1>2, LenProperties
  <2>1. CASE n = 1
    <3>1. tokens[n].type # "key"
      BY <2>0, <2>1 DEF IsDocument
    <3>2. Depth(tokens, 1) = Depth(tokens, 0) - 1
      BY <1>2, <2>1, <3>1, DepthStep
    <3>3. Depth(tokens, 1) \in Nat
      BY <1>1, <2>0, <2>1
    <3> QED BY <3>2, <3>3, DepthZero
  <2>2. CASE n # 1
    <3>1. n - 1 \in 0..Len(tokens) /\ n - 1 # 0 /\ n - 1 # Len(tokens)
      BY <2>0, <2>2
    <3> QED BY <1>1, <3>1
  <2> QED BY <2>1, <2>2
<1> QED BY <1>1, <1>2

(* A path is as long as the value is deep. *)
LEMMA PathLength ==
  ASSUME NEW tokens, NEW n \in Nat, Depth(tokens, n) >= 0, NEW X, PathAt(tokens, n) \in Seq(X)
  PROVE  Len(PathAt(tokens, n)) = Depth(tokens, n)
<1>1. Depth(tokens, n) \in Nat
  BY DepthType
<1> PICK D \in Nat : D = Depth(tokens, n)
  BY <1>1
<1>2. DOMAIN PathAt(tokens, n) = 1..D
  BY DEF PathAt
<1>3. DOMAIN PathAt(tokens, n) = 1..Len(PathAt(tokens, n)) /\ Len(PathAt(tokens, n)) \in Nat
  BY LenProperties
<1> QED BY <1>2, <1>3

-----------------------------------------------------------------------------
(* Prefixes of paths *)

(* Prefixes, element by element. *)
LEMMA PrefixIs ==
  ASSUME NEW X, NEW s \in Seq(X), NEW t \in Seq(X)
  PROVE  /\ IsPrefix(s, t) <=> Len(s) <= Len(t) /\ \A d \in 1..Len(s) : s[d] = t[d]
         /\ IsStrictPrefix(s, t) <=> Len(s) < Len(t) /\ \A d \in 1..Len(s) : s[d] = t[d]
<1> PICK m \in Nat : m = Len(s)
  BY LenProperties
<1> PICK n \in Nat : n = Len(t)
  BY LenProperties
<1>1. SubSeq(s, 1, m) = s
  BY SubSeqFull
<1>2. ASSUME m <= n
      PROVE  SubSeq(s, 1, m) = SubSeq(t, 1, m) <=> \A d \in 1..m : s[d] = t[d]
  <2> PICK r : r = SubSeq(t, 1, m)
    OBVIOUS
  <2>1. r \in Seq(X) /\ Len(r) = m /\ \A d \in 1..m : r[d] = t[d]
    <3>1. \A d \in 1..m : t[d] \in X
      BY <1>2, ElementOfSeq
    <3>2. /\ SubSeq(t, 1, m) \in Seq(X) /\ Len(SubSeq(t, 1, m)) = IF 1 <= m THEN m - 1 + 1 ELSE 0
          /\ \A d \in 1..(m - 1 + 1) : SubSeq(t, 1, m)[d] = t[1 + d - 1]
      BY <3>1, SubSeqProperties
    <3> QED BY <3>2
  <2>2. s = r <=> \A d \in 1..m : s[d] = r[d]
    BY <2>1, SeqEqual
  <2> QED BY <1>1, <2>1, <2>2
<1>3. IsPrefix(s, t) <=> m <= n /\ \A d \in 1..m : s[d] = t[d]
  BY <1>2 DEF IsPrefix
<1>4. ASSUME m <= n, \A d \in 1..m : s[d] = t[d]
      PROVE  s # t <=> m < n
  <2>1. CASE m = n
    <3>1. Len(s) = Len(t) /\ \A d \in 1..Len(s) : s[d] = t[d]
      BY <1>4, <2>1
    <3>2. s = t
      BY <3>1, SeqEqual
    <3> QED BY <2>1, <3>2
  <2>2. CASE m # n
    <3>1. s = t => m = n
      OBVIOUS
    <3>2. m < n
      BY <1>4, <2>2
    <3> QED BY <2>2, <3>1, <3>2
  <2> QED BY <2>1, <2>2
<1> QED BY <1>3, <1>4 DEF IsStrictPrefix

(* The prefixes of a path that goes one component further. *)
LEMMA PrefixOfAppend ==
  ASSUME NEW X, NEW m \in Seq(X), NEW p \in Seq(X), NEW x \in X
  PROVE  /\ IsStrictPrefix(m, Append(p, x)) <=> m = p \/ IsStrictPrefix(m, p)
         /\ IsPrefix(m, p) <=> m = p \/ IsStrictPrefix(m, p)
<1> PICK j \in Nat : j = Len(m)
  BY LenProperties
<1> PICK n \in Nat : n = Len(p)
  BY LenProperties
<1> PICK q : q = Append(p, x)
  OBVIOUS
<1>1. q \in Seq(X) /\ Len(q) = n + 1 /\ \A d \in 1..n : q[d] = p[d]
  BY AppendProperties
<1>2. IsStrictPrefix(m, q) <=> j < n + 1 /\ \A d \in 1..j : m[d] = q[d]
  <2>0. q \in Seq(X)
    BY <1>1
  <2>3. \A t \in Seq(X) : IsStrictPrefix(m, t) <=> Len(m) < Len(t) /\ \A d \in 1..Len(m) : m[d] = t[d]
    BY PrefixIs
  <2>1. IsStrictPrefix(m, q) <=> Len(m) < Len(q) /\ \A d \in 1..Len(m) : m[d] = q[d]
    BY <2>0, <2>3
  <2> QED BY <1>1, <2>1
<1>3. IsPrefix(m, p) <=> j <= n /\ \A d \in 1..j : m[d] = p[d]
  <2>1. IsPrefix(m, p) <=> Len(m) <= Len(p) /\ \A d \in 1..Len(m) : m[d] = p[d]
    BY PrefixIs
  <2> QED BY <2>1
<1>4. IsPrefix(m, p) <=> m = p \/ IsStrictPrefix(m, p)
  <2>1. m = p => IsPrefix(m, p)
    BY <1>3
  <2> QED BY <2>1 DEF IsStrictPrefix
<1>5. IsStrictPrefix(m, q) <=> IsPrefix(m, p)
  BY <1>1, <1>2, <1>3
<1> QED BY <1>4, <1>5

(* The prefixes of a path whose last component changes or goes. *)
LEMMA PrefixOfFront ==
  ASSUME NEW X, NEW m \in Seq(X), NEW p \in Seq(X), NEW x \in X, Len(p) > 0
  PROVE  /\ IsStrictPrefix(m, Append(Front(p), x)) <=> IsStrictPrefix(m, p)
         /\ IsStrictPrefix(m, Front(p)) <=> IsStrictPrefix(m, p) /\ Len(m) < Len(p) - 1
<1> PICK j \in Nat : j = Len(m)
  BY LenProperties
<1> PICK n \in Nat : n = Len(p)
  BY LenProperties
<1> PICK f : f = Front(p)
  OBVIOUS
<1>1. f \in Seq(X) /\ Len(f) = n - 1 /\ \A d \in 1..(n - 1) : f[d] = p[d]
  BY FrontProperties
<1> PICK q : q = Append(f, x)
  OBVIOUS
<1>2. q \in Seq(X) /\ Len(q) = n /\ \A d \in 1..(n - 1) : q[d] = p[d]
  BY <1>1, AppendProperties
<1>3. IsStrictPrefix(m, q) <=> j < n /\ \A d \in 1..j : m[d] = q[d]
  <2>0. q \in Seq(X)
    BY <1>2
  <2>3. \A t \in Seq(X) : IsStrictPrefix(m, t) <=> Len(m) < Len(t) /\ \A d \in 1..Len(m) : m[d] = t[d]
    BY PrefixIs
  <2>1. IsStrictPrefix(m, q) <=> Len(m) < Len(q) /\ \A d \in 1..Len(m) : m[d] = q[d]
    BY <2>0, <2>3
  <2> QED BY <1>2, <2>1
<1>4. IsStrictPrefix(m, p) <=> j < n /\ \A d \in 1..j : m[d] = p[d]
  <2>1. IsStrictPrefix(m, p) <=> Len(m) < Len(p) /\ \A d \in 1..Len(m) : m[d] = p[d]
    BY PrefixIs
  <2> QED BY <2>1
<1>5. IsStrictPrefix(m, f) <=> j < n - 1 /\ \A d \in 1..j : m[d] = f[d]
  <2>0. f \in Seq(X)
    BY <1>1
  <2>1. IsStrictPrefix(m, f) <=> Len(m) < Len(f) /\ \A d \in 1..Len(m) : m[d] = f[d]
    BY <2>0, PrefixIs
  <2> QED BY <1>1, <2>1
<1>6. IsStrictPrefix(m, q) <=> IsStrictPrefix(m, p)
  <2>1. ASSUME j < n, NEW d \in 1..j PROVE q[d] = p[d]
    <3>1. d \in 1..(n - 1)
      BY <2>1
    <3> QED BY <1>2, <3>1
  <2> QED BY <1>3, <1>4, <2>1
<1>7. IsStrictPrefix(m, f) <=> IsStrictPrefix(m, p) /\ j < n - 1
  <2>1. ASSUME j < n - 1, NEW d \in 1..j PROVE f[d] = p[d]
    <3>1. d \in 1..(n - 1)
      BY <2>1
    <3> QED BY <1>1, <3>1
  <2> QED BY <1>4, <1>5, <2>1
<1> QED BY <1>6, <1>7

-----------------------------------------------------------------------------
(* What is written of a document *)

WrittenOf(token) == IF token.type = "null" THEN <<Token("{"), Token("}")>> ELSE <<token>>

(* What is written for a token are tokens. *)
LEMMA WrittenOfType ==
  ASSUME NEW token \in Piece
  PROVE  WrittenOf(token) \in Seq(Piece)
<1>1. Token("{") \in Piece /\ Token("}") \in Piece
  BY DEF Token, Piece, JsonToken
<1>2. \A a, b \in Piece : <<a, b>> \in Seq(Piece) /\ <<a>> \in Seq(Piece)
  OBVIOUS
<1>3. <<Token("{"), Token("}")>> \in Seq(Piece) /\ <<token>> \in Seq(Piece)
  BY <1>1, <1>2
<1> QED BY <1>3 DEF WrittenOf

(* What the emitter hands out can be the body of a message. *)
LEMMA PieceIsBody ==
  /\ Piece \subseteq BodyToken
  /\ Seq(Piece) \subseteq Body
<1>1. Piece \subseteq BodyToken
  BY DEF Piece, BodyToken
<1> QED BY <1>1, SeqMonotonic DEF Body

(* A token more is written after the others. *)
LEMMA AsWrittenAppend ==
  ASSUME NEW tokens \in Seq(Piece), NEW token \in Piece
  PROVE  /\ AsWritten(<<>>) = <<>>
         /\ AsWritten(Append(tokens, token)) = AsWritten(tokens) \o WrittenOf(token)
<1> PICK n \in Nat : n = Len(tokens)
  BY LenProperties
<1> PICK more : more = Append(tokens, token)
  OBVIOUS
<1>1. /\ more \in Seq(Piece) /\ Len(more) = n + 1 /\ more[n + 1] = token
      /\ \A i \in 1..n : more[i] = tokens[i]
  BY AppendProperties
<1> DEFINE old == [i \in 1..n |-> WrittenOf(tokens[i])]
           new == [i \in 1..(n + 1) |-> WrittenOf(more[i])]
<1>2. AsWritten(tokens) = FlattenSeq(old) /\ AsWritten(more) = FlattenSeq(new)
  BY <1>1 DEF AsWritten, WrittenOf
<1>3. /\ \A i \in 1..n : WrittenOf(tokens[i]) \in Body
      /\ \A i \in 1..(n + 1) : WrittenOf(more[i]) \in Body
      /\ WrittenOf(token) \in Body
  <2>1. \A t \in Piece : WrittenOf(t) \in Body
    BY WrittenOfType, PieceIsBody
  <2>2. /\ \A i \in 1..n : tokens[i] \in Piece
        /\ \A i \in 1..(n + 1) : more[i] \in Piece
    BY <1>1, ElementOfSeq
  <2> QED BY <2>1, <2>2
<1>4. old \in Seq(Body) /\ Len(old) = n /\ new \in Seq(Body) /\ Len(new) = n + 1
  BY <1>3
<1>5. new = Append(old, WrittenOf(token))
  <2>1. new[n + 1] = WrittenOf(token) /\ \A i \in 1..n : new[i] = old[i]
    BY <1>1
  <2> HIDE DEF old, new
  <2> QED BY <1>3, <1>4, <2>1, IsAppend
<1>6. FlattenSeq(new) = FlattenSeq(old) \o WrittenOf(token)
  <2> HIDE DEF old, new
  <2> QED BY <1>3, <1>4, <1>5, FlattenAppend
<1>7. AsWritten(<<>>) = <<>>
  <2>1. [i \in 1..Len(<<>>) |-> IF <<>>[i].type = "null" THEN <<Token("{"), Token("}")>> ELSE <<(<<>>)[i]>>] = <<>>
    BY EmptySeq
  <2> QED BY <2>1, FlattenEmpty DEF AsWritten
<1> QED BY <1>2, <1>6, <1>7

-----------------------------------------------------------------------------
(* The pieces of a document *)

(* A document, and a path at which it has no array. *)
Selectable(path, tokens) ==
  /\ tokens \in Seq(Piece) /\ IsDocument(tokens)
  /\ path \in Seq(Key) /\ ~ArrayAt(path, tokens)

(* The parts of a token of JSON. *)
LEMMA PieceIs ==
  ASSUME NEW token \in Piece
  PROVE  /\ token.type \in {"{", "}", "[", "]", "key", "null", "string", "number", "text", "prefix"}
         /\ token = [type |-> token.type, key |-> token.key]
         /\ token.type # "key" => token.key = NoKey
         /\ token.key \in Component
BY DEF Piece, JsonToken, Component

(* A path consists of components. *)
LEMMA PathType ==
  ASSUME NEW tokens \in Seq(Piece), IsDocument(tokens)
  PROVE  \A n \in 0..Len(tokens) : PathAt(tokens, n) \in Seq(Component)
<1> PICK last \in Nat : last = Len(tokens)
  BY LenProperties
<1> DEFINE T == {n \in 0..last : PathAt(tokens, n) \in Seq(Component)}
<1>1. 0 \in T
  <2>1. PathAt(tokens, 0) = <<>>
    BY DepthZero DEF PathAt
  <2>2. <<>> \in Seq(Component)
    BY EmptySeq
  <2>3. 0 \in 0..last
    OBVIOUS
  <2> QED BY <2>1, <2>2, <2>3
<1>2. ASSUME NEW n \in 1..last, n - 1 \in T PROVE n \in T
  <2> PICK p \in Seq(Component) : p = PathAt(tokens, n - 1)
    BY <1>2
  <2>1. n \in Nat \ {0} /\ n - 1 \in Nat /\ n - 1 \in 0..Len(tokens) /\ n \in 0..Len(tokens)
    OBVIOUS
  <2>2. Depth(tokens, n - 1) \in Nat
    BY <2>1, DocumentFacts
  <2>3. Closes(tokens[n]) \/ tokens[n].type = "key" => Depth(tokens, n - 1) > 0
    BY <2>1, DocumentFacts
  <2>4. Len(p) = Depth(tokens, n - 1)
    BY <2>1, <2>2, PathLength
  <2>5. tokens[n] \in Piece
    BY ElementOfSeq
  <2>6. tokens[n].key \in Component /\ Item \in Component
    BY <2>5, PieceIs DEF Component
  <2>7. Append(p, tokens[n].key) \in Seq(Component) /\ Append(p, Item) \in Seq(Component)
    BY <2>6, AppendProperties
  <2>8. ASSUME Closes(tokens[n]) \/ tokens[n].type = "key"
        PROVE  Front(p) \in Seq(Component) /\ Append(Front(p), tokens[n].key) \in Seq(Component)
    <3>1. Front(p) \in Seq(Component)
      BY <2>3, <2>4, <2>8, FrontProperties
    <3> QED BY <2>6, <3>1, AppendProperties
  <2>9. Depth(tokens, n - 1) >= 0
    BY <2>2
  <2> PICK q : q = PathAt(tokens, n)
    OBVIOUS
  <2>10. /\ tokens[n].type = "{" => q = Append(p, tokens[n].key)
         /\ tokens[n].type = "[" => q = Append(p, Item)
         /\ tokens[n].type = "key" /\ Depth(tokens, n - 1) > 0 => q = Append(Front(p), tokens[n].key)
         /\ Closes(tokens[n]) /\ Depth(tokens, n - 1) > 0 => q = Front(p)
         /\ ~Enters(tokens[n]) /\ ~Closes(tokens[n]) => q = p
    BY <2>1, <2>9, PathStep
  <2>11. q \in Seq(Component)
    BY <2>3, <2>7, <2>8, <2>10 DEF Enters, Opens
  <2> QED BY <2>1, <2>11
<1>3. \A n \in 0..last : n \in T
  <2> HIDE DEF T
  <2> QED BY <1>1, <1>2, BoundedInduction
<1> QED BY <1>3

(* What is below the path after one token more. *)
LEMMA BelowStep ==
  ASSUME NEW path, NEW tokens, Selectable(path, tokens), NEW n \in 1..Len(tokens)
  PROVE  IsStrictPrefix(path, PathAt(tokens, n))
           <=> \/ IsStrictPrefix(path, PathAt(tokens, n - 1)) /\ Depth(tokens, n) > Len(path)
               \/ PathAt(tokens, n - 1) = path /\ tokens[n].type = "{"
<1>0. tokens \in Seq(Piece) /\ IsDocument(tokens) /\ path \in Seq(Component) /\ ~ArrayAt(path, tokens)
  <2>1. Key \subseteq Component
    BY DEF Component
  <2> QED BY <2>1, SeqMonotonic DEF Selectable
<1> PICK last \in Nat : last = Len(tokens)
  BY <1>0, LenProperties
<1>1. n \in Nat \ {0} /\ n - 1 \in Nat /\ n - 1 \in 0..Len(tokens) /\ n \in 0..Len(tokens)
  OBVIOUS
<1>2. PathAt(tokens, n - 1) \in Seq(Component) /\ PathAt(tokens, n) \in Seq(Component)
  BY <1>0, <1>1, PathType
<1> PICK p \in Seq(Component) : p = PathAt(tokens, n - 1)
  BY <1>2
<1> PICK q \in Seq(Component) : q = PathAt(tokens, n)
  BY <1>2
<1>3. Depth(tokens, n - 1) \in Nat /\ Depth(tokens, n) \in Nat
  BY <1>0, <1>1, DocumentFacts
<1>4. Len(p) = Depth(tokens, n - 1) /\ Len(q) = Depth(tokens, n)
  BY <1>1, <1>2, <1>3, PathLength
<1>5. tokens[n] \in Piece
  BY <1>0, ElementOfSeq
<1>6. tokens[n].key \in Component /\ Item \in Component
  BY <1>5, PieceIs DEF Component
<1>7. Closes(tokens[n]) \/ tokens[n].type = "key" => Len(p) > 0
  BY <1>0, <1>1, <1>4, DocumentFacts
<1>8. IsStrictPrefix(path, p) => Len(path) < Len(p)
  BY <1>0, PrefixIs
<1>9. /\ Opens(tokens[n]) => Len(q) = Len(p) + 1
      /\ Closes(tokens[n]) => Len(q) = Len(p) - 1
      /\ ~Opens(tokens[n]) /\ ~Closes(tokens[n]) => Len(q) = Len(p)
  <2>1. /\ Opens(tokens[n]) => Depth(tokens, n) = Depth(tokens, n - 1) + 1
        /\ Closes(tokens[n]) => Depth(tokens, n) = Depth(tokens, n - 1) - 1
        /\ ~Opens(tokens[n]) /\ ~Closes(tokens[n]) => Depth(tokens, n) = Depth(tokens, n - 1)
    BY <1>1, DepthStep
  <2> QED BY <1>4, <2>1
<1>10. Len(p) \in Nat /\ Len(q) \in Nat /\ Len(path) \in Nat
  BY <1>0, LenProperties
<1>16. Depth(tokens, n - 1) >= 0
  BY <1>3
<1>17. /\ tokens[n].type = "{" => q = Append(p, tokens[n].key)
       /\ tokens[n].type = "[" => q = Append(p, Item)
       /\ tokens[n].type = "key" /\ Depth(tokens, n - 1) > 0 => q = Append(Front(p), tokens[n].key)
       /\ Closes(tokens[n]) /\ Depth(tokens, n - 1) > 0 => q = Front(p)
       /\ ~Enters(tokens[n]) /\ ~Closes(tokens[n]) => q = p
  BY <1>1, <1>16, PathStep
<1> SUFFICES IsStrictPrefix(path, q)
               <=> \/ IsStrictPrefix(path, p) /\ Len(q) > Len(path)
                   \/ p = path /\ tokens[n].type = "{"
  BY <1>4
<1>11. CASE tokens[n].type = "{"
  <2>1. q = Append(p, tokens[n].key)
    BY <1>11, <1>17
  <2>2. IsStrictPrefix(path, q) <=> path = p \/ IsStrictPrefix(path, p)
    BY <1>0, <1>6, <2>1, PrefixOfAppend
  <2>3. Len(q) = Len(p) + 1
    BY <1>9, <1>11 DEF Opens
  <2>4. IsStrictPrefix(path, p) => Len(q) > Len(path)
    BY <1>8, <1>10, <2>3
  <2> QED BY <1>11, <2>2, <2>4
<1>12. CASE tokens[n].type = "["
  <2>1. q = Append(p, Item)
    BY <1>12, <1>17
  <2>2. IsStrictPrefix(path, q) <=> path = p \/ IsStrictPrefix(path, p)
    BY <1>0, <1>6, <2>1, PrefixOfAppend
  <2>3. Len(q) = Len(p) + 1
    BY <1>9, <1>12 DEF Opens
  <2>4. path # p
    BY <1>0, <1>12 DEF ArrayAt
  <2>5. IsStrictPrefix(path, p) => Len(q) > Len(path)
    BY <1>8, <1>10, <2>3
  <2>6. tokens[n].type # "{"
    BY <1>12
  <2> QED BY <2>2, <2>4, <2>5, <2>6
<1>13. CASE tokens[n].type = "key"
  <2>1. Len(p) > 0 /\ q = Append(Front(p), tokens[n].key)
    BY <1>4, <1>7, <1>13, <1>17
  <2>2. IsStrictPrefix(path, q) <=> IsStrictPrefix(path, p)
    BY <1>0, <1>6, <2>1, PrefixOfFront
  <2>3. Len(q) = Len(p)
    BY <1>9, <1>13 DEF Opens, Closes
  <2> QED BY <1>8, <1>10, <1>13, <2>2, <2>3
<1>14. CASE Closes(tokens[n])
  <2>1. Len(p) > 0 /\ q = Front(p)
    BY <1>4, <1>7, <1>14, <1>17
  <2>2. IsStrictPrefix(path, q) <=> IsStrictPrefix(path, p) /\ Len(path) < Len(p) - 1
    BY <1>0, <1>6, <2>1, PrefixOfFront
  <2>3. Len(q) = Len(p) - 1 /\ tokens[n].type # "{"
    BY <1>9, <1>14 DEF Closes
  <2> QED BY <1>10, <2>2, <2>3
<1>15. CASE ~Enters(tokens[n]) /\ ~Closes(tokens[n])
  <2>1. q = p /\ tokens[n].type # "{"
    BY <1>15, <1>17 DEF Enters, Opens
  <2> QED BY <1>8, <1>10, <2>1
<1> QED BY <1>11, <1>12, <1>13, <1>14, <1>15 DEF Enters, Opens

(* From i on, up to n, the tokens are the beginning of an object at the    *)
(* path.                                                                   *)
OpenPiece(path, tokens, i, n) ==
  /\ PathAt(tokens, i - 1) = path
  /\ tokens[i].type = "{"
  /\ \A j \in i..n : Depth(tokens, j) > Len(path)

(* Where the path is, the depth is its length. *)
LEMMA DepthAtPath ==
  ASSUME NEW path, NEW tokens, Selectable(path, tokens), NEW n \in 0..Len(tokens),
         PathAt(tokens, n) = path
  PROVE  Depth(tokens, n) = Len(path)
<1>1. tokens \in Seq(Piece) /\ IsDocument(tokens) /\ n \in Nat
  BY DEF Selectable
<1>2. Depth(tokens, n) \in Nat /\ PathAt(tokens, n) \in Seq(Component)
  BY <1>1, DocumentFacts, PathType
<1> QED BY <1>1, <1>2, PathLength

(* A token opens a piece, or leaves it open if it stays below the path. *)
LEMMA OpenStep ==
  ASSUME NEW path, NEW tokens, Selectable(path, tokens), NEW n \in 1..Len(tokens), NEW i \in 1..n
  PROVE  OpenPiece(path, tokens, i, n)
           <=> IF i = n THEN PathAt(tokens, n - 1) = path /\ tokens[n].type = "{"
               ELSE OpenPiece(path, tokens, i, n - 1) /\ Depth(tokens, n) > Len(path)
<1>0. tokens \in Seq(Piece) /\ Len(tokens) \in Nat /\ Len(path) \in Nat
  BY LenProperties DEF Selectable
<1>1. CASE i = n
  <2>1. ASSUME PathAt(tokens, n - 1) = path, tokens[n].type = "{"
        PROVE  Depth(tokens, n) > Len(path)
    <3>1. n - 1 \in 0..Len(tokens) /\ n \in Nat \ {0}
      BY <1>0
    <3>2. Depth(tokens, n - 1) = Len(path)
      BY <2>1, <3>1, DepthAtPath
    <3>3. Depth(tokens, n) = Depth(tokens, n - 1) + 1
      BY <2>1, <3>1, DepthStep DEF Opens
    <3> QED BY <1>0, <3>2, <3>3
  <2>2. i..n = {n}
    BY <1>1
  <2> QED BY <1>1, <2>1, <2>2 DEF OpenPiece
<1>2. CASE i # n
  <2>1. \A j \in i..n : j \in i..(n - 1) \/ j = n
    BY <1>0
  <2>2. n \in i..n /\ \A j \in i..(n - 1) : j \in i..n
    BY <1>0
  <2> QED BY <1>2, <2>1, <2>2 DEF OpenPiece
<1> QED BY <1>1, <1>2

(* What is below the path is in an object at the path. *)
LEMMA BelowIsOpen ==
  ASSUME NEW path, NEW tokens, Selectable(path, tokens)
  PROVE  \A n \in 0..Len(tokens) :
           IsStrictPrefix(path, PathAt(tokens, n)) <=> \E i \in 1..n : OpenPiece(path, tokens, i, n)
<1> PICK last \in Nat : last = Len(tokens)
  BY LenProperties DEF Selectable
<1> DEFINE below(n) == IsStrictPrefix(path, PathAt(tokens, n))
           open(n) == \E i \in 1..n : OpenPiece(path, tokens, i, n)
           T == {n \in 0..last : below(n) <=> open(n)}
<1>1. 0 \in T
  <2>1. PathAt(tokens, 0) = <<>>
    BY DepthZero DEF PathAt
  <2>2. ~below(0)
    <3>1. <<>> \in Seq(Key) /\ path \in Seq(Key) /\ Len(<<>>) = 0 /\ Len(path) \in Nat
      BY LenProperties DEF Selectable
    <3>2. ~(Len(path) < Len(<<>>))
      BY <3>1
    <3> QED BY <2>1, <3>1, <3>2, PrefixIs
  <2>3. ~open(0)
    OBVIOUS
  <2> HIDE DEF below, open
  <2> QED BY <2>2, <2>3
<1>2. ASSUME NEW n \in 1..last, n - 1 \in T PROVE n \in T
  <2>1. below(n) <=> \/ below(n - 1) /\ Depth(tokens, n) > Len(path)
                     \/ PathAt(tokens, n - 1) = path /\ tokens[n].type = "{"
    BY BelowStep
  <2>2. \A i \in 1..n : OpenPiece(path, tokens, i, n)
           <=> IF i = n THEN PathAt(tokens, n - 1) = path /\ tokens[n].type = "{"
               ELSE OpenPiece(path, tokens, i, n - 1) /\ Depth(tokens, n) > Len(path)
    BY OpenStep
  <2>3. open(n) <=> \/ open(n - 1) /\ Depth(tokens, n) > Len(path)
                    \/ PathAt(tokens, n - 1) = path /\ tokens[n].type = "{"
    <3>1. n \in 1..n /\ \A i \in 1..n : i # n <=> i \in 1..(n - 1)
      OBVIOUS
    <3>2. \A i \in 1..(n - 1) : i \in 1..n
      OBVIOUS
    <3> QED BY <2>2, <3>1, <3>2
  <2>4. (below(n - 1) <=> open(n - 1)) /\ n \in 0..last
    BY <1>2
  <2> HIDE DEF below, open
  <2> QED BY <2>1, <2>3, <2>4
<1>3. \A n \in 0..last : n \in T
  <2> HIDE DEF T
  <2> QED BY <1>1, <1>2, BoundedInduction
<1> QED BY <1>3

(* Only one piece is open at a time. *)
LEMMA OpenOnce ==
  ASSUME NEW path, NEW tokens, Selectable(path, tokens), NEW n \in 0..Len(tokens),
         NEW i \in 1..n, NEW k \in 1..n,
         OpenPiece(path, tokens, i, n), OpenPiece(path, tokens, k, n)
  PROVE  i = k
<1>0. Len(tokens) \in Nat /\ Len(path) \in Nat
  BY LenProperties DEF Selectable
<1>1. ASSUME NEW a \in 1..n, NEW b \in 1..n, a < b,
             OpenPiece(path, tokens, a, n), OpenPiece(path, tokens, b, n)
      PROVE  FALSE
  <2>1. b - 1 \in a..n /\ b - 1 \in 0..Len(tokens)
    BY <1>0, <1>1
  <2>2. Depth(tokens, b - 1) = Len(path)
    BY <1>1, <2>1, DepthAtPath DEF OpenPiece
  <2>3. Depth(tokens, b - 1) > Len(path)
    BY <1>1, <2>1 DEF OpenPiece
  <2> QED BY <1>0, <2>2, <2>3
<1>2. ~(i < k) /\ ~(k < i)
  BY <1>1
<1> QED BY <1>2

(* What ends with a token is an object that was open, or a string. *)
LEMMA PieceStep ==
  ASSUME NEW path, NEW tokens, Selectable(path, tokens), NEW n \in 1..Len(tokens), NEW i \in 1..n
  PROVE  IsPiece(path, tokens, i, n)
           <=> IF i = n
               THEN PathAt(tokens, n - 1) = path /\ tokens[n].type = "string" /\ Len(path) = 1
               ELSE OpenPiece(path, tokens, i, n - 1) /\ Depth(tokens, n) = Len(path)
<1>0. tokens \in Seq(Piece) /\ Len(tokens) \in Nat /\ Len(path) \in Nat
  BY LenProperties DEF Selectable
<1>1. CASE i = n
  <2>1. ASSUME PathAt(tokens, n - 1) = path, tokens[n].type = "{"
        PROVE  Depth(tokens, n) # Len(path)
    <3>1. n - 1 \in 0..Len(tokens) /\ n \in Nat \ {0}
      BY <1>0
    <3>2. Depth(tokens, n - 1) = Len(path)
      BY <2>1, <3>1, DepthAtPath
    <3>3. Depth(tokens, n) = Depth(tokens, n - 1) + 1
      BY <2>1, <3>1, DepthStep DEF Opens
    <3> QED BY <1>0, <3>2, <3>3
  <2> QED BY <1>1, <2>1 DEF IsPiece
<1>2. CASE i # n
  BY <1>2 DEF IsPiece, OpenPiece
<1> QED BY <1>1, <1>2

(* What a token ends. *)
Ended(path, tokens, n) ==
  IF \E i \in 1..n : IsPiece(path, tokens, i, n)
  THEN <<AsWritten(SubSeq(tokens, CHOOSE i \in 1..n : IsPiece(path, tokens, i, n), n))>>
  ELSE <<>>

(* A piece as written can be the body of a message. *)
LEMMA AsWrittenType ==
  ASSUME NEW tokens \in Seq(Piece)
  PROVE  AsWritten(tokens) \in Body
<1> PICK n \in Nat : n = Len(tokens)
  BY LenProperties
<1> DEFINE written == [i \in 1..n |-> WrittenOf(tokens[i])]
<1>1. AsWritten(tokens) = FlattenSeq(written)
  BY DEF AsWritten, WrittenOf
<1>2. \A i \in 1..n : WrittenOf(tokens[i]) \in Body
  <2>1. \A t \in Piece : WrittenOf(t) \in Body
    BY WrittenOfType, PieceIsBody
  <2>2. \A i \in 1..n : tokens[i] \in Piece
    BY ElementOfSeq
  <2> QED BY <2>1, <2>2
<1>3. written \in Seq(Body)
  BY <1>2
<1> QED BY <1>1, <1>3, FlattenSeqType

(* Coming back to the path ends the object that was open. *)
LEMMA EndedObject ==
  ASSUME NEW path, NEW tokens, Selectable(path, tokens), NEW n \in 1..Len(tokens),
         NEW i \in 1..(n - 1), OpenPiece(path, tokens, i, n - 1), Depth(tokens, n) = Len(path)
  PROVE  Ended(path, tokens, n) = <<AsWritten(SubSeq(tokens, i, n))>>
<1>0. Len(tokens) \in Nat /\ Len(path) \in Nat
  BY LenProperties DEF Selectable
<1>1. i \in 1..n /\ i # n /\ n - 1 \in 0..Len(tokens) /\ n - 1 \in i..(n - 1)
  BY <1>0
<1>2. IsPiece(path, tokens, i, n)
  BY <1>1, PieceStep
<1>3. ASSUME NEW k \in 1..n, IsPiece(path, tokens, k, n) PROVE k = i
  <2>1. CASE k = n
    <3>1. PathAt(tokens, n - 1) = path
      BY <1>3, <2>1, PieceStep
    <3>2. Depth(tokens, n - 1) = Len(path)
      BY <1>1, <3>1, DepthAtPath
    <3>3. Depth(tokens, n - 1) > Len(path)
      BY <1>1 DEF OpenPiece
    <3> QED BY <1>0, <3>2, <3>3
  <2>2. CASE k # n
    <3>1. OpenPiece(path, tokens, k, n - 1) /\ k \in 1..(n - 1)
      BY <1>3, <2>2, PieceStep
    <3> QED BY <1>1, <3>1, OpenOnce
  <2> QED BY <2>1, <2>2
<1>4. (CHOOSE k \in 1..n : IsPiece(path, tokens, k, n)) = i
  BY <1>1, <1>2, <1>3
<1> QED BY <1>1, <1>2, <1>4 DEF Ended

(* A string at the path is a piece. *)
LEMMA EndedString ==
  ASSUME NEW path, NEW tokens, Selectable(path, tokens), NEW n \in 1..Len(tokens),
         PathAt(tokens, n - 1) = path, tokens[n].type = "string", Len(path) = 1
  PROVE  Ended(path, tokens, n) = <<AsWritten(SubSeq(tokens, n, n))>>
<1>0. Len(tokens) \in Nat /\ Len(path) \in Nat
  BY LenProperties DEF Selectable
<1>1. n \in 1..n /\ n - 1 \in 0..Len(tokens)
  BY <1>0
<1>2. IsPiece(path, tokens, n, n)
  BY <1>1, PieceStep
<1>3. ASSUME NEW k \in 1..n, IsPiece(path, tokens, k, n), k # n PROVE FALSE
  <2>1. OpenPiece(path, tokens, k, n - 1) /\ n - 1 \in k..(n - 1)
    BY <1>0, <1>3, PieceStep
  <2>2. Depth(tokens, n - 1) > Len(path)
    BY <2>1 DEF OpenPiece
  <2>3. Depth(tokens, n - 1) = Len(path)
    BY <1>1, DepthAtPath
  <2> QED BY <1>0, <2>2, <2>3
<1>4. (CHOOSE k \in 1..n : IsPiece(path, tokens, k, n)) = n
  BY <1>1, <1>2, <1>3
<1> QED BY <1>1, <1>2, <1>4 DEF Ended

(* No other token ends a piece. *)
LEMMA EndedNothing ==
  ASSUME NEW path, NEW tokens, Selectable(path, tokens), NEW n \in 1..Len(tokens),
         ~IsStrictPrefix(path, PathAt(tokens, n - 1)) \/ Depth(tokens, n) # Len(path),
         ~(PathAt(tokens, n - 1) = path /\ tokens[n].type = "string" /\ Len(path) = 1)
  PROVE  Ended(path, tokens, n) = <<>>
<1>1. ASSUME NEW k \in 1..n, IsPiece(path, tokens, k, n) PROVE FALSE
  <2>1. k # n /\ OpenPiece(path, tokens, k, n - 1) /\ Depth(tokens, n) = Len(path)
    BY <1>1, PieceStep
  <2>2. k \in 1..(n - 1) /\ n - 1 \in 0..Len(tokens)
    BY <2>1
  <2>3. IsStrictPrefix(path, PathAt(tokens, n - 1))
    BY <2>1, <2>2, BelowIsOpen
  <2> QED BY <2>1, <2>3
<1> QED BY <1>1 DEF Ended

(* A part that goes one element further. *)
LEMMA SubSeqMore ==
  ASSUME NEW X, NEW s \in Seq(X), NEW n \in 1..Len(s), NEW i \in 1..n
  PROVE  /\ SubSeq(s, i, n) = Append(SubSeq(s, i, n - 1), s[n])
         /\ SubSeq(s, i, n) \in Seq(X) /\ SubSeq(s, i, n - 1) \in Seq(X)
         /\ SubSeq(s, n, n - 1) = <<>>
<1> PICK last \in Nat : last = Len(s)
  BY LenProperties
<1>1. n \in Nat /\ n >= 1 /\ n <= last /\ i \in Nat /\ i >= 1 /\ i <= n /\ n - 1 \in Int
  OBVIOUS
<1>2. \A j \in 1..last : s[j] \in X
  BY ElementOfSeq
<1> PICK p : p = SubSeq(s, i, n - 1)
  OBVIOUS
<1> PICK q : q = SubSeq(s, i, n)
  OBVIOUS
<1>3. p \in Seq(X) /\ Len(p) = n - i /\ \A j \in 1..(n - i) : p[j] = s[i + j - 1]
  <2>1. \A j \in i..(n - 1) : s[j] \in X
    BY <1>1, <1>2
  <2>2. /\ SubSeq(s, i, n - 1) \in Seq(X)
        /\ Len(SubSeq(s, i, n - 1)) = IF i <= n - 1 THEN (n - 1) - i + 1 ELSE 0
        /\ \A j \in 1..((n - 1) - i + 1) : SubSeq(s, i, n - 1)[j] = s[i + j - 1]
    BY <1>1, <2>1, SubSeqProperties
  <2>3. (n - 1) - i + 1 = n - i /\ (~(i <= n - 1) => n - i = 0)
    BY <1>1
  <2> QED BY <2>2, <2>3
<1>4. q \in Seq(X) /\ Len(q) = (n - i) + 1 /\ \A j \in 1..((n - i) + 1) : q[j] = s[i + j - 1]
  <2>1. \A j \in i..n : s[j] \in X
    BY <1>1, <1>2
  <2>2. /\ SubSeq(s, i, n) \in Seq(X)
        /\ Len(SubSeq(s, i, n)) = IF i <= n THEN n - i + 1 ELSE 0
        /\ \A j \in 1..(n - i + 1) : SubSeq(s, i, n)[j] = s[i + j - 1]
    BY <1>1, <2>1, SubSeqProperties
  <2> QED BY <1>1, <2>2
<1>5. /\ s[n] \in X /\ Len(q) = Len(p) + 1 /\ q[Len(p) + 1] = s[n]
      /\ \A j \in 1..Len(p) : q[j] = p[j]
  <2>1. i + ((n - i) + 1) - 1 = n /\ (n - i) + 1 \in 1..((n - i) + 1)
    BY <1>1
  <2>2. \A j \in 1..(n - i) : j \in 1..((n - i) + 1)
    BY <1>1
  <2>3. n \in 1..last
    BY <1>1
  <2> QED BY <1>2, <1>3, <1>4, <2>1, <2>2, <2>3
<1>6. q = Append(p, s[n])
  <2>1. \A r, t \in Seq(X) : \A x \in X :
          /\ Len(t) = Len(r) + 1
          /\ \A d \in 1..Len(r) : t[d] = r[d]
          /\ t[Len(r) + 1] = x
          => t = Append(r, x)
    BY IsAppend
  <2> QED BY <1>3, <1>4, <1>5, <2>1
<1>7. SubSeq(s, n, n - 1) = <<>>
  BY <1>1
<1> QED BY <1>3, <1>4, <1>6, <1>7

(* A token more of what is open is written after the others. *)
LEMMA WriteMore ==
  ASSUME NEW tokens \in Seq(Piece), NEW n \in 1..Len(tokens), NEW i \in 1..n
  PROVE  /\ AsWritten(SubSeq(tokens, i, n)) = AsWritten(SubSeq(tokens, i, n - 1)) \o WrittenOf(tokens[n])
         /\ AsWritten(SubSeq(tokens, n, n - 1)) = <<>>
         /\ AsWritten(SubSeq(tokens, i, n)) \in Body
<1>1. /\ SubSeq(tokens, i, n) = Append(SubSeq(tokens, i, n - 1), tokens[n])
      /\ SubSeq(tokens, i, n) \in Seq(Piece) /\ SubSeq(tokens, i, n - 1) \in Seq(Piece)
      /\ SubSeq(tokens, n, n - 1) = <<>> /\ tokens[n] \in Piece
  BY SubSeqMore, ElementOfSeq
<1>2. AsWritten(Append(SubSeq(tokens, i, n - 1), tokens[n]))
        = AsWritten(SubSeq(tokens, i, n - 1)) \o WrittenOf(tokens[n])
  BY <1>1, AsWrittenAppend
<1>3. AsWritten(<<>>) = <<>>
  BY <1>1, AsWrittenAppend
<1>4. AsWritten(SubSeq(tokens, i, n)) \in Body
  BY <1>1, AsWrittenType
<1> QED BY <1>1, <1>2, <1>3, <1>4

(* The pieces with those that a token ends. *)
WithEnded(path, tokens, n, pieces) ==
  IF \E i \in 1..n : IsPiece(path, tokens, i, n)
  THEN Append(pieces, AsWritten(SubSeq(tokens, CHOOSE i \in 1..n : IsPiece(path, tokens, i, n), n)))
  ELSE pieces

(* The pieces that have ended can be bodies of messages. *)
LEMMA EndedType ==
  ASSUME NEW path, NEW tokens \in Seq(Piece), NEW n \in 1..Len(tokens), NEW pieces \in Seq(Body)
  PROVE  /\ WithEnded(path, tokens, n, pieces) = pieces \o Ended(path, tokens, n)
         /\ WithEnded(path, tokens, n, pieces) \in Seq(Body)
         /\ Ended(path, tokens, n) \in Seq(Body)
<1>1. CASE \E i \in 1..n : IsPiece(path, tokens, i, n)
  <2> PICK i \in 1..n : i = CHOOSE k \in 1..n : IsPiece(path, tokens, k, n)
    BY <1>1
  <2> PICK piece \in Body : piece = AsWritten(SubSeq(tokens, i, n))
    BY WriteMore
  <2>1. Ended(path, tokens, n) = <<piece>> /\ WithEnded(path, tokens, n, pieces) = Append(pieces, piece)
    BY <1>1 DEF Ended, WithEnded
  <2>2. Append(pieces, piece) = pieces \o <<piece>>
    BY AppendIsConcat
  <2>3. Append(pieces, piece) \in Seq(Body)
    BY AppendProperties
  <2>4. <<piece>> \in Seq(Body)
    <3>1. \A x \in Body : <<x>> \in Seq(Body)
      OBVIOUS
    <3> QED BY <3>1
  <2> QED BY <2>1, <2>2, <2>3, <2>4
<1>2. CASE ~\E i \in 1..n : IsPiece(path, tokens, i, n)
  <2>1. Ended(path, tokens, n) = <<>> /\ WithEnded(path, tokens, n, pieces) = pieces
    BY <1>2 DEF Ended, WithEnded
  <2>2. pieces \o <<>> = pieces /\ <<>> \in Seq(Body)
    BY ConcatEmptySeq, EmptySeq
  <2> QED BY <2>1, <2>2
<1> QED BY <1>1, <1>2

(* The pieces, token by token. *)
LEMMA PiecesDef ==
  ASSUME NEW path, NEW tokens \in Seq(Piece)
  PROVE  /\ Pieces(path, tokens)[0] = <<>>
         /\ \A n \in 1..Len(tokens) :
              Pieces(path, tokens)[n] = WithEnded(path, tokens, n, Pieces(path, tokens)[n - 1])
<1> PICK last : last = Len(tokens)
  OBVIOUS
<1>1. last \in Nat /\ <<>> \in Seq(Body)
  BY LenProperties, EmptySeq
<1> DEFINE Collects(g) == g = [n \in 0..last |->
             IF n = 0 THEN <<>>
             ELSE IF \E i \in 1..n : IsPiece(path, tokens, i, n)
             THEN Append(g[n - 1],
                    AsWritten(SubSeq(tokens, CHOOSE i \in 1..n : IsPiece(path, tokens, i, n), n)))
             ELSE g[n - 1]]
           step == [n \in 1..last |-> [pieces \in Seq(Body) |-> WithEnded(path, tokens, n, pieces)]]
<1>2. step \in [1..last -> [Seq(Body) -> Seq(Body)]]
  <2>1. ASSUME NEW n \in 1..last, NEW pieces \in Seq(Body)
        PROVE  WithEnded(path, tokens, n, pieces) \in Seq(Body)
    BY EndedType
  <2> QED BY <2>1
<1>3. PICK g : RecursiveTo(g, last, Seq(Body), <<>>, step)
  <2> HIDE DEF step
  <2> QED BY <1>1, <1>2, BoundedRecursion
<1>4. ASSUME NEW n \in 1..last
      PROVE  g[n] = WithEnded(path, tokens, n, g[n - 1])
  <2>1. n - 1 \in 0..last
    BY <1>1
  <2>2. g[n - 1] \in Seq(Body)
    BY <1>3, <2>1 DEF RecursiveTo
  <2>3. step[n][g[n - 1]] = WithEnded(path, tokens, n, g[n - 1])
    BY <2>2
  <2> HIDE DEF step
  <2> QED BY <1>3, <2>3 DEF RecursiveTo
<1>5. Collects(g)
  <2>1. ASSUME NEW n \in 0..last
        PROVE  g[n] = IF n = 0 THEN <<>> ELSE WithEnded(path, tokens, n, g[n - 1])
    <3>1. CASE n = 0
      BY <1>3, <3>1 DEF RecursiveTo
    <3>2. CASE n # 0
      <4>1. n \in 1..last
        BY <1>1, <3>2
      <4> QED BY <1>4, <3>2, <4>1
    <3> QED BY <3>1, <3>2
  <2>2. g \in [0..last -> Seq(Body)]
    BY <1>3 DEF RecursiveTo
  <2> QED BY <2>1, <2>2 DEF WithEnded
<1>6. \E h : Collects(h) /\ Pieces(path, tokens) = h
  <2>1. Pieces(path, tokens) = (CHOOSE h : Collects(h))
    BY DEF Pieces
  <2>2. Collects(CHOOSE h : Collects(h))
    <3> HIDE DEF Collects
    <3> QED BY <1>5
  <2> HIDE DEF Collects
  <2> QED BY <2>1, <2>2
<1>7. PICK h : Collects(h) /\ Pieces(path, tokens) = h
  BY <1>6
<1>8. h[0] = <<>> /\ \A n \in 1..last : h[n] = WithEnded(path, tokens, n, h[n - 1])
  <2>1. 0 \in 0..last /\ \A i \in 1..last : i \in 0..last /\ i # 0
    BY <1>1
  <2> QED BY <1>7, <2>1 DEF WithEnded
<1> QED BY <1>7, <1>8

(* Pieces can be bodies of messages. *)
LEMMA PiecesType ==
  ASSUME NEW path, NEW tokens \in Seq(Piece)
  PROVE  \A n \in 0..Len(tokens) : Pieces(path, tokens)[n] \in Seq(Body)
<1> PICK last \in Nat : last = Len(tokens)
  BY LenProperties
<1> PICK g : g = Pieces(path, tokens)
  OBVIOUS
<1> DEFINE T == {n \in 0..last : g[n] \in Seq(Body)}
<1>1. g[0] = <<>> /\ \A n \in 1..last : g[n] = WithEnded(path, tokens, n, g[n - 1])
  BY PiecesDef
<1>2. 0 \in T
  <2>1. <<>> \in Seq(Body)
    BY EmptySeq
  <2>2. 0 \in 0..last
    OBVIOUS
  <2> QED BY <1>1, <2>1, <2>2
<1>3. ASSUME NEW n \in 1..last, n - 1 \in T PROVE n \in T
  <2>1. g[n - 1] \in Seq(Body) /\ n \in 0..last
    BY <1>3
  <2>2. WithEnded(path, tokens, n, g[n - 1]) \in Seq(Body)
    BY <2>1, EndedType
  <2> QED BY <1>1, <2>1, <2>2
<1>4. \A n \in 0..last : n \in T
  <2> HIDE DEF T
  <2> QED BY <1>2, <1>3, BoundedInduction
<1> QED BY <1>4

(* Of the pieces, those that ended earlier come first. *)
LEMMA PiecesGrow ==
  ASSUME NEW path, NEW tokens \in Seq(Piece), NEW n \in 0..Len(tokens)
  PROVE  LET early == Pieces(path, tokens)[n]
             all == Pieces(path, tokens)[Len(tokens)]
         IN  Len(early) <= Len(all) /\ \A d \in 1..Len(early) : all[d] = early[d]
<1> PICK last \in Nat : last = Len(tokens)
  BY LenProperties
<1> PICK g : g = Pieces(path, tokens)
  OBVIOUS
<1> PICK early \in Seq(Body) : early = g[n]
  BY PiecesType
<1> PICK length \in Nat : length = Len(early)
  BY LenProperties
<1> DEFINE Grown(m) == m >= n => length <= Len(g[m]) /\ \A d \in 1..length : g[m][d] = early[d]
           T == {m \in 0..last : Grown(m)}
<1>1. \A m \in 1..last : g[m - 1] \in Seq(Body) /\ g[m] = WithEnded(path, tokens, m, g[m - 1])
  <2>1. \A m \in 1..last : m - 1 \in 0..last
    OBVIOUS
  <2> QED BY <2>1, PiecesDef, PiecesType
<1>2. Grown(n)
  OBVIOUS
<1>3. 0 \in T
  <2>1. CASE n = 0
    BY <1>2, <2>1
  <2>2. CASE n # 0
    BY <2>2
  <2> QED BY <2>1, <2>2
<1>4. ASSUME NEW m \in 1..last, m - 1 \in T PROVE m \in T
  <2>1. CASE m <= n
    <3>1. m = n \/ ~(m >= n)
      BY <2>1
    <3>2. Grown(m)
      BY <1>2, <3>1
    <3> QED BY <3>2
  <2>2. CASE m > n
    <3> PICK before \in Seq(Body) : before = g[m - 1]
      BY <1>1
    <3> PICK size \in Nat : size = Len(before)
      BY LenProperties
    <3>1. length <= size /\ \A d \in 1..length : before[d] = early[d]
      BY <1>4, <2>2
    <3> PICK ended \in Seq(Body) : ended = Ended(path, tokens, m)
      BY EndedType
    <3>2. g[m] = before \o ended
      BY <1>1, EndedType
    <3>3. /\ Len(before \o ended) = size + Len(ended) /\ Len(ended) \in Nat
          /\ \A d \in 1..(size + Len(ended)) :
               (before \o ended)[d] = IF d <= size THEN before[d] ELSE ended[d - size]
      BY ConcatProperties, LenProperties
    <3>4. \A d \in 1..length : g[m][d] = early[d]
      <4> TAKE d \in 1..length
      <4>1. d \in 1..(size + Len(ended)) /\ d <= size
        BY <3>1, <3>3
      <4> QED BY <3>1, <3>2, <3>3, <4>1
    <3>5. length <= Len(g[m])
      BY <3>1, <3>2, <3>3
    <3> QED BY <3>4, <3>5
  <2> QED BY <2>1, <2>2
<1>5. \A m \in 0..last : m \in T
  <2> HIDE DEF T
  <2> QED BY <1>3, <1>4, BoundedInduction
<1>6. last \in 0..last /\ last >= n
  OBVIOUS
<1>7. Grown(last)
  BY <1>5, <1>6
<1> QED BY <1>6, <1>7

-----------------------------------------------------------------------------
(* The emitter follows a document *)

(* What a token adds to what is generated. *)
Generated(e, next, token) ==
  /\ next \in Emitter
  /\ next.current_path = e.current_path /\ (next.failed <=> e.failed) /\ next.emitted = e.emitted
  /\ next.buf = Append(e.buf, token)
  /\ Opens(token) => next.depth = e.depth + 1
  /\ Closes(token) => next.depth = e.depth - 1
  /\ ~Opens(token) /\ ~Closes(token) => next.depth = e.depth
  /\ (next.complete <=> next.depth = 0)

(* Generate adds its token. *)
LEMMA GenerateFacts ==
  ASSUME NEW e \in Emitter, ~e.complete, NEW token \in Piece, Closes(token) => e.depth # 0
  PROVE  Generated(e, Generate(e, token.type, token.key), token)
<1> PICK depth : depth = CASE token.type \in {"{", "["} -> e.depth + 1
                           [] token.type \in {"}", "]"} -> e.depth - 1
                           [] OTHER -> e.depth
  OBVIOUS
<1>1. e.depth \in Int /\ token = [type |-> token.type, key |-> token.key]
  BY PieceIs DEF Emitter
<1>2. /\ Opens(token) => depth = e.depth + 1
      /\ Closes(token) => depth = e.depth - 1
      /\ ~Opens(token) /\ ~Closes(token) => depth = e.depth
  <2>1. Opens(token) => depth = e.depth + 1
    BY DEF Opens
  <2>2. Closes(token) => depth = e.depth - 1
    BY DEF Closes
  <2>3. ~Opens(token) /\ ~Closes(token) => depth = e.depth
    BY DEF Opens, Closes
  <2> QED BY <2>1, <2>2, <2>3
<1> PICK next : next = Generate(e, token.type, token.key)
  OBVIOUS
<1>3. next = [e EXCEPT !.buf = Append(@, token), !.depth = depth, !.complete = depth = 0]
  BY <1>1 DEF Generate, Closes
<1>4. next \in Emitter
  BY <1>1, GenerateType
<1>5. /\ next.current_path = e.current_path /\ (next.failed <=> e.failed) /\ next.emitted = e.emitted
      /\ next.buf = Append(e.buf, token) /\ next.depth = depth /\ (next.complete <=> depth = 0)
  BY <1>3 DEF Emitter
<1> QED BY <1>2, <1>4, <1>5 DEF Generated

(* Only the path changes. *)
Moved(e, next, path) ==
  /\ next \in Emitter /\ next.current_path = path
  /\ (next.failed <=> e.failed) /\ next.emitted = e.emitted /\ (next.complete <=> e.complete)
  /\ next.buf = e.buf /\ next.depth = e.depth

(* Push goes one component further. *)
LEMMA PushMoves ==
  ASSUME NEW e \in Emitter, NEW component \in Component
  PROVE  Moved(e, Push(e, component), Append(e.current_path, component))
BY PushType DEF Push, Emitter, Moved

(* Pop goes back by one. *)
LEMMA PopMoves ==
  ASSUME NEW e \in Emitter, e.current_path # <<>>
  PROVE  Moved(e, Pop(e), Front(e.current_path))
BY PopType DEF Pop, Emitter, Moved

(* Emit hands out what is generated and begins anew. *)
LEMMA EmitFacts ==
  ASSUME NEW e \in Emitter
  PROVE  LET next == Emit(e) IN
         /\ next \in Emitter
         /\ next.current_path = e.current_path /\ (next.failed <=> e.failed)
         /\ next.emitted = Append(e.emitted, e.buf)
         /\ next.buf = <<>> /\ next.depth = 0 /\ ~next.complete
<1>1. Emit(e) \in Emitter
  BY EmitType
<1> QED BY <1>1 DEF Emit, Emitter

(* The emitter after the first n tokens of a document: it is where the     *)
(* document is, and holds what has been written of an object at the path.  *)
Holds(path, tokens, n, e) ==
  \E i \in 1..n :
    /\ OpenPiece(path, tokens, i, n)
    /\ e.buf = AsWritten(SubSeq(tokens, i, n))
    /\ e.depth = Depth(tokens, n) - Len(path)

(* The emitter is where the document is after n tokens, and holds the piece *)
(* that is open there.                                                     *)
Following(path, tokens, n, e) ==
  /\ e \in Emitter
  /\ ~e.failed /\ ~e.complete
  /\ e.current_path = PathAt(tokens, n)
  /\ IF IsStrictPrefix(path, PathAt(tokens, n)) THEN Holds(path, tokens, n, e)
     ELSE e.buf = <<>> /\ e.depth = 0

(* Appending one token or two. *)
LEMMA AppendToken ==
  ASSUME NEW X, NEW buf \in Seq(X), NEW a \in X, NEW b \in X
  PROVE  /\ Append(buf, a) = buf \o <<a>>
         /\ Append(Append(buf, a), b) = buf \o <<a, b>>
<1>1. Append(buf, a) = buf \o <<a>> /\ Append(buf, a) \in Seq(X)
  BY AppendIsConcat, AppendProperties
<1> PICK n \in Nat : n = Len(buf)
  BY LenProperties
<1> PICK p : p = Append(Append(buf, a), b)
  OBVIOUS
<1>2. p \in Seq(X) /\ Len(p) = n + 2 /\ p[n + 1] = a /\ p[n + 2] = b /\ \A i \in 1..n : p[i] = buf[i]
  OBVIOUS
<1> PICK both : both = <<a, b>>
  OBVIOUS
<1>3. both \in Seq(X) /\ Len(both) = 2 /\ both[1] = a /\ both[2] = b
  OBVIOUS
<1> PICK q : q = buf \o both
  OBVIOUS
<1>4. /\ q \in Seq(X) /\ Len(q) = n + 2
      /\ \A i \in 1..(n + 2) : q[i] = IF i <= n THEN buf[i] ELSE both[i - n]
  BY <1>3, ConcatProperties
<1>5. \A i \in 1..(n + 2) : p[i] = q[i]
  <2> TAKE i \in 1..(n + 2)
  <2>1. CASE i <= n
    BY <1>2, <1>4, <2>1
  <2>2. CASE i = n + 1
    BY <1>2, <1>3, <1>4, <2>2
  <2>3. CASE i = n + 2
    BY <1>2, <1>3, <1>4, <2>3
  <2> QED BY <2>1, <2>2, <2>3
<1>6. p = q
  <2>1. Len(p) = Len(q) /\ \A i \in 1..Len(p) : p[i] = q[i]
    BY <1>2, <1>4, <1>5
  <2> QED BY <1>2, <1>4, <2>1, SeqEqual, Zenon
<1> QED BY <1>1, <1>6

StartsMap(token) == token.type = "{"

StartBrace == Token("{")

EndBrace == Token("}")

(* The braces that are written for null. *)
LEMMA BraceFacts ==
  /\ StartBrace \in Piece /\ Opens(StartBrace) /\ ~Closes(StartBrace)
  /\ EndBrace \in Piece /\ Closes(EndBrace) /\ ~Opens(EndBrace)
BY DEF StartBrace, EndBrace, Token, Piece, JsonToken, Opens, Closes

(* A token takes a document from a path p, at a depth, to q. *)
Advance(path, p, depth, token, q, deep) ==
  /\ path \in Seq(Component) /\ p \in Seq(Component) /\ q \in Seq(Component)
  /\ depth \in Nat /\ deep \in Nat /\ Len(path) \in Nat
  /\ token \in Piece /\ token.type \notin {"text", "prefix"}
  /\ Opens(token) => deep = depth + 1
  /\ Closes(token) => deep = depth - 1
  /\ ~Opens(token) /\ ~Closes(token) => deep = depth
  /\ Closes(token) \/ token.type = "key" => p # <<>>
  /\ StartsMap(token) => q = Append(p, token.key)
  /\ token.type = "[" => q = Append(p, Item) /\ p # path
  /\ token.type = "key" => q = Append(Front(p), token.key)
  /\ Closes(token) => q = Front(p)
  /\ ~Enters(token) /\ ~Closes(token) => q = p
  /\ IsStrictPrefix(path, p) => Len(path) < depth /\ p # <<>> /\ p # path
  /\ p = path => depth = Len(path)
  /\ IsStrictPrefix(path, q)
       <=> \/ IsStrictPrefix(path, p) /\ deep > Len(path)
           \/ p = path /\ StartsMap(token)

(* A token of a document does. *)
LEMMA DocumentAdvances ==
  ASSUME NEW path, NEW tokens, Selectable(path, tokens), NEW n \in 1..Len(tokens)
  PROVE  Advance(path, PathAt(tokens, n - 1), Depth(tokens, n - 1), tokens[n],
                 PathAt(tokens, n), Depth(tokens, n))
<1>0. tokens \in Seq(Piece) /\ IsDocument(tokens) /\ path \in Seq(Component) /\ ~ArrayAt(path, tokens)
  <2>1. Key \subseteq Component
    BY DEF Component
  <2> QED BY <2>1, SeqMonotonic DEF Selectable
<1>1. n \in Nat \ {0} /\ n - 1 \in Nat /\ n - 1 \in 0..Len(tokens) /\ n \in 0..Len(tokens)
  <2>1. Len(tokens) \in Nat
    BY <1>0, LenProperties
  <2> QED BY <2>1
<1> PICK token \in Piece : token = tokens[n]
  BY <1>0, ElementOfSeq
<1> PICK p \in Seq(Component) : p = PathAt(tokens, n - 1)
  BY <1>0, <1>1, PathType
<1> PICK q \in Seq(Component) : q = PathAt(tokens, n)
  BY <1>0, <1>1, PathType
<1> PICK D \in Nat : D = Depth(tokens, n - 1)
  BY <1>0, <1>1, DocumentFacts
<1> PICK E \in Nat : E = Depth(tokens, n)
  BY <1>0, <1>1, DocumentFacts
<1>2. Len(path) \in Nat /\ Len(p) \in Nat
  BY <1>0, LenProperties
<1>3. D = Len(p)
  <2>1. \A m \in Nat : Depth(tokens, m) >= 0 /\ PathAt(tokens, m) \in Seq(Component)
          => Len(PathAt(tokens, m)) = Depth(tokens, m)
    BY PathLength
  <2>2. Depth(tokens, n - 1) >= 0 /\ PathAt(tokens, n - 1) \in Seq(Component)
    OBVIOUS
  <2> QED BY <1>1, <2>1, <2>2
<1>4. IsStrictPrefix(path, p) => Len(path) < D /\ p # <<>> /\ p # path
  <2>1. IsStrictPrefix(path, p) => Len(path) < Len(p)
    BY <1>0, PrefixIs
  <2>2. p = <<>> => Len(p) = 0
    BY EmptySeq
  <2> QED BY <1>2, <1>3, <2>1, <2>2
<1>5. /\ Opens(token) => E = D + 1
      /\ Closes(token) => E = D - 1
      /\ ~Opens(token) /\ ~Closes(token) => E = D
  BY <1>1, DepthStep
<1>6. Closes(token) \/ token.type = "key" => D > 0 /\ p # <<>>
  <2>1. Closes(tokens[n]) \/ tokens[n].type = "key" => Depth(tokens, n - 1) > 0
    BY <1>0, <1>1, DocumentFacts
  <2>2. p = <<>> => Len(p) = 0
    BY EmptySeq
  <2> QED BY <1>3, <2>1, <2>2
<1>7. /\ token.type = "{" => q = Append(p, token.key)
      /\ token.type = "[" => q = Append(p, Item)
      /\ token.type = "key" => q = Append(Front(p), token.key)
      /\ Closes(token) => q = Front(p)
      /\ ~Enters(token) /\ ~Closes(token) => q = p
  <2>1. Depth(tokens, n - 1) >= 0
    OBVIOUS
  <2>2. /\ tokens[n].type = "{" => q = Append(p, tokens[n].key)
        /\ tokens[n].type = "[" => q = Append(p, Item)
        /\ tokens[n].type = "key" /\ Depth(tokens, n - 1) > 0 => q = Append(Front(p), tokens[n].key)
        /\ Closes(tokens[n]) /\ Depth(tokens, n - 1) > 0 => q = Front(p)
        /\ ~Enters(tokens[n]) /\ ~Closes(tokens[n]) => q = p
    BY <1>1, <2>1, PathStep
  <2> QED BY <1>6, <2>2
<1>8. token.type = "[" => p # path
  BY <1>0 DEF ArrayAt
<1>9. IsStrictPrefix(path, q)
        <=> \/ IsStrictPrefix(path, p) /\ E > Len(path)
            \/ p = path /\ token.type = "{"
  <2>1. IsStrictPrefix(path, PathAt(tokens, n))
          <=> \/ IsStrictPrefix(path, PathAt(tokens, n - 1)) /\ Depth(tokens, n) > Len(path)
              \/ PathAt(tokens, n - 1) = path /\ tokens[n].type = "{"
    BY BelowStep
  <2> QED BY <2>1
<1>10. p = path => D = Len(path)
  BY <1>3
<1>11. token.type \notin {"text", "prefix"}
  BY <1>0 DEF IsDocument
<1>12. Advance(path, p, D, token, q, E)
  BY <1>0, <1>2, <1>4, <1>5, <1>6, <1>7, <1>8, <1>9, <1>10, <1>11 DEF Advance, StartsMap
<1> QED BY <1>12

(* Below the path, the emitter writes a token, and emits what it has       *)
(* written when the token leaves the path.                                 *)
Writes(path, e, token, q, deep, next) ==
  /\ next \in Emitter /\ next.current_path = q /\ ~next.failed /\ ~next.complete
  /\ IF deep > Len(path)
     THEN /\ next.buf = e.buf \o WrittenOf(token)
          /\ next.depth = deep - Len(path)
          /\ next.emitted = e.emitted
     ELSE /\ deep = Len(path)
          /\ next.buf = <<>> /\ next.depth = 0
          /\ next.emitted = Append(e.emitted, e.buf \o WrittenOf(token))

(* The depth at which the generator is. *)
LEMMA AdvanceDepth ==
  ASSUME NEW path, NEW p, NEW depth, NEW token, NEW q, NEW deep,
         Advance(path, p, depth, token, q, deep), IsStrictPrefix(path, p),
         NEW e \in Emitter, e.depth = depth - Len(path)
  PROVE  /\ e.depth # 0
         /\ Opens(token) => e.depth + 1 = deep - Len(path) /\ deep > Len(path) /\ e.depth + 1 # 0
         /\ Closes(token) =>
              /\ e.depth - 1 = deep - Len(path)
              /\ IF deep > Len(path) THEN e.depth - 1 # 0 ELSE deep = Len(path)
         /\ ~Opens(token) /\ ~Closes(token) => e.depth = deep - Len(path) /\ deep > Len(path)
<1>1. Len(path) \in Nat /\ depth \in Nat /\ deep \in Nat /\ Len(path) < depth
  BY DEF Advance
<1>2. /\ Opens(token) => deep = depth + 1
      /\ Closes(token) => deep = depth - 1
      /\ ~Opens(token) /\ ~Closes(token) => deep = depth
  BY DEF Advance
<1> QED BY <1>1, <1>2

(* Any other token than null is written as it is. *)
LEMMA TokenWritten ==
  ASSUME NEW e \in Emitter, NEW token \in Piece, token.type # "null"
  PROVE  Append(e.buf, token) = e.buf \o WrittenOf(token)
<1>1. e.buf \in Seq(Piece)
  BY DEF Emitter
<1>2. Append(e.buf, token) = e.buf \o <<token>>
  BY <1>1, AppendToken
<1> QED BY <1>2 DEF WrittenOf

(* null is written as an object without members. *)
LEMMA BracesWritten ==
  ASSUME NEW buf \in Seq(Piece), NEW token, token.type = "null"
  PROVE  Append(Append(buf, StartBrace), EndBrace) = buf \o WrittenOf(token)
<1>1. \A a, b \in Piece : Append(Append(buf, a), b) = buf \o <<a, b>>
  BY AppendToken
<1>2. Append(Append(buf, StartBrace), EndBrace) = buf \o <<StartBrace, EndBrace>>
  BY <1>1, BraceFacts
<1>3. WrittenOf(token) = <<StartBrace, EndBrace>>
  BY DEF WrittenOf, StartBrace, EndBrace
<1> QED BY <1>2, <1>3

(* Below the path the emitter writes what begins an object ... *)
LEMMA StartMapWrites ==
  ASSUME NEW path, NEW p, NEW depth, NEW token, NEW q, NEW deep,
         Advance(path, p, depth, token, q, deep), IsStrictPrefix(path, p),
         NEW e \in Emitter, ~e.failed, ~e.complete, e.current_path = p, e.depth = depth - Len(path),
         StartsMap(token)
  PROVE  Writes(path, e, token, q, deep, OnToken(path, e, token))
<1>1. /\ token \in Piece /\ token.key = NoKey /\ NoKey \in Component
      /\ Opens(token) /\ ~Closes(token) /\ token.type # "null"
  BY PieceIs DEF Advance, Opens, Closes, Component, StartsMap
<1>0. deep > Len(path) /\ e.depth + 1 = deep - Len(path) /\ e.depth + 1 # 0
  BY <1>1, AdvanceDepth
<1>9. q = Append(p, token.key) /\ IsStrictPrefix(path, q)
  BY <1>0 DEF Advance
<1> PICK pushed : pushed = Push(e, NoKey)
  OBVIOUS
<1>2. Moved(e, pushed, q)
  BY <1>1, <1>9, PushMoves
<1> PICK next : next = Generate(pushed, token.type, token.key)
  OBVIOUS
<1>3. OnToken(path, e, token) = next
  BY <1>1, <1>2, <1>9 DEF OnToken, OnStartMap, GenerateIf, IsEmitting, Moved, StartsMap
<1>4. Generated(pushed, next, token)
  <2>1. pushed \in Emitter /\ ~pushed.complete
    BY <1>2 DEF Moved
  <2> QED BY <1>1, <2>1, GenerateFacts
<1>5. Append(e.buf, token) = e.buf \o WrittenOf(token)
  BY <1>1, TokenWritten
<1>6. /\ next \in Emitter /\ next.current_path = q /\ ~next.failed
      /\ next.emitted = e.emitted /\ next.buf = e.buf \o WrittenOf(token)
      /\ next.depth = e.depth + 1 /\ (next.complete <=> next.depth = 0)
  BY <1>1, <1>2, <1>4, <1>5 DEF Moved, Generated
<1>7. next.depth = deep - Len(path) /\ next.depth # 0 /\ deep > Len(path)
  BY <1>0, <1>6
<1> QED BY <1>3, <1>6, <1>7 DEF Writes

(* ... what begins an array ... *)
LEMMA StartArrayWrites ==
  ASSUME NEW path, NEW p, NEW depth, NEW token, NEW q, NEW deep,
         Advance(path, p, depth, token, q, deep), IsStrictPrefix(path, p),
         NEW e \in Emitter, ~e.failed, ~e.complete, e.current_path = p, e.depth = depth - Len(path),
         token.type = "["
  PROVE  Writes(path, e, token, q, deep, OnToken(path, e, token))
<1>1. /\ token \in Piece /\ token.key = NoKey /\ Item \in Component
      /\ Opens(token) /\ ~Closes(token)
  BY PieceIs DEF Advance, Opens, Closes, Component
<1>0. deep > Len(path) /\ e.depth + 1 = deep - Len(path) /\ e.depth + 1 # 0
  BY <1>1, AdvanceDepth
<1>9. q = Append(p, Item)
  BY DEF Advance
<1> PICK written : written = Generate(e, token.type, token.key)
  OBVIOUS
<1>2. Generated(e, written, token)
  BY <1>1, GenerateFacts
<1> PICK next : next = Push(written, Item)
  OBVIOUS
<1>3. OnToken(path, e, token) = next
  BY <1>1 DEF OnToken, OnStartArray, GenerateIf, IsEmitting
<1>4. Moved(written, next, q)
  <2>1. written \in Emitter /\ written.current_path = p
    BY <1>2 DEF Generated
  <2> QED BY <1>1, <1>9, <2>1, PushMoves
<1>5. Append(e.buf, token) = e.buf \o WrittenOf(token)
  BY <1>1, TokenWritten
<1>6. /\ next \in Emitter /\ next.current_path = q /\ ~next.failed
      /\ next.emitted = e.emitted /\ next.buf = e.buf \o WrittenOf(token)
      /\ next.depth = e.depth + 1 /\ (next.complete <=> next.depth = 0)
  BY <1>1, <1>2, <1>4, <1>5 DEF Moved, Generated
<1>7. next.depth = deep - Len(path) /\ next.depth # 0 /\ deep > Len(path)
  BY <1>0, <1>6
<1> QED BY <1>3, <1>6, <1>7 DEF Writes

(* ... a key ... *)
LEMMA KeyWrites ==
  ASSUME NEW path, NEW p, NEW depth, NEW token, NEW q, NEW deep,
         Advance(path, p, depth, token, q, deep), IsStrictPrefix(path, p),
         NEW e \in Emitter, ~e.failed, ~e.complete, e.current_path = p, e.depth = depth - Len(path),
         token.type = "key"
  PROVE  Writes(path, e, token, q, deep, OnToken(path, e, token))
<1>1. /\ token \in Piece /\ token.key \in Component
      /\ ~Opens(token) /\ ~Closes(token)
  BY PieceIs DEF Advance, Opens, Closes
<1>0. deep > Len(path) /\ e.depth = deep - Len(path) /\ e.depth # 0
  BY <1>1, AdvanceDepth
<1>9. p # <<>> /\ q = Append(Front(p), token.key) /\ IsStrictPrefix(path, q)
  <2>1. p # <<>> /\ q = Append(Front(p), token.key)
    BY DEF Advance
  <2>2. IsStrictPrefix(path, q)
    BY <1>0 DEF Advance
  <2> QED BY <2>1, <2>2
<1> PICK popped : popped = Pop(e)
  OBVIOUS
<1>2. Moved(e, popped, Front(p))
  BY <1>9, PopMoves
<1> PICK moved : moved = Push(popped, token.key)
  OBVIOUS
<1>3. Moved(popped, moved, q)
  <2>1. popped \in Emitter /\ popped.current_path = Front(p)
    BY <1>2 DEF Moved
  <2> QED BY <1>1, <1>9, <2>1, PushMoves
<1> PICK next : next = Generate(moved, token.type, token.key)
  OBVIOUS
<1>4. OnToken(path, e, token) = next
  BY <1>3, <1>9 DEF OnToken, OnKey, GenerateIf, IsEmitting, Moved
<1>5. Generated(moved, next, token)
  <2>1. moved \in Emitter /\ ~moved.complete
    BY <1>2, <1>3 DEF Moved
  <2> QED BY <1>1, <2>1, GenerateFacts
<1>6. Append(e.buf, token) = e.buf \o WrittenOf(token)
  BY <1>1, TokenWritten
<1>7. /\ next \in Emitter /\ next.current_path = q /\ ~next.failed
      /\ next.emitted = e.emitted /\ next.buf = e.buf \o WrittenOf(token)
      /\ next.depth = e.depth /\ (next.complete <=> next.depth = 0)
  BY <1>1, <1>2, <1>3, <1>5, <1>6 DEF Moved, Generated
<1>8. next.depth = deep - Len(path) /\ next.depth # 0 /\ deep > Len(path)
  BY <1>0, <1>7
<1> QED BY <1>4, <1>7, <1>8 DEF Writes

(* ... what ends either, handing out the object that this ends ... *)
LEMMA EndWrites ==
  ASSUME NEW path, NEW p, NEW depth, NEW token, NEW q, NEW deep,
         Advance(path, p, depth, token, q, deep), IsStrictPrefix(path, p),
         NEW e \in Emitter, ~e.failed, ~e.complete, e.current_path = p, e.depth = depth - Len(path),
         Closes(token)
  PROVE  Writes(path, e, token, q, deep, OnToken(path, e, token))
<1>1. /\ token \in Piece /\ token.key = NoKey /\ token.type \in {"}", "]"}
      /\ ~Opens(token) /\ token.type # "null"
  BY PieceIs DEF Advance, Opens, Closes
<1>2. /\ e.depth # 0 /\ e.depth - 1 = deep - Len(path)
      /\ IF deep > Len(path) THEN e.depth - 1 # 0 ELSE deep = Len(path)
  BY AdvanceDepth
<1>0. p # <<>> /\ q = Front(p) /\ (IsStrictPrefix(path, q) <=> deep > Len(path))
  <2>1. p # <<>> /\ q = Front(p)
    BY DEF Advance
  <2>2. ~StartsMap(token)
    BY <1>1 DEF StartsMap
  <2>3. IsStrictPrefix(path, q) <=> deep > Len(path)
    BY <2>2 DEF Advance
  <2> QED BY <2>1, <2>3
<1> PICK written : written = Generate(e, token.type, token.key)
  OBVIOUS
<1>3. Generated(e, written, token)
  BY <1>1, <1>2, GenerateFacts
<1> PICK popped : popped = Pop(written)
  OBVIOUS
<1>4. Moved(written, popped, q)
  <2>1. written \in Emitter /\ written.current_path = p
    BY <1>3 DEF Generated
  <2> QED BY <1>0, <2>1, PopMoves
<1>5. OnToken(path, e, token) = IF deep > Len(path) THEN popped ELSE Emit(popped)
  <2>1. OnToken(path, e, token) = OnEnd(path, e, token.type)
    BY <1>1 DEF OnToken
  <2>2. IsEmitting(path, e) /\ (IsEmitting(path, popped) <=> deep > Len(path))
    BY <1>0, <1>4 DEF IsEmitting, Moved
  <2> QED BY <1>1, <2>1, <2>2 DEF OnEnd, GenerateIf
<1>6. Append(e.buf, token) = e.buf \o WrittenOf(token)
  BY <1>1, TokenWritten
<1>7. /\ popped \in Emitter /\ popped.current_path = q /\ ~popped.failed
      /\ popped.emitted = e.emitted /\ popped.buf = e.buf \o WrittenOf(token)
      /\ popped.depth = e.depth - 1 /\ (popped.complete <=> popped.depth = 0)
  BY <1>3, <1>4, <1>6 DEF Moved, Generated
<1>8. CASE deep > Len(path)
  <2>1. popped.depth = deep - Len(path) /\ popped.depth # 0
    BY <1>2, <1>7, <1>8
  <2> QED BY <1>5, <1>7, <1>8, <2>1 DEF Writes
<1>9. CASE ~(deep > Len(path))
  <2> PICK next : next = Emit(popped)
    OBVIOUS
  <2>1. OnToken(path, e, token) = next /\ deep = Len(path)
    BY <1>2, <1>5, <1>9
  <2>2. /\ next \in Emitter /\ next.current_path = popped.current_path /\ (next.failed <=> popped.failed)
        /\ next.emitted = Append(popped.emitted, popped.buf)
        /\ next.buf = <<>> /\ next.depth = 0 /\ ~next.complete
    BY <1>7, EmitFacts
  <2> QED BY <1>7, <1>9, <2>1, <2>2 DEF Writes
<1> QED BY <1>8, <1>9

(* ... a null ... *)
LEMMA NullWrites ==
  ASSUME NEW path, NEW p, NEW depth, NEW token, NEW q, NEW deep,
         Advance(path, p, depth, token, q, deep), IsStrictPrefix(path, p),
         NEW e \in Emitter, ~e.failed, ~e.complete, e.current_path = p, e.depth = depth - Len(path),
         token.type = "null"
  PROVE  Writes(path, e, token, q, deep, OnToken(path, e, token))
<1>1. ~Opens(token) /\ ~Closes(token) /\ ~Enters(token)
  BY DEF Opens, Closes, Enters
<1>0. deep > Len(path) /\ e.depth = deep - Len(path) /\ e.depth # 0
  BY <1>1, AdvanceDepth
<1>10. q = p /\ e.depth \in Int /\ e.depth > 0
  <2>1. Len(path) \in Nat /\ deep \in Nat
    BY DEF Advance
  <2>2. e.depth \in Int /\ e.depth > 0
    BY <1>0, <2>1
  <2> QED BY <1>1, <2>2 DEF Advance
<1> PICK begun : begun = Generate(e, StartBrace.type, StartBrace.key)
  OBVIOUS
<1>2. Generated(e, begun, StartBrace)
  BY BraceFacts, GenerateFacts
<1>3. begun.depth = e.depth + 1 /\ (begun.complete <=> begun.depth = 0) /\ begun \in Emitter
  BY <1>2, BraceFacts DEF Generated
<1>4. begun.depth # 0 /\ ~begun.complete
  BY <1>3, <1>10
<1> PICK next : next = Generate(begun, EndBrace.type, EndBrace.key)
  OBVIOUS
<1>5. Generated(begun, next, EndBrace)
  BY <1>3, <1>4, BraceFacts, GenerateFacts
<1>6. OnToken(path, e, token) = next
  BY DEF OnToken, OnNull, IsEmitting, StartBrace, EndBrace, Token
<1>7. Append(Append(e.buf, StartBrace), EndBrace) = e.buf \o WrittenOf(token)
  <2>1. e.buf \in Seq(Piece)
    BY DEF Emitter
  <2> QED BY <2>1, BracesWritten
<1>8. /\ next \in Emitter /\ next.current_path = q /\ ~next.failed
      /\ next.emitted = e.emitted /\ next.buf = e.buf \o WrittenOf(token)
      /\ next.depth = begun.depth - 1 /\ (next.complete <=> next.depth = 0)
  BY <1>2, <1>5, <1>7, <1>10, BraceFacts DEF Generated
<1>9. next.depth = deep - Len(path) /\ next.depth # 0 /\ deep > Len(path)
  <2>1. next.depth = e.depth
    BY <1>3, <1>8, <1>10
  <2> QED BY <1>0, <2>1
<1> QED BY <1>6, <1>8, <1>9 DEF Writes

(* ... and any other value. *)
LEMMA ValueWrites ==
  ASSUME NEW path, NEW p, NEW depth, NEW token, NEW q, NEW deep,
         Advance(path, p, depth, token, q, deep), IsStrictPrefix(path, p),
         NEW e \in Emitter, ~e.failed, ~e.complete, e.current_path = p, e.depth = depth - Len(path),
         token.type \in {"string", "number"}
  PROVE  Writes(path, e, token, q, deep, OnToken(path, e, token))
<1>1. /\ token \in Piece /\ token.key = NoKey
      /\ ~Opens(token) /\ ~Closes(token) /\ ~Enters(token) /\ token.type # "null"
  BY PieceIs DEF Advance, Opens, Closes, Enters
<1>0. deep > Len(path) /\ e.depth = deep - Len(path) /\ e.depth # 0
  BY <1>1, AdvanceDepth
<1>9. q = p
  BY <1>1 DEF Advance
<1> PICK next : next = Generate(e, token.type, token.key)
  OBVIOUS
<1>2. Generated(e, next, token)
  BY <1>1, GenerateFacts
<1>3. OnToken(path, e, token) = next
  BY <1>1 DEF OnToken, OnString, OnNumber, GenerateIf, IsEmitting
<1>4. Append(e.buf, token) = e.buf \o WrittenOf(token)
  BY <1>1, TokenWritten
<1>5. /\ next \in Emitter /\ next.current_path = q /\ ~next.failed
      /\ next.emitted = e.emitted /\ next.buf = e.buf \o WrittenOf(token)
      /\ next.depth = e.depth /\ (next.complete <=> next.depth = 0)
  BY <1>1, <1>2, <1>4, <1>9 DEF Generated
<1>6. next.depth = deep - Len(path) /\ next.depth # 0 /\ deep > Len(path)
  BY <1>0, <1>5
<1> QED BY <1>3, <1>5, <1>6 DEF Writes

(* Below the path the emitter writes every token of a document. *)
LEMMA TokenWrites ==
  ASSUME NEW path, NEW p, NEW depth, NEW token, NEW q, NEW deep,
         Advance(path, p, depth, token, q, deep), IsStrictPrefix(path, p),
         NEW e \in Emitter, ~e.failed, ~e.complete, e.current_path = p, e.depth = depth - Len(path)
  PROVE  Writes(path, e, token, q, deep, OnToken(path, e, token))
<1>1. \/ StartsMap(token) \/ token.type = "[" \/ token.type = "key" \/ Closes(token)
      \/ token.type = "null" \/ token.type \in {"string", "number"}
  BY PieceIs DEF Advance, Closes, StartsMap
<1> QED BY <1>1, StartMapWrites, StartArrayWrites, KeyWrites, EndWrites, NullWrites, ValueWrites

(* Elsewhere the emitter follows the path only, but for an object that     *)
(* begins at the path and a string at a path of one component.             *)
StringAt(path, p, token) == p = path /\ token.type = "string" /\ Len(path) = 1

Skips(path, p, e, token, q, next) ==
  /\ next \in Emitter /\ next.current_path = q /\ ~next.failed /\ ~next.complete
  /\ IF p = path /\ StartsMap(token)
     THEN next.buf = <<token>> /\ next.depth = 1
     ELSE next.buf = <<>> /\ next.depth = 0
  /\ next.emitted = IF StringAt(path, p, token) THEN Append(e.emitted, <<token>>) ELSE e.emitted

(* An object that begins at the path is written from its beginning. *)
LEMMA StartMapSkips ==
  ASSUME NEW path, NEW p, NEW depth, NEW token, NEW q, NEW deep,
         Advance(path, p, depth, token, q, deep), ~IsStrictPrefix(path, p),
         NEW e \in Emitter, ~e.failed, ~e.complete, e.current_path = p, e.depth = 0, e.buf = <<>>,
         StartsMap(token)
  PROVE  Skips(path, p, e, token, q, OnToken(path, e, token))
<1>1. /\ token \in Piece /\ token.key = NoKey /\ NoKey \in Component
      /\ Opens(token) /\ ~Closes(token) /\ token.type # "string"
  BY PieceIs DEF Advance, Opens, Closes, Component, StartsMap
<1>2. q = Append(p, token.key) /\ (IsStrictPrefix(path, q) <=> p = path)
  BY DEF Advance
<1> PICK pushed : pushed = Push(e, NoKey)
  OBVIOUS
<1>3. Moved(e, pushed, q)
  BY <1>1, <1>2, PushMoves
<1>4. OnToken(path, e, token) = IF p = path THEN Generate(pushed, token.type, token.key) ELSE pushed
  BY <1>1, <1>2, <1>3 DEF OnToken, OnStartMap, GenerateIf, IsEmitting, Moved, StartsMap
<1>5. CASE p = path
  <2> PICK next : next = Generate(pushed, token.type, token.key)
    OBVIOUS
  <2>1. Generated(pushed, next, token)
    <3>1. pushed \in Emitter /\ ~pushed.complete
      BY <1>3 DEF Moved
    <3> QED BY <1>1, <3>1, GenerateFacts
  <2>2. next.buf = <<token>>
    <3>1. next.buf = Append(e.buf, token)
      BY <1>3, <2>1 DEF Generated, Moved
    <3>2. Append(<<>>, token) = <<token>>
      OBVIOUS
    <3> QED BY <3>1, <3>2
  <2>3. next.depth = 1 /\ ~next.complete
    <3>1. next.depth = e.depth + 1 /\ (next.complete <=> next.depth = 0)
      BY <1>1, <1>3, <2>1 DEF Generated, Moved
    <3> QED BY <3>1
  <2>4. next \in Emitter /\ next.current_path = q /\ ~next.failed /\ next.emitted = e.emitted
    BY <1>3, <2>1 DEF Generated, Moved
  <2> QED BY <1>1, <1>4, <1>5, <2>2, <2>3, <2>4 DEF Skips, StringAt
<1>6. CASE p # path
  BY <1>1, <1>3, <1>4, <1>6 DEF Skips, StringAt, Moved
<1> QED BY <1>5, <1>6

(* A string at the path is handed out. *)
LEMMA StringSkips ==
  ASSUME NEW path, NEW p, NEW depth, NEW token, NEW q, NEW deep,
         Advance(path, p, depth, token, q, deep), ~IsStrictPrefix(path, p),
         NEW e \in Emitter, ~e.failed, ~e.complete, e.current_path = p, e.depth = 0, e.buf = <<>>,
         token.type = "string"
  PROVE  Skips(path, p, e, token, q, OnToken(path, e, token))
<1>1. /\ token \in Piece /\ token.key = NoKey /\ token = Token("string")
      /\ ~Enters(token) /\ ~Closes(token) /\ ~StartsMap(token)
  BY PieceIs DEF Advance, Opens, Closes, Enters, StartsMap, Token
<1>2. q = p
  BY <1>1 DEF Advance
<1>3. IsSubpath(path, e) <=> path = p
  <2>1. path \in Seq(Component) /\ p \in Seq(Component)
    BY DEF Advance
  <2>2. \A x \in Component : IsPrefix(path, p) <=> path = p \/ IsStrictPrefix(path, p)
    BY <2>1, PrefixOfAppend
  <2>3. NoKey \in Component
    BY DEF Component
  <2> QED BY <2>2, <2>3 DEF IsSubpath
<1>4. OnToken(path, e, token) = IF StringAt(path, p, token) THEN [e EXCEPT !.emitted = Append(@, <<token>>)] ELSE e
  BY <1>1, <1>3 DEF OnToken, OnString, GenerateIf, IsEmitting, StringAt
<1>5. CASE StringAt(path, p, token)
  <2>1. OnToken(path, e, token) \in Emitter
    BY <1>1, OnTokenType
  <2> PICK emitted : emitted = Append(e.emitted, <<token>>)
    OBVIOUS
  <2>2. OnToken(path, e, token) = [e EXCEPT !.emitted = emitted]
    BY <1>4, <1>5
  <2> PICK next \in Emitter : next = OnToken(path, e, token)
    BY <2>1
  <2>3. /\ next.emitted = emitted /\ next.current_path = e.current_path /\ (next.failed <=> e.failed)
        /\ (next.complete <=> e.complete) /\ next.buf = e.buf /\ next.depth = e.depth
    BY <2>2 DEF Emitter
  <2> QED BY <1>1, <1>2, <1>5, <2>3 DEF Skips
<1>6. CASE ~StringAt(path, p, token)
  BY <1>1, <1>2, <1>4, <1>6 DEF Skips
<1> QED BY <1>5, <1>6

(* Outside the path the emitter follows where it is and writes nothing else. *)
LEMMA TokenSkips ==
  ASSUME NEW path, NEW p, NEW depth, NEW token, NEW q, NEW deep,
         Advance(path, p, depth, token, q, deep), ~IsStrictPrefix(path, p),
         NEW e \in Emitter, ~e.failed, ~e.complete, e.current_path = p, e.depth = 0, e.buf = <<>>
  PROVE  Skips(path, p, e, token, q, OnToken(path, e, token))
<1>0. ~IsEmitting(path, e)
  BY DEF IsEmitting
<1>1. \/ StartsMap(token) \/ token.type = "[" \/ token.type = "key" \/ Closes(token)
      \/ token.type \in {"null", "number"} \/ token.type = "string"
  BY PieceIs DEF Advance, Closes, StartsMap
<1>2. \A next : Moved(e, next, q) /\ ~StartsMap(token) /\ token.type # "string"
                  => Skips(path, p, e, token, q, next)
  BY DEF Moved, Skips, StringAt
<1>3. CASE token.type = "["
  <2>1. q = Append(p, Item) /\ Item \in Component /\ ~StartsMap(token)
    BY <1>3 DEF Advance, Component, StartsMap
  <2>2. OnToken(path, e, token) = Push(e, Item)
    BY <1>0, <1>3 DEF OnToken, OnStartArray, GenerateIf
  <2> QED BY <1>2, <1>3, <2>1, <2>2, PushMoves
<1>4. CASE token.type = "key"
  <2>1. ~StartsMap(token) /\ token.key \in Component
    BY <1>4, PieceIs DEF Advance, StartsMap
  <2>2. p # <<>> /\ q = Append(Front(p), token.key)
    BY <1>4 DEF Advance
  <2>3. ~IsStrictPrefix(path, q)
    BY <2>1 DEF Advance
  <2> PICK popped : popped = Pop(e)
    OBVIOUS
  <2>4. Moved(e, popped, Front(p))
    BY <2>2, PopMoves
  <2> PICK moved : moved = Push(popped, token.key)
    OBVIOUS
  <2>5. Moved(popped, moved, q)
    <3>1. popped \in Emitter /\ popped.current_path = Front(p)
      BY <2>4 DEF Moved
    <3> QED BY <2>1, <2>2, <3>1, PushMoves
  <2>6. Moved(e, moved, q)
    BY <2>4, <2>5 DEF Moved
  <2>7. OnToken(path, e, token) = moved
    BY <1>4, <2>3, <2>5 DEF OnToken, OnKey, GenerateIf, IsEmitting, Moved
  <2> QED BY <1>2, <1>4, <2>1, <2>6, <2>7
<1>5. CASE Closes(token)
  <2>1. ~StartsMap(token) /\ token.type # "string"
    BY <1>5 DEF StartsMap, Closes
  <2>2. p # <<>> /\ q = Front(p)
    BY <1>5 DEF Advance
  <2>3. Moved(e, Pop(e), q)
    BY <2>2, PopMoves
  <2>4. OnToken(path, e, token) = Pop(e)
    BY <1>0, <1>5 DEF OnToken, OnEnd, GenerateIf, Closes
  <2> QED BY <1>2, <2>1, <2>3, <2>4
<1>6. CASE token.type \in {"null", "number"}
  <2>1. ~StartsMap(token) /\ token.type # "string" /\ ~Enters(token) /\ ~Closes(token)
    BY <1>6 DEF StartsMap, Closes, Enters, Opens
  <2>2. q = p
    BY <2>1 DEF Advance
  <2>3. Moved(e, e, q)
    BY <2>2 DEF Moved
  <2>4. OnToken(path, e, token) = e
    BY <1>0, <1>6 DEF OnToken, OnNull, OnNumber, GenerateIf
  <2> QED BY <1>2, <2>1, <2>3, <2>4
<1> QED BY <1>1, <1>3, <1>4, <1>5, <1>6, StartMapSkips, StringSkips

(* One token of a document: the emitter still follows it, and emits the    *)
(* piece that has ended, if one has.                                       *)
LEMMA FollowingStep ==
  ASSUME NEW path, NEW tokens, Selectable(path, tokens), NEW n \in 1..Len(tokens),
         NEW e, Following(path, tokens, n - 1, e)
  PROVE  LET next == OnToken(path, e, tokens[n]) IN
           /\ Following(path, tokens, n, next)
           /\ next.emitted = e.emitted \o Ended(path, tokens, n)
<1> PICK p : p = PathAt(tokens, n - 1)
  OBVIOUS
<1> PICK q : q = PathAt(tokens, n)
  OBVIOUS
<1> PICK depth : depth = Depth(tokens, n - 1)
  OBVIOUS
<1> PICK deep : deep = Depth(tokens, n)
  OBVIOUS
<1> PICK token : token = tokens[n]
  OBVIOUS
<1> PICK next : next = OnToken(path, e, token)
  OBVIOUS
<1>1. Advance(path, p, depth, token, q, deep)
  BY DocumentAdvances
<1>2. e \in Emitter /\ ~e.failed /\ ~e.complete /\ e.current_path = p
  BY DEF Following
<1>3. tokens \in Seq(Piece) /\ Len(tokens) \in Nat /\ n \in 1..n /\ n - 1 \in 0..Len(tokens) /\ n \in 0..Len(tokens)
  BY LenProperties DEF Selectable
<1>4. e.emitted \in Seq(Seq(Piece)) /\ e.buf \in Seq(Piece) /\ token \in Piece
  BY <1>1, <1>2 DEF Emitter, Advance
<1>5. CASE IsStrictPrefix(path, p)
  <2> PICK i \in 1..(n - 1) : /\ OpenPiece(path, tokens, i, n - 1)
                             /\ e.buf = AsWritten(SubSeq(tokens, i, n - 1))
                             /\ e.depth = depth - Len(path)
    BY <1>5 DEF Following, Holds
  <2>1. Writes(path, e, token, q, deep, next)
    BY <1>1, <1>2, <1>5, TokenWrites
  <2>2. i \in 1..n /\ i # n
    BY <1>3
  <2>3. e.buf \o WrittenOf(token) = AsWritten(SubSeq(tokens, i, n))
    BY <1>3, <2>2, WriteMore
  <2>4. ~StringAt(path, p, token) /\ p # path
    BY <1>1, <1>5 DEF Advance, StringAt
  <2>5. CASE deep > Len(path)
    <3>1. IsStrictPrefix(path, q)
      BY <1>1, <1>5, <2>5 DEF Advance
    <3>2. OpenPiece(path, tokens, i, n)
      BY <2>2, <2>5, OpenStep
    <3>3. /\ next \in Emitter /\ next.current_path = q /\ ~next.failed /\ ~next.complete
          /\ next.buf = AsWritten(SubSeq(tokens, i, n))
          /\ next.depth = deep - Len(path) /\ next.emitted = e.emitted
      BY <2>1, <2>3, <2>5 DEF Writes
    <3>4. Following(path, tokens, n, next)
      BY <2>2, <3>1, <3>2, <3>3 DEF Following, Holds
    <3>5. Ended(path, tokens, n) = <<>>
      <4>1. Depth(tokens, n) # Len(path)
        <5>1. deep \in Nat /\ Len(path) \in Nat
          BY <1>1 DEF Advance
        <5> QED BY <2>5, <5>1
      <4> QED BY <2>4, <4>1, EndedNothing
    <3>6. e.emitted \o <<>> = e.emitted
      BY <1>4, ConcatEmptySeq
    <3> QED BY <3>3, <3>4, <3>5, <3>6
  <2>6. CASE ~(deep > Len(path))
    <3>1. ~IsStrictPrefix(path, q)
      BY <1>1, <2>4, <2>6 DEF Advance
    <3>2. /\ next \in Emitter /\ next.current_path = q /\ ~next.failed /\ ~next.complete
          /\ deep = Len(path) /\ next.buf = <<>> /\ next.depth = 0
          /\ next.emitted = Append(e.emitted, AsWritten(SubSeq(tokens, i, n)))
      BY <2>1, <2>3, <2>6 DEF Writes
    <3>3. Following(path, tokens, n, next)
      BY <3>1, <3>2 DEF Following
    <3>4. Ended(path, tokens, n) = <<AsWritten(SubSeq(tokens, i, n))>>
      <4>1. Depth(tokens, n) = Len(path) /\ OpenPiece(path, tokens, i, n - 1)
        BY <3>2
      <4> QED BY <4>1, EndedObject
    <3>5. Append(e.emitted, AsWritten(SubSeq(tokens, i, n))) = e.emitted \o <<AsWritten(SubSeq(tokens, i, n))>>
      <4>1. e.emitted \in Seq(Body) /\ AsWritten(SubSeq(tokens, i, n)) \in Body
        BY <1>3, <1>4, <2>2, PieceIsBody, SeqMonotonic, WriteMore
      <4> QED BY <4>1, AppendIsConcat
    <3> QED BY <3>2, <3>3, <3>4, <3>5
  <2> QED BY <2>5, <2>6
<1>6. CASE ~IsStrictPrefix(path, p)
  <2>1. Skips(path, p, e, token, q, next)
    <3>1. e.depth = 0 /\ e.buf = <<>>
      BY <1>6 DEF Following
    <3> QED BY <1>1, <1>2, <1>6, <3>1, TokenSkips
  <2>2. IsStrictPrefix(path, q) <=> p = path /\ StartsMap(token)
    BY <1>1, <1>6 DEF Advance
  <2>3. <<token>> = AsWritten(SubSeq(tokens, n, n)) \/ token.type = "null"
    <3>1. AsWritten(SubSeq(tokens, n, n)) = <<>> \o WrittenOf(token)
      BY <1>3, WriteMore
    <3>2. <<>> \o WrittenOf(token) = WrittenOf(token)
      BY <1>4, WrittenOfType, ConcatEmptySeq
    <3> QED BY <3>1, <3>2 DEF WrittenOf
  <2>4. Following(path, tokens, n, next)
    <3>1. CASE p = path /\ StartsMap(token)
      <4>1. OpenPiece(path, tokens, n, n)
        BY <1>3, <3>1, OpenStep DEF StartsMap
      <4>2. next.buf = AsWritten(SubSeq(tokens, n, n)) /\ next.depth = 1
        BY <2>1, <2>3, <3>1 DEF Skips, StartsMap
      <4>3. deep - Len(path) = 1
        <5>1. depth = Len(path) /\ Len(path) \in Nat
          BY <1>1, <3>1 DEF Advance
        <5>2. deep = depth + 1
          BY <1>1, <3>1 DEF Advance, StartsMap, Opens
        <5> QED BY <5>1, <5>2
      <4>4. Holds(path, tokens, n, next)
        BY <1>3, <4>1, <4>2, <4>3 DEF Holds
      <4> QED BY <2>1, <2>2, <3>1, <4>4 DEF Following, Skips
    <3>2. CASE ~(p = path /\ StartsMap(token))
      BY <2>1, <2>2, <3>2 DEF Following, Skips
    <3> QED BY <3>1, <3>2
  <2>5. CASE StringAt(path, p, token)
    <3>1. Ended(path, tokens, n) = <<AsWritten(SubSeq(tokens, n, n))>>
      BY <2>5, EndedString DEF StringAt
    <3>2. <<token>> = AsWritten(SubSeq(tokens, n, n))
      BY <2>3, <2>5 DEF StringAt
    <3>3. next.emitted = Append(e.emitted, <<token>>)
      BY <2>1, <2>5 DEF Skips
    <3>4. Append(e.emitted, <<token>>) = e.emitted \o <<<<token>>>>
      <4>1. <<token>> \in Seq(Piece)
        <5>1. \A t \in Piece : <<t>> \in Seq(Piece)
          OBVIOUS
        <5> QED BY <1>4, <5>1
      <4> QED BY <1>4, <4>1, AppendIsConcat
    <3> QED BY <2>4, <3>1, <3>2, <3>3, <3>4
  <2>6. CASE ~StringAt(path, p, token)
    <3>1. Ended(path, tokens, n) = <<>>
      BY <1>6, <2>6, EndedNothing DEF StringAt
    <3>2. next.emitted = e.emitted
      BY <2>1, <2>6 DEF Skips
    <3>3. e.emitted \o <<>> = e.emitted
      BY <1>4, ConcatEmptySeq
    <3> QED BY <2>4, <3>1, <3>2, <3>3
  <2> QED BY <2>5, <2>6
<1> QED BY <1>5, <1>6

-----------------------------------------------------------------------------
(* Parsing a chunk of a document: what the emitter hands out *)

(* What was emitted is no concern of the emitter. *)
LEMMA FollowingFresh ==
  ASSUME NEW path, NEW tokens, NEW n, NEW e, Following(path, tokens, n, e)
  PROVE  Following(path, tokens, n, Fresh(e)) /\ Fresh(e).emitted = <<>>
<1>1. e \in Emitter /\ Fresh(e) \in Emitter
  BY FreshType DEF Following
<1>2. /\ Fresh(e).emitted = <<>> /\ Fresh(e).current_path = e.current_path
      /\ (Fresh(e).failed <=> e.failed) /\ (Fresh(e).complete <=> e.complete)
      /\ Fresh(e).buf = e.buf /\ Fresh(e).depth = e.depth
  BY <1>1 DEF Fresh, Emitter
<1> QED BY <1>1, <1>2 DEF Following, Holds

(* A new emitter is at the beginning of any document. *)
LEMMA FollowingNew ==
  ASSUME NEW path, NEW tokens
  PROVE  Following(path, tokens, 0, NewEmitter)
<1>1. PathAt(tokens, 0) = <<>>
  BY DepthZero DEF PathAt
<1>2. NewEmitter \in Emitter
  BY NewEmitterType
<1>3. ~IsStrictPrefix(path, <<>>)
  BY DEF IsStrictPrefix, IsPrefix
<1> QED BY <1>1, <1>2, <1>3 DEF Following, NewEmitter

(* After m tokens the emitter still follows, and has handed out the pieces *)
(* that have ended since.                                                  *)
Carried(path, D, before, m, parsed) ==
  /\ Following(path, D, m, Fresh(parsed))
  /\ Pieces(path, D)[m] = Pieces(path, D)[before] \o parsed.emitted

(* Joining sequences of bodies is associative. *)
Joins(first, second, third) == (first \o second) \o third = first \o (second \o third)

LEMMA JoinedPieces ==
  ASSUME NEW first \in Seq(Body), NEW second \in Seq(Body), NEW third \in Seq(Body)
  PROVE  Joins(first, second, third)
<1>1. (first \o second) \o third = first \o (second \o third)
  BY ConcatAssociative
<1> QED BY <1>1 DEF Joins

(* The emitter after the next tokens of a document, and the pieces that    *)
(* they end.                                                               *)
LEMMA FollowingChunk ==
  ASSUME NEW path, NEW tokens, Selectable(path, tokens), NEW p \in Nat, NEW k \in Nat,
         p + k <= Len(tokens), NEW chunk \in Seq(Piece), Len(chunk) = k,
         \A i \in 1..k : chunk[i] = tokens[p + i],
         NEW e, Following(path, tokens, p, e)
  PROVE  Carried(path, tokens, p, p + k, ParseJson(path, e, chunk))
<1>0. e \in Emitter /\ tokens \in Seq(Piece)
  BY DEF Following, Selectable
<1> PICK last \in Nat : last = Len(tokens)
  BY <1>0, LenProperties
<1> PICK g : g = Emitters(path, e, chunk)
  OBVIOUS
<1> PICK pieces : pieces = Pieces(path, tokens)
  OBVIOUS
<1>1. g[0] = Fresh(e) /\ \A i \in 1..k : g[i] = TakePiece(path, g[i - 1], chunk[i])
  BY <1>0, EmittersDef
<1>2. /\ \A m \in 0..last : pieces[m] \in Seq(Body)
      /\ \A m \in 1..last : pieces[m] = pieces[m - 1] \o Ended(path, tokens, m) /\ Ended(path, tokens, m) \in Seq(Body)
  <2>1. \A m \in 0..last : pieces[m] \in Seq(Body)
    BY <1>0, PiecesType
  <2>2. \A m \in 1..last : m - 1 \in 0..last
    OBVIOUS
  <2>3. \A m \in 1..last : pieces[m] = WithEnded(path, tokens, m, pieces[m - 1])
    BY <1>0, PiecesDef
  <2>4. \A m \in 1..last : \A early \in Seq(Body) :
          /\ WithEnded(path, tokens, m, early) = early \o Ended(path, tokens, m)
          /\ Ended(path, tokens, m) \in Seq(Body)
    BY <1>0, EndedType
  <2> QED BY <2>1, <2>2, <2>3, <2>4
<1> DEFINE Follows(i) == /\ Following(path, tokens, p + i, g[i])
                         /\ g[i].emitted \in Seq(Body)
                         /\ pieces[p + i] = pieces[p] \o g[i].emitted
           T == {i \in 0..k : Follows(i)}
<1>3. p \in 0..last /\ pieces[p] \in Seq(Body) /\ p + 0 = p
  BY <1>2
<1>4. 0 \in T
  <2>1. Following(path, tokens, p, g[0]) /\ g[0].emitted = <<>>
    BY <1>1, FollowingFresh
  <2>2. pieces[p] \o <<>> = pieces[p] /\ <<>> \in Seq(Body)
    BY <1>3, ConcatEmptySeq, EmptySeq
  <2>3. Follows(0)
    BY <1>3, <2>1, <2>2
  <2>4. 0 \in 0..k
    OBVIOUS
  <2> QED BY <2>3, <2>4
<1>5. ASSUME NEW i \in 1..k, i - 1 \in T PROVE i \in T
  <2>1. Follows(i - 1)
    BY <1>5
  <2> PICK m \in 1..last : m = p + i
    OBVIOUS
  <2>2. p + (i - 1) = m - 1 /\ i \in 0..k
    OBVIOUS
  <2> PICK before : before = g[i - 1]
    OBVIOUS
  <2>3. /\ Following(path, tokens, m - 1, before)
        /\ before.emitted \in Seq(Body)
        /\ pieces[m - 1] = pieces[p] \o before.emitted
    BY <2>1, <2>2
  <2> PICK next : next = OnToken(path, before, tokens[m])
    OBVIOUS
  <2>4. Following(path, tokens, m, next) /\ next.emitted = before.emitted \o Ended(path, tokens, m)
    BY <2>3, FollowingStep
  <2>5. g[i] = next
    <3>1. ~before.failed
      BY <2>3 DEF Following
    <3>2. g[i] = TakePiece(path, before, chunk[i]) /\ chunk[i] = tokens[m]
      BY <1>1
    <3> QED BY <3>1, <3>2 DEF TakePiece
  <2> PICK ended \in Seq(Body) : ended = Ended(path, tokens, m)
    BY <1>2
  <2>6. pieces[m] = pieces[p] \o (before.emitted \o ended) /\ before.emitted \o ended \in Seq(Body)
    <3>1. pieces[m] = pieces[m - 1] \o ended
      BY <1>2
    <3>2. (pieces[p] \o before.emitted) \o ended = pieces[p] \o (before.emitted \o ended)
      <4>1. pieces[p] \in Seq(Body) /\ before.emitted \in Seq(Body) /\ ended \in Seq(Body)
        BY <1>3, <2>3
      <4> HIDE DEF T, Follows
      <4>2. Joins(pieces[p], before.emitted, ended)
        BY <4>1, JoinedPieces
      <4> QED BY <4>2 DEF Joins
    <3>3. before.emitted \o ended \in Seq(Body)
      BY <2>3, ConcatProperties
    <3> QED BY <2>3, <3>1, <3>2, <3>3
  <2>7. Follows(i)
    BY <2>4, <2>5, <2>6
  <2> QED BY <2>2, <2>7
<1>6. \A i \in 0..k : i \in T
  <2> HIDE DEF T
  <2> QED BY <1>4, <1>5, BoundedInduction
<1>7. Follows(k)
  <2>1. k \in 0..k
    OBVIOUS
  <2>2. k \in T
    BY <1>6, <2>1
  <2> HIDE DEF Follows
  <2> QED BY <2>2
<1>8. Following(path, tokens, p + k, Fresh(g[k]))
  BY <1>7, FollowingFresh
<1>9. ParseJson(path, e, chunk) = g[k]
  BY DEF ParseJson
<1> HIDE DEF T
<1> QED BY <1>7, <1>8, <1>9 DEF Carried

(* A parser that failed takes nothing. *)
LEMMA FailedParses ==
  ASSUME NEW path, NEW e \in Emitter, NEW chunk \in Seq(Piece), e.failed \/ (chunk # <<>> /\ chunk[1].type = "text")
  PROVE  LET parsed == ParseJson(path, e, chunk) IN parsed \in Emitter /\ parsed.failed /\ parsed.emitted = <<>>
<1> PICK k \in Nat : k = Len(chunk)
  BY LenProperties
<1> PICK g : g = Emitters(path, e, chunk)
  OBVIOUS
<1>1. g[0] = Fresh(e) /\ \A i \in 1..k : g[i] = TakePiece(path, g[i - 1], chunk[i])
  BY EmittersDef
<1>2. Fresh(e) \in Emitter /\ Fresh(e).emitted = <<>> /\ (Fresh(e).failed <=> e.failed)
  BY FreshType DEF Fresh, Emitter
<1> DEFINE Failed(d) == d \in Emitter /\ d.failed /\ d.emitted = <<>>
           T == {i \in 0..k : (i = 0 /\ ~e.failed) \/ Failed(g[i])}
<1>3. 0 \in T
  BY <1>1, <1>2
<1>4. ASSUME NEW i \in 1..k, i - 1 \in T PROVE i \in T
  <2>1. g[i] = TakePiece(path, g[i - 1], chunk[i]) /\ i \in 0..k
    BY <1>1
  <2>2. CASE Failed(g[i - 1])
    BY <2>1, <2>2 DEF TakePiece
  <2>3. CASE i - 1 = 0 /\ ~e.failed
    <3>1. i = 1 /\ g[i - 1] = Fresh(e) /\ chunk[1].type = "text"
      BY <1>1, <2>3
    <3>2. g[i] = [Fresh(e) EXCEPT !.failed = TRUE]
      BY <1>2, <2>1, <2>3, <3>1 DEF TakePiece, OnToken
    <3>3. Failed(g[i])
      BY <1>2, <3>2 DEF Emitter
    <3> QED BY <2>1, <3>3
  <2> QED BY <1>4, <2>2, <2>3
<1>5. \A i \in 0..k : i \in T
  <2> HIDE DEF T
  <2> QED BY <1>3, <1>4, BoundedInduction
<1>6. k \in T /\ (k = 0 => e.failed)
  <2>1. k \in 0..k
    OBVIOUS
  <2>2. k = 0 => e.failed
    BY EmptySeq
  <2> HIDE DEF T
  <2> QED BY <1>5, <2>1, <2>2
<1>7. Failed(g[k])
  BY <1>6
<1> QED BY <1>7 DEF ParseJson

-----------------------------------------------------------------------------
(* The client gets the pieces of a document *)

(* The bodies of messages. *)
BodiesIn(messages) == [i \in 1..Len(messages) |-> messages[i].body]

(* Chunks more are bodies more. *)
LEMMA ChunksMore ==
  ASSUME NEW old \in Seq(Message), AllOf({"response_chunk"}, old), NEW bodies \in Seq(Body),
         NEW more, more = [i \in 1..Len(bodies) |-> Chunk(bodies[i])]
  PROVE  /\ old \o more \in Seq(Message)
         /\ AllOf({"response_chunk"}, old \o more)
         /\ BodiesIn(old) \in Seq(Body)
         /\ BodiesIn(old \o more) = BodiesIn(old) \o bodies
<1> DEFINE m == Len(old)
           n == Len(bodies)
<1>0. m \in Nat /\ n \in Nat /\ m = Len(old) /\ n = Len(bodies)
  BY LenProperties
<1> HIDE DEF m, n
<1>1. \A i \in 1..n : bodies[i] \in Body
  BY <1>0, ElementOfSeq
<1>2. \A i \in 1..n : more[i] = Chunk(bodies[i])
  BY <1>0
<1>3. \A i \in 1..n : more[i] \in Message /\ more[i].type = "response_chunk" /\ more[i].body = bodies[i]
  BY <1>1, <1>2 DEF Chunk, Message
<1>4. more \in Seq(Message) /\ Len(more) = n
  <2>1. more = [i \in 1..n |-> Chunk(bodies[i])]
    BY <1>0
  <2>2. more \in [1..n -> Message]
    BY <1>2, <1>3, <2>1
  <2> QED BY <1>0, <2>2
<1> PICK new : new = old \o more
  OBVIOUS
<1>5. AllOf({"response_chunk"}, new)
  <2>1. AllOf({"response_chunk"}, more)
    BY <1>3, <1>4 DEF AllOf
  <2> QED BY <1>4, <2>1, AllOfConcat
<1>6. /\ new \in Seq(Message) /\ Len(new) = m + n
      /\ \A i \in 1..(m + n) : new[i] = IF i <= m THEN old[i] ELSE more[i - m]
  <2>1. /\ old \o more \in Seq(Message) /\ Len(old \o more) = Len(old) + Len(more)
        /\ \A i \in 1..(Len(old) + Len(more)) :
             (old \o more)[i] = IF i <= Len(old) THEN old[i] ELSE more[i - Len(old)]
    BY <1>4, ConcatProperties
  <2> QED BY <1>0, <1>4, <2>1
<1>7. ASSUME NEW messages \in Seq(Message), AllOf({"response_chunk"}, messages), NEW length \in Nat, length = Len(messages)
      PROVE  /\ BodiesIn(messages) \in Seq(Body) /\ Len(BodiesIn(messages)) = length
             /\ \A i \in 1..length : BodiesIn(messages)[i] = messages[i].body
  <2>1. \A i \in 1..length : messages[i].body \in Body
    <3> TAKE i \in 1..length
    <3>1. messages[i] \in Message /\ messages[i].type = "response_chunk"
      BY <1>7, ElementOfSeq DEF AllOf
    <3> QED BY <3>1 DEF Message
  <2>2. BodiesIn(messages) = [i \in 1..length |-> messages[i].body]
    BY <1>7 DEF BodiesIn
  <2> PICK out : out = BodiesIn(messages)
    OBVIOUS
  <2>3. out \in [1..length -> Body]
    BY <2>1, <2>2
  <2>4. out \in Seq(Body) /\ Len(out) = length
    BY <2>3
  <2> QED BY <2>2, <2>4
<1> PICK before \in Seq(Body) : before = BodiesIn(old)
  BY <1>0, <1>7
<1>8. Len(before) = m /\ \A i \in 1..m : before[i] = old[i].body
  BY <1>0, <1>7
<1> PICK after : after = BodiesIn(new)
  OBVIOUS
<1>9. after \in Seq(Body) /\ Len(after) = m + n /\ \A i \in 1..(m + n) : after[i] = new[i].body
  <2>1. m + n \in Nat
    BY <1>0
  <2> QED BY <1>5, <1>6, <1>7, <2>1
<1> PICK both : both = before \o bodies
  OBVIOUS
<1>10. /\ both \in Seq(Body) /\ Len(both) = m + n
       /\ \A i \in 1..(m + n) : both[i] = IF i <= m THEN before[i] ELSE bodies[i - m]
  <2>1. /\ before \o bodies \in Seq(Body) /\ Len(before \o bodies) = Len(before) + Len(bodies)
        /\ \A i \in 1..(Len(before) + Len(bodies)) :
             (before \o bodies)[i] = IF i <= Len(before) THEN before[i] ELSE bodies[i - Len(before)]
    BY ConcatProperties
  <2> QED BY <1>0, <1>8, <2>1
<1>11. \A i \in 1..(m + n) : after[i] = both[i]
  <2> TAKE i \in 1..(m + n)
  <2>1. CASE i <= m
    <3>1. i \in 1..m
      BY <1>0, <2>1
    <3>2. after[i] = old[i].body /\ both[i] = before[i]
      BY <1>6, <1>9, <1>10, <2>1
    <3> QED BY <1>8, <3>1, <3>2
  <2>2. CASE ~(i <= m)
    <3>1. i - m \in 1..n
      BY <1>0, <2>2
    <3>2. after[i] = more[i - m].body /\ both[i] = bodies[i - m]
      BY <1>6, <1>9, <1>10, <2>2
    <3> QED BY <1>3, <3>1, <3>2
  <2> QED BY <2>1, <2>2
<1>12. after = both
  <2>1. after \in Seq(Body) /\ both \in Seq(Body) /\ Len(after) = Len(both)
    BY <1>9, <1>10
  <2>2. \A i \in 1..Len(after) : after[i] = both[i]
    BY <1>9, <1>11
  <2> QED BY <2>1, <2>2, SeqEqual, Zenon
<1> QED BY <1>5, <1>6, <1>12

(* What a path selects of a chunk is sent in chunks. *)
LEMMA ParsePathBodies ==
  ASSUME Handling, response.desired_format = "JsonPath", AllOf({"response_chunk"}, sent),
         NEW chunk \in Seq(Tokens), chunk # <<>>, ParsePath(chunk),
         NEW parsed, parsed = ParseJson(response.match_path, emitter, WithoutPrefix(chunk))
  PROVE  /\ parsed \in Emitter /\ emitter' = Fresh(parsed)
         /\ sent' \in Seq(Message) /\ AllOf({"response_chunk"}, sent')
         /\ BodiesIn(sent) \in Seq(Body)
         /\ BodiesIn(sent') = BodiesIn(sent) \o parsed.emitted
<1>1. chunk \in Seq(Piece) /\ emitter \in Emitter /\ sent \in Seq(Message)
  BY DEF Tokens, Handling
<1>2. WithoutPrefix(chunk) \in Seq(Piece)
  BY <1>1, HeadTailProperties DEF WithoutPrefix, Unprefixed
<1>3. parsed \in Emitter
  BY <1>1, <1>2, ParseJsonType
<1> PICK bodies : bodies = parsed.emitted
  OBVIOUS
<1>4. bodies \in Seq(Body)
  BY <1>3, PieceIsBody, SeqMonotonic DEF Emitter
<1> PICK more : more = [i \in 1..Len(bodies) |-> Chunk(bodies[i])]
  OBVIOUS
<1>5. sent' = sent \o more /\ emitter' = Fresh(parsed)
  BY DEF ParsePath, Fresh
<1>6. /\ sent \o more \in Seq(Message)
      /\ AllOf({"response_chunk"}, sent \o more)
      /\ BodiesIn(sent) \in Seq(Body)
      /\ BodiesIn(sent \o more) = BodiesIn(sent) \o bodies
  BY <1>1, <1>4, ChunksMore
<1> QED BY <1>3, <1>5, <1>6

(* The document: the body without its prefix. *)
Doc == Unprefixed(response.tokens)

(* The pieces of a document are selected. *)
Selecting == response.desired_format = "JsonPath" /\ response.selectable /\ Success

(* Before a status the transfer has not begun. *)
Awaiting ==
  response_code < 0 => rest = response.tokens /\ emitter = NewEmitter /\ ~prefix_cut

(* Until the end only chunks are sent. *)
OnlyChunks == Selecting /\ place # "finished" => AllOf({"response_chunk"}, sent)

(* What is left of the body after n tokens of the document: the others,    *)
(* or, before the first, the prefix and all of them.                       *)
EndFrom(r, D, n) ==
  /\ Len(r) = Len(D) - n
  /\ \A j \in 1..Len(r) : r[j] = D[n + j]

PrefixThen(r, D) ==
  /\ Len(r) = Len(D) + 1
  /\ r[1].type = "prefix"
  /\ \A j \in 1..Len(D) : r[j + 1] = D[j]

Ahead(n) == EndFrom(rest, Doc, n)

PrefixAhead == PrefixThen(rest, Doc)

LeftAfter(n) == Ahead(n) \/ (n = 0 /\ PrefixAhead)

Sends(pieces) == BodiesIn(Chosen("response_chunk", sent)) = pieces

(* The emitter has taken n tokens, and the client has their pieces.        *)
InStep(n) ==
  /\ LeftAfter(n)
  /\ Following(response.match_path, Doc, n, emitter)
  /\ Sends(Pieces(response.match_path, Doc)[n])

(* With a prefix that was cut the parser fails for good.                   *)
Lost == emitter.failed /\ Sends(<<>>)

(* The emitter is in step with the document until the prefix is cut. *)
Selects ==
  /\ ~prefix_cut => \E n \in 0..Len(Doc) : InStep(n)
  /\ prefix_cut => Lost

(* The inductive invariant. *)
JInv ==
  /\ IInv
  /\ Awaiting
  /\ OnlyChunks
  /\ Selecting => Selects

(* A document has no prefix in it. *)
LEMMA DocTokens ==
  ASSUME NEW path \in Seq(Key), NEW D \in Seq(Piece), IsDocument(D), ~ArrayAt(path, D)
  PROVE  /\ Len(D) \in Nat /\ Len(D) # 0
         /\ Selectable(path, D)
         /\ \A i \in 1..Len(D) : D[i] \in Piece /\ D[i].type # "prefix"
<1>1. Len(D) \in Nat /\ Len(D) # 0
  BY EmptySeq, LenProperties DEF IsDocument
<1>2. \A i \in 1..Len(D) : D[i] \in Piece /\ D[i].type # "prefix"
  BY ElementOfSeq DEF IsDocument
<1> QED BY <1>1, <1>2 DEF Selectable

(* The document of a response whose path selects pieces. *)
LEMMA DocFacts ==
  ASSUME response \in Response, response.desired_format = "JsonPath", response.selectable
  PROVE  /\ Doc \in Seq(Piece) /\ Len(Doc) \in Nat /\ Len(Doc) # 0
         /\ Selectable(response.match_path, Doc)
         /\ \A i \in 1..Len(Doc) : Doc[i] \in Piece /\ Doc[i].type # "prefix"
         /\ response.pieces = Pieces(response.match_path, Doc)[Len(Doc)]
         /\ rest = response.tokens => LeftAfter(0)
<1> PICK S \in Seq(Piece) : S = response.tokens
  BY HandlerAssumption DEF Piece
<1>1. /\ response.match_path \in Seq(Key)
      /\ IsDocument(Doc) /\ ~ArrayAt(response.match_path, Doc)
      /\ response.pieces = Pieces(response.match_path, Doc)[Len(Doc)]
  BY HandlerAssumption DEF Doc
<1>2. CASE S # <<>> /\ S[1].type = "prefix"
  <2> PICK D : D = Tail(S)
    OBVIOUS
  <2>1. Doc = D
    BY <1>2 DEF Doc, Unprefixed
  <2>2. D \in Seq(Piece) /\ Len(D) = Len(S) - 1 /\ \A i \in 1..Len(D) : D[i] = S[i + 1]
    BY <1>2, HeadTailProperties
  <2>3. Len(S) \in Nat /\ Len(D) \in Nat
    BY <2>2, LenProperties
  <2>4. rest = response.tokens => PrefixAhead
    BY <1>2, <2>1, <2>2, <2>3 DEF PrefixAhead, PrefixThen
  <2> QED BY <1>1, <2>1, <2>2, <2>4, DocTokens DEF LeftAfter
<1>3. CASE ~(S # <<>> /\ S[1].type = "prefix")
  <2>1. Doc = S
    BY <1>3 DEF Doc, Unprefixed
  <2>2. Len(S) \in Nat
    BY LenProperties
  <2>3. rest = response.tokens => Ahead(0)
    BY <2>1, <2>2 DEF Ahead, EndFrom
  <2> QED BY <1>1, <2>1, <2>3, DocTokens DEF LeftAfter
<1> QED BY <1>2, <1>3

(* At first nothing is read and nothing is sent. *)
LEMMA InitJInv ==
  ASSUME Init
  PROVE  JInv
<1>1. IInv
  BY InitIInv
<1>2. Awaiting
  BY DEF Init, Awaiting
<1>3. ~Selecting
  BY DEF Init, Selecting, Success, NoCode
<1> QED BY <1>1, <1>2, <1>3 DEF JInv, OnlyChunks

(* What is sent before the end is chosen. *)
LEMMA AllSent ==
  ASSUME sent \in Seq(Message), AllOf({"response_chunk"}, sent), NEW pieces
  PROVE  Sends(pieces) <=> BodiesIn(sent) = pieces
<1>1. Chosen("response_chunk", sent) = sent
  BY ChosenAll
<1> QED BY <1>1 DEF Sends

(* A status comes before the body, or changes nothing. *)
LEMMA StatusSelects ==
  ASSUME JInv, IInv', NEW code \in response.codes, ReceiveStatus(code)
  PROVE  JInv'
<1>1. /\ response_code < 0 /\ place = "transfer" /\ response_code' = code
      /\ UNCHANGED <<response, place, rest, emitter, sent, prefix_cut>>
  BY DEF ReceiveStatus, history
<1>2. /\ sent = <<>> /\ rest = response.tokens /\ emitter = NewEmitter /\ ~prefix_cut
      /\ response \in Response
  BY <1>1 DEF JInv, IInv, Handling, NothingYet, Awaiting
<1>3. Awaiting'
  BY <1>1, <1>2 DEF Awaiting
<1>4. (sent \in Seq(Message))' /\ AllOf({"response_chunk"}, sent)'
  <2>1. sent' = <<>> /\ Len(<<>>) = 0 /\ <<>> \in Seq(Message)
    BY <1>1, <1>2, EmptySeq
  <2> QED BY <2>1 DEF AllOf
<1>5. OnlyChunks'
  BY <1>4 DEF OnlyChunks
<1>6. ASSUME response.desired_format = "JsonPath", response.selectable
      PROVE  Selects'
  <2>1. /\ Doc \in Seq(Piece) /\ Len(Doc) \in Nat /\ Selectable(response.match_path, Doc)
        /\ LeftAfter(0)
    BY <1>2, <1>6, DocFacts
  <2>2. Following(response.match_path, Doc, 0, NewEmitter)
    BY FollowingNew
  <2>3. Sends(Pieces(response.match_path, Doc)[0])
    <3>1. Pieces(response.match_path, Doc)[0] = <<>>
      BY <2>1, PiecesDef
    <3>2. BodiesIn(<<>>) = <<>>
      <4>1. Len(<<>>) = 0
        BY EmptySeq
      <4>2. BodiesIn(<<>>) = [i \in 1..0 |-> <<>>[i].body]
        BY <4>1 DEF BodiesIn
      <4> QED BY <4>2
    <3>3. Chosen("response_chunk", sent) = <<>>
      BY <1>2, ChosenEmpty
    <3> QED BY <3>1, <3>2, <3>3 DEF Sends
  <2>4. InStep(0)
    BY <1>2, <2>1, <2>2, <2>3 DEF InStep
  <2>5. InStep(0)' /\ Doc' = Doc /\ ~prefix_cut'
    BY <1>1, <1>2, <2>4 DEF InStep, LeftAfter, Ahead, PrefixAhead, Sends, Doc
  <2>6. 0 \in 0..Len(Doc)
    BY <2>1
  <2> QED BY <2>5, <2>6 DEF Selects
<1>7. (Selecting => Selects)'
  BY <1>1, <1>6 DEF Selecting
<1> QED BY <1>3, <1>5, <1>7 DEF JInv

(* A step that changes no more than the place, or starts again. *)
LEMMA QuietSelects ==
  ASSUME JInv, IInv', UNCHANGED <<response, response_code, emitter, sent, prefix_cut>>,
         place # "finished" \/ place' = place,
         rest' = rest \/ (~Success /\ rest' = response.tokens)
  PROVE  JInv'
<1>1. (Selecting' <=> Selecting) /\ Doc' = Doc
  BY DEF Selecting, Success, Doc
<1>2. Awaiting' /\ OnlyChunks'
  BY <1>1 DEF JInv, Awaiting, OnlyChunks, AllOf
<1>3. (Selecting => Selects)'
  <2> SUFFICES ASSUME Selecting PROVE Selects'
    BY <1>1
  <2>1. rest' = rest /\ Selects
    BY DEF JInv, Selecting
  <2>2. \A n : InStep(n)' <=> InStep(n)
    BY <1>1, <2>1 DEF InStep, LeftAfter, Ahead, PrefixAhead, Sends
  <2>3. Lost' <=> Lost
    BY DEF Lost, Sends
  <2> QED BY <1>1, <2>1, <2>2, <2>3 DEF Selects
<1> QED BY <1>2, <1>3 DEF JInv

(* The final message is no chunk. *)
LEMMA FinishSelects ==
  ASSUME JInv, IInv', Finish
  PROVE  JInv'
<1>1. /\ place' = "finished"
      /\ UNCHANGED <<response, rest, response_code, emitter, prefix_cut>>
  BY DEF Finish, history
<1>2. Handling /\ sent \in Seq(Message) /\ response_code \in Int /\ response_buffer \in Body
  BY CodeFacts DEF JInv, IInv, Handling
<1>3. PICK before \in Seq(Message) :
        /\ before = sent \/ before = Append(sent, Error)
        /\ sent' = Append(before, Final)
  BY <1>2, FinishSends DEF JInv, IInv
<1>4. Final \in Message /\ Error \in Message /\ Final.type = "response_finished" /\ Error.type = "response_error"
  BY <1>2 DEF Final, Error, Message
<1>5. Chosen("response_chunk", sent') = Chosen("response_chunk", sent)
  <2>1. Chosen("response_chunk", before) = Chosen("response_chunk", sent)
    <3>1. CASE before = sent
      BY <3>1
    <3>2. CASE before = Append(sent, Error)
      BY <1>2, <1>4, <3>2, ChosenAppend DEF Choose
    <3> QED BY <1>3, <3>1, <3>2
  <2>2. Chosen("response_chunk", Append(before, Final)) = Chosen("response_chunk", before)
    BY <1>4, ChosenAppend DEF Choose
  <2> QED BY <1>3, <2>1, <2>2
<1>6. (Selecting' <=> Selecting) /\ Doc' = Doc
  BY <1>1 DEF Selecting, Success, Doc
<1>7. Awaiting' /\ OnlyChunks'
  BY <1>1 DEF JInv, Awaiting, OnlyChunks
<1>8. (Selecting => Selects)'
  <2>1. \A pieces : Sends(pieces)' <=> Sends(pieces)
    BY <1>5 DEF Sends
  <2>2. \A n : InStep(n)' <=> InStep(n)
    BY <1>1, <1>6, <2>1 DEF InStep, LeftAfter, Ahead, PrefixAhead
  <2>3. Lost' <=> Lost
    BY <1>1, <2>1 DEF Lost
  <2> QED BY <1>1, <1>6, <2>2, <2>3 DEF JInv, Selects
<1> QED BY <1>7, <1>8 DEF JInv

(* A chunk that does not begin with a prefix is parsed as it is. *)
LEMMA WithoutPrefixIs ==
  ASSUME NEW chunk, chunk # <<>>, chunk[1].type # "prefix"
  PROVE  WithoutPrefix(chunk) = chunk
BY DEF WithoutPrefix, Unprefixed

(* What is taken of the body, and what is left. *)
TakenOff(r, n, chunk, after) ==
  /\ n \in 1..Len(r)
  /\ Len(chunk) = n
  /\ \A i \in 1..n : chunk[i] = r[i]
  /\ Len(after) = Len(r) - n
  /\ \A i \in 1..Len(after) : after[i] = r[n + i]

(* The prefix is cut. *)
PrefixHalved(r, n, chunk) ==
  /\ n \in 1..Len(r)
  /\ r[n].type = "prefix"
  /\ Len(chunk) = n
  /\ chunk[n] = FirstHalf(r[n])

(* Taking a chunk within the document. *)
LEMMA EndFromTaken ==
  ASSUME NEW D, Len(D) \in Nat, \A i \in 1..Len(D) : D[i].type # "prefix",
         NEW before \in 0..Len(D), NEW r, EndFrom(r, D, before),
         NEW n, NEW chunk, NEW after, TakenOff(r, n, chunk, after)
  PROVE  /\ before + n \in 0..Len(D)
         /\ \A i \in 1..n : chunk[i] = D[before + i]
         /\ chunk[1].type # "prefix"
         /\ EndFrom(after, D, before + n)
<1> PICK left : left = Len(r)
  OBVIOUS
<1> PICK length \in Nat : length = Len(D)
  OBVIOUS
<1>1. left = length - before /\ \A j \in 1..left : r[j] = D[before + j] /\ before + j \in 1..length
  BY DEF EndFrom
<1>2. n \in 1..left
  BY DEF TakenOff
<1>4. before + n \in 0..length
  BY <1>1, <1>2
<1>6. \A i \in 1..n : chunk[i] = D[before + i] /\ before + i \in 1..length
  <2>1. \A i \in 1..n : i \in 1..left
    BY <1>1, <1>2
  <2> QED BY <1>1, <2>1 DEF TakenOff
<1>7. chunk[1].type # "prefix"
  <2>1. 1 \in 1..n
    BY <1>2
  <2> QED BY <1>6, <2>1
<1>8. Len(after) = left - n /\ \A j \in 1..Len(after) : after[j] = r[n + j]
  BY DEF TakenOff
<1>9. Len(after) = length - (before + n)
  BY <1>1, <1>2, <1>8
<1>10. \A j \in 1..Len(after) : after[j] = D[(before + n) + j]
  <2> TAKE j \in 1..Len(after)
  <2>1. n + j \in 1..left /\ before + (n + j) = (before + n) + j
    BY <1>1, <1>2, <1>8
  <2> QED BY <1>1, <1>8, <2>1
<1> QED BY <1>4, <1>6, <1>7, <1>9, <1>10 DEF EndFrom

(* Taking the first chunk, with the prefix. *)
LEMMA PrefixThenTaken ==
  ASSUME NEW D, Len(D) \in Nat, NEW r, PrefixThen(r, D),
         NEW n, NEW chunk, NEW after, TakenOff(r, n, chunk, after)
  PROVE  /\ n - 1 \in 0..Len(D)
         /\ chunk[1].type = "prefix"
         /\ \A i \in 1..(n - 1) : chunk[i + 1] = D[i]
         /\ EndFrom(after, D, n - 1)
<1> PICK left : left = Len(r)
  OBVIOUS
<1> PICK length \in Nat : length = Len(D)
  OBVIOUS
<1>1. left = length + 1 /\ r[1].type = "prefix" /\ \A j \in 1..length : r[j + 1] = D[j]
  BY DEF PrefixThen
<1>2. n \in 1..left /\ \A i \in 1..n : chunk[i] = r[i]
  BY DEF TakenOff
<1>3. n - 1 \in 0..length /\ 1 \in 1..n
  BY <1>1, <1>2
<1>4. chunk[1].type = "prefix"
  BY <1>1, <1>2, <1>3
<1>5. \A i \in 1..(n - 1) : chunk[i + 1] = D[i]
  <2>1. \A i \in 1..(n - 1) : i + 1 \in 1..n /\ i \in 1..length
    BY <1>1, <1>2
  <2> QED BY <1>1, <1>2, <2>1
<1>6. Len(after) = left - n /\ \A j \in 1..Len(after) : after[j] = r[n + j]
  BY DEF TakenOff
<1>7. Len(after) = length - (n - 1)
  BY <1>1, <1>2, <1>6
<1>8. \A j \in 1..Len(after) : after[j] = D[(n - 1) + j]
  <2> TAKE j \in 1..Len(after)
  <2>1. (n - 1) + j \in 1..length /\ ((n - 1) + j) + 1 = n + j
    BY <1>1, <1>2, <1>7
  <2> QED BY <1>1, <1>6, <2>1
<1> QED BY <1>3, <1>4, <1>5, <1>7, <1>8 DEF EndFrom

(* Only the first token of the body can be a prefix. *)
LEMMA HalvedFirst ==
  ASSUME NEW D, Len(D) \in Nat, \A i \in 1..Len(D) : D[i].type # "prefix",
         NEW before \in 0..Len(D), NEW r \in Seq(Piece), EndFrom(r, D, before) \/ (before = 0 /\ PrefixThen(r, D)),
         NEW n, NEW chunk, PrefixHalved(r, n, chunk)
  PROVE  before = 0 /\ chunk[1].type = "text" /\ Len(chunk) # 0
<1> PICK left : left = Len(r)
  OBVIOUS
<1> PICK length \in Nat : length = Len(D)
  OBVIOUS
<1>1. n \in 1..left /\ r[n].type = "prefix"
  BY DEF PrefixHalved
<1>2. ~EndFrom(r, D, before)
  <2> SUFFICES ASSUME EndFrom(r, D, before) PROVE FALSE
    OBVIOUS
  <2>1. left = length - before /\ \A j \in 1..left : r[j] = D[before + j]
    BY DEF EndFrom
  <2>2. before + n \in 1..length
    BY <1>1, <2>1
  <2> QED BY <1>1, <2>1, <2>2
<1>3. left = length + 1 /\ \A j \in 1..length : r[j + 1] = D[j]
  BY <1>2 DEF PrefixThen
<1>4. n = 1
  <2> SUFFICES ASSUME n # 1 PROVE FALSE
    OBVIOUS
  <2>1. n - 1 \in 1..length /\ (n - 1) + 1 = n
    BY <1>1, <1>3
  <2> QED BY <1>1, <1>3, <2>1
<1>5. chunk[1] = FirstHalf(r[1]) /\ Len(chunk) = 1
  BY <1>4 DEF PrefixHalved
<1>6. r[1] = [type |-> "prefix", key |-> r[1].key]
  <2>1. r[1] \in Piece
    BY <1>1, <1>4, ElementOfSeq
  <2>2. \A token \in Piece : token = [type |-> token.type, key |-> token.key]
    BY PieceIs
  <2> QED BY <1>1, <1>4, <2>1, <2>2
<1> QED BY <1>2, <1>5, <1>6 DEF FirstHalf

(* Parsing the first tokens of a document. *)
LEMMA CarriedFirst ==
  ASSUME NEW path, NEW D, Selectable(path, D), NEW k \in Nat, k <= Len(D),
         NEW chunk \in Seq(Piece), Len(chunk) = k, \A i \in 1..k : chunk[i] = D[i],
         NEW e, Following(path, D, 0, e)
  PROVE  Carried(path, D, 0, k, ParseJson(path, e, chunk))
<1>1. 0 \in Nat /\ 0 + k = k /\ 0 + k <= Len(D)
  OBVIOUS
<1>2. \A i \in 1..k : chunk[i] = D[0 + i]
  <2>1. \A i \in 1..k : 0 + i = i
    OBVIOUS
  <2> QED BY <2>1
<1>3. Carried(path, D, 0, 0 + k, ParseJson(path, e, chunk))
  BY <1>1, <1>2, FollowingChunk
<1> QED BY <1>1, <1>3

(* The emitter after a chunk, whatever was left of the body before. *)
LEMMA ChunkOfDocument ==
  ASSUME NEW path, NEW D, Selectable(path, D), Len(D) \in Nat,
         \A i \in 1..Len(D) : D[i].type # "prefix",
         NEW before \in 0..Len(D), Following(path, D, before, emitter),
         NEW r, EndFrom(r, D, before) \/ (before = 0 /\ PrefixThen(r, D)),
         NEW n \in Nat, NEW chunk \in Seq(Piece), chunk # <<>>, NEW after, TakenOff(r, n, chunk, after)
  PROVE  \E m \in 0..Len(D) :
           /\ EndFrom(after, D, m)
           /\ Carried(path, D, before, m, ParseJson(path, emitter, WithoutPrefix(chunk)))
<1>1. Len(chunk) = n
  BY DEF TakenOff
<1>2. CASE EndFrom(r, D, before)
  <2>1. /\ before + n \in 0..Len(D)
        /\ \A i \in 1..n : chunk[i] = D[before + i]
        /\ chunk[1].type # "prefix"
        /\ EndFrom(after, D, before + n)
    BY <1>2, EndFromTaken
  <2>2. WithoutPrefix(chunk) = chunk
    BY <2>1, WithoutPrefixIs
  <2>3. before \in Nat /\ before + n <= Len(D)
    BY <2>1
  <2>4. Carried(path, D, before, before + n, ParseJson(path, emitter, chunk))
    BY <1>1, <2>1, <2>3, FollowingChunk
  <2> QED BY <2>1, <2>2, <2>4
<1>3. CASE before = 0 /\ PrefixThen(r, D)
  <2>1. /\ n - 1 \in 0..Len(D)
        /\ chunk[1].type = "prefix"
        /\ \A i \in 1..(n - 1) : chunk[i + 1] = D[i]
        /\ EndFrom(after, D, n - 1)
    BY <1>3, PrefixThenTaken
  <2> PICK k \in Nat : k = n - 1
    BY <2>1
  <2>2. WithoutPrefix(chunk) = Tail(chunk)
    <3>1. emitter.current_path = PathAt(D, 0)
      BY <1>3 DEF Following
    <3>2. PathAt(D, 0) = <<>>
      BY DepthZero DEF PathAt
    <3> QED BY <2>1, <3>1, <3>2 DEF WithoutPrefix, HasParseState, Unprefixed
  <2>3. Tail(chunk) \in Seq(Piece) /\ Len(Tail(chunk)) = k /\ \A i \in 1..k : Tail(chunk)[i] = D[i]
    <3>1. /\ Tail(chunk) \in Seq(Piece) /\ Len(Tail(chunk)) = Len(chunk) - 1
          /\ \A i \in 1..Len(Tail(chunk)) : Tail(chunk)[i] = chunk[i + 1]
      BY HeadTailProperties
    <3> QED BY <1>1, <2>1, <3>1
  <2>4. k <= Len(D) /\ Following(path, D, 0, emitter)
    BY <1>3, <2>1
  <2>5. Carried(path, D, 0, k, ParseJson(path, emitter, Tail(chunk)))
    BY <2>3, <2>4, CarriedFirst
  <2>6. k \in 0..Len(D) /\ EndFrom(after, D, k)
    BY <2>1
  <2> QED BY <1>3, <2>2, <2>5, <2>6
<1> QED BY <1>2, <1>3

(* Every chunk keeps the emitter in step, or cuts the prefix. *)
LEMMA ChunkSelects ==
  ASSUME JInv, IInv', Selecting,
         NEW n \in 1..Len(rest), NEW cut \in BOOLEAN, ReceiveChunk(n, cut)
  PROVE  JInv'
<1> DEFINE D == Doc
           path == response.match_path
           chunk == ChunkOf(n, cut)
           parsed == ParseJson(path, emitter, WithoutPrefix(chunk))
<1>1. /\ place = "transfer" /\ response_code # NoCode /\ (cut => Cuttable(rest[n]))
      /\ response.desired_format = "JsonPath" /\ response.selectable /\ Success
      /\ UNCHANGED <<response, place, response_code>>
  BY DEF ReceiveChunk, Selecting
<1>2. /\ ParsePath(chunk)
      /\ rest' = AfterChunk(n, cut)
      /\ (prefix_cut' <=> (prefix_cut \/ (cut /\ rest[n].type = "prefix")))
  BY <1>1 DEF ReceiveChunk, ChunkOf, AfterChunk, Write
<1>3. cut => rest[n].type = "prefix"
  BY <1>1 DEF Cuttable
<1>4. /\ Handling /\ response \in Response /\ rest \in Seq(Tokens) /\ sent \in Seq(Message) /\ emitter \in Emitter
      /\ Tokens = Piece
  BY <1>1 DEF JInv, IInv, Handling, Tokens
<1>5. AllOf({"response_chunk"}, sent)
  BY <1>1 DEF JInv, OnlyChunks
<1>6. /\ chunk \in Seq(Piece) /\ chunk # <<>> /\ n \in Nat
      /\ cut => PrefixHalved(rest, n, chunk)
      /\ ~cut => TakenOff(rest, n, chunk, rest')
  <2> rest \in Seq(Tokens) /\ (cut => Cuttable(rest[n]))
    BY <1>1, <1>4
  <2>1. /\ chunk \in Seq(Tokens) /\ Len(chunk) = n /\ n \in Nat /\ n # 0
        /\ \A i \in 1..n : chunk[i] = IF cut /\ i = n THEN FirstHalf(rest[n]) ELSE rest[i]
        /\ Len(AfterChunk(n, cut)) = IF cut THEN (Len(rest) - n) + 1 ELSE Len(rest) - n
        /\ \A i \in 1..Len(AfterChunk(n, cut)) :
              AfterChunk(n, cut)[i] = IF ~cut THEN rest[n + i]
                                      ELSE IF i = 1 THEN SecondHalf(rest[n]) ELSE rest[n + (i - 1)]
    <3>1. chunk \in Seq(Tokens) /\ Len(chunk) = n /\ n \in Nat /\ n # 0
      BY ChunkFacts
    <3>2. \A i \in 1..n : chunk[i] = IF cut /\ i = n THEN FirstHalf(rest[n]) ELSE rest[i]
      BY ChunkFacts
    <3>3. Len(AfterChunk(n, cut)) = IF cut THEN (Len(rest) - n) + 1 ELSE Len(rest) - n
      BY ChunkFacts
    <3>4. \A i \in 1..Len(AfterChunk(n, cut)) :
            AfterChunk(n, cut)[i] = IF ~cut THEN rest[n + i]
                                    ELSE IF i = 1 THEN SecondHalf(rest[n]) ELSE rest[n + (i - 1)]
      BY ChunkFacts
    <3> QED BY <3>1, <3>2, <3>3, <3>4
  <2> HIDE DEF chunk
  <2>2. chunk # <<>>
    BY <2>1, EmptySeq
  <2>3. ASSUME cut PROVE PrefixHalved(rest, n, chunk)
    <3>1. n \in 1..n
      BY <2>1
    <3> QED BY <1>3, <2>1, <2>3, <3>1 DEF PrefixHalved
  <2>4. ASSUME ~cut PROVE TakenOff(rest, n, chunk, rest')
    BY <1>2, <2>1, <2>4 DEF TakenOff
  <2> QED BY <1>4, <2>1, <2>2, <2>3, <2>4
<1>7. /\ parsed \in Emitter /\ emitter' = Fresh(parsed)
      /\ sent' \in Seq(Message) /\ AllOf({"response_chunk"}, sent')
      /\ BodiesIn(sent) \in Seq(Body)
      /\ BodiesIn(sent') = BodiesIn(sent) \o parsed.emitted
  <2> HIDE DEF chunk
  <2> QED BY <1>1, <1>2, <1>4, <1>5, <1>6, ParsePathBodies
<1>8. /\ D \in Seq(Piece) /\ Len(D) \in Nat /\ Selectable(path, D)
      /\ \A i \in 1..Len(D) : D[i].type # "prefix"
  BY <1>1, <1>4, DocFacts
<1>9. Doc' = D /\ path = response.match_path' /\ Selects
  BY <1>1 DEF Doc, JInv
<1>10. \A pieces : Sends(pieces)' <=> BodiesIn(sent') = pieces
  <2> TAKE pieces
  <2>1. Chosen("response_chunk", sent') = sent'
    BY <1>7, ChosenAll
  <2> QED BY <2>1 DEF Sends
<1>11. \A pieces : Sends(pieces) <=> BodiesIn(sent) = pieces
  BY <1>4, <1>5, AllSent
<1> HIDE DEF D, path, chunk, parsed
<1>12. Awaiting' /\ OnlyChunks'
  <2>1. response_code' > 0 /\ response_code' \in Int
    BY <1>1, <1>4, CodeFacts DEF Handling
  <2> QED BY <1>7, <2>1 DEF Awaiting, OnlyChunks
<1>13. ASSUME parsed.failed, parsed.emitted = <<>>, prefix_cut', BodiesIn(sent) = <<>>
       PROVE  Selects'
  <2>1. emitter'.failed
    BY <1>7, <1>13 DEF Fresh, Emitter
  <2>2. BodiesIn(sent') = <<>>
    BY <1>7, <1>13, ConcatEmptySeq
  <2> QED BY <1>10, <1>13, <2>1, <2>2 DEF Selects, Lost
<1>14. CASE prefix_cut
  <2>1. emitter.failed /\ BodiesIn(sent) = <<>>
    BY <1>9, <1>11, <1>14 DEF Selects, Lost
  <2>2. WithoutPrefix(chunk) \in Seq(Piece)
    BY <1>6, HeadTailProperties DEF WithoutPrefix, Unprefixed
  <2>3. parsed.failed /\ parsed.emitted = <<>>
    BY <1>4, <2>1, <2>2, FailedParses DEF parsed
  <2>4. Selects'
    BY <1>2, <1>13, <1>14, <2>1, <2>3
  <2> QED BY <1>12, <2>4 DEF JInv
<1>15. CASE ~prefix_cut
  <2>1. PICK before \in 0..Len(D) : InStep(before)
    BY <1>9, <1>15 DEF Selects, D
  <2>2. /\ Following(path, D, before, emitter)
        /\ Pieces(path, D)[before] = BodiesIn(sent)
        /\ EndFrom(rest, D, before) \/ (before = 0 /\ PrefixThen(rest, D))
    BY <1>11, <2>1 DEF InStep, LeftAfter, Ahead, PrefixAhead, D, path
  <2>3. rest \in Seq(Piece)
    BY <1>4
  <2>4. CASE cut
    <3>1. before = 0 /\ chunk[1].type = "text"
      BY <1>6, <1>8, <2>2, <2>3, <2>4, HalvedFirst
    <3>2. WithoutPrefix(chunk) = chunk
      BY <1>6, <3>1, WithoutPrefixIs
    <3>3. parsed.failed /\ parsed.emitted = <<>>
      BY <1>4, <1>6, <3>1, <3>2, FailedParses DEF parsed
    <3>4. BodiesIn(sent) = <<>>
      BY <1>8, <2>2, <3>1, PiecesDef
    <3>5. Selects'
      BY <1>2, <1>3, <1>13, <2>4, <3>3, <3>4
    <3> QED BY <1>12, <3>5 DEF JInv
  <2>5. CASE ~cut
    <3>1. \E m \in 0..Len(D) :
            EndFrom(rest', D, m) /\ Carried(path, D, before, m, ParseJson(path, emitter, WithoutPrefix(chunk)))
      BY <1>6, <1>8, <2>2, <2>5, ChunkOfDocument
    <3>2. PICK m \in 0..Len(D) :
            /\ EndFrom(rest', D, m)
            /\ Following(path, D, m, Fresh(parsed))
            /\ Pieces(path, D)[m] = Pieces(path, D)[before] \o parsed.emitted
      BY <3>1 DEF Carried, parsed
    <3>3. BodiesIn(sent') = Pieces(path, D)[m]
      BY <1>7, <2>2, <3>2
    <3>4. InStep(m)'
      <4>1. LeftAfter(m)'
        BY <1>9, <3>2 DEF LeftAfter, Ahead
      <4>2. Following(path, D, m, emitter')
        BY <1>7, <3>2
      <4>3. Following(response.match_path', Doc', m, emitter')
        BY <1>9, <4>2
      <4>4. Chosen("response_chunk", sent') = sent'
        BY <1>7, ChosenAll
      <4>5. BodiesIn(Chosen("response_chunk", sent')) = Pieces(response.match_path', Doc')[m]
        BY <1>9, <3>3, <4>4
      <4> QED BY <4>1, <4>3, <4>5 DEF InStep, Sends
    <3>5. ~prefix_cut'
      BY <1>2, <1>15, <2>5
    <3>6. Selects'
      BY <1>9, <3>4, <3>5 DEF Selects
    <3> QED BY <1>12, <3>6 DEF JInv
  <2> QED BY <2>4, <2>5
<1> QED BY <1>14, <1>15

(* What is not selected is no concern. *)
LEMMA ChunkSelectsNot ==
  ASSUME JInv, IInv', ~Selecting,
         NEW n \in 1..Len(rest), NEW cut \in BOOLEAN, ReceiveChunk(n, cut)
  PROVE  JInv'
<1>1. response_code # NoCode /\ UNCHANGED <<response, response_code>>
  BY DEF ReceiveChunk
<1>2. ~Selecting'
  BY <1>1 DEF Selecting, Success
<1>3. response_code' > 0 /\ response_code' \in Int
  BY <1>1, CodeFacts DEF JInv, IInv, Handling
<1> QED BY <1>2, <1>3 DEF JInv, Awaiting, OnlyChunks

(* Every step keeps the invariant. *)
LEMMA SelectingStep ==
  ASSUME JInv, [Next]_vars
  PROVE  JInv'
<1>0. IInv'
  BY HandlerStep DEF JInv
<1>1. ASSUME NEW code \in response.codes, ReceiveStatus(code) PROVE JInv'
  BY <1>0, <1>1, StatusSelects
<1>2. ASSUME NEW n \in 1..Len(rest), NEW cut \in BOOLEAN, ReceiveChunk(n, cut) PROVE JInv'
  BY <1>0, <1>2, ChunkSelects, ChunkSelectsNot
<1>3. CASE TransferEnds
  BY <1>0, <1>3, QuietSelects DEF TransferEnds, history
<1>4. CASE Retry
  <2>1. ~Success
    <3>1. response_code \in Int
      BY CodeFacts DEF JInv, IInv, Handling
    <3> QED BY <1>4, <3>1 DEF Retry, WillRetry, Success
  <2>2. /\ UNCHANGED <<response, response_code, emitter, sent, prefix_cut>>
        /\ place # "finished" /\ rest' = response.tokens
    BY <1>4 DEF Retry, history
  <2> QED BY <1>0, <2>1, <2>2, QuietSelects
<1>5. CASE Finish
  BY <1>0, <1>5, FinishSelects
<1>6. CASE UNCHANGED vars
  BY <1>0, <1>6, QuietSelects DEF vars, history
<1> QED BY <1>1, <1>2, <1>3, <1>4, <1>5, <1>6 DEF Next

(* When the body is through, the pieces are those of the whole document. *)
LEMMA SelectsPieces ==
  ASSUME JInv
  PROVE  JsonPieces
<1> PICK pieces : pieces = Chosen("response_chunk", sent)
  OBVIOUS
<1> SUFFICES ASSUME Selecting
             PROVE  /\ \A i \in 1..Len(pieces) : pieces[i].body = response.pieces[i]
                    /\ rest = <<>> /\ ~prefix_cut => Len(pieces) = Len(response.pieces)
  BY DEF JsonPieces, Selecting, Messages, Chosen
<1>1. response \in Response /\ sent \in Seq(Message) /\ Selects
  BY DEF JInv, IInv, Handling
<1>2. pieces \in Seq(Message)
  BY <1>1, ChosenSeq
<1> PICK length \in Nat : length = Len(pieces)
  BY <1>2, LenProperties
<1> PICK bodies : bodies = BodiesIn(pieces)
  OBVIOUS
<1>3. Len(bodies) = length /\ \A i \in 1..length : bodies[i] = pieces[i].body
  <2>1. bodies = [i \in 1..length |-> pieces[i].body]
    BY DEF BodiesIn
  <2> QED BY <2>1
<1>4. /\ Doc \in Seq(Piece) /\ Len(Doc) \in Nat /\ Len(Doc) # 0
      /\ response.pieces = Pieces(response.match_path, Doc)[Len(Doc)]
  BY <1>1, DocFacts DEF Selecting
<1>5. CASE prefix_cut
  <2>1. bodies = <<>>
    BY <1>1, <1>5 DEF Selects, Lost, Sends
  <2>2. length = 0
    BY <1>3, <2>1, EmptySeq
  <2> QED BY <1>5, <2>2
<1>6. CASE ~prefix_cut
  <2>1. PICK n \in 0..Len(Doc) : InStep(n)
    BY <1>1, <1>6 DEF Selects
  <2>2. bodies = Pieces(response.match_path, Doc)[n] /\ LeftAfter(n)
    BY <2>1 DEF InStep, Sends
  <2>3. Len(bodies) <= Len(response.pieces) /\ \A d \in 1..Len(bodies) : response.pieces[d] = bodies[d]
    <3>1. LET early == Pieces(response.match_path, Doc)[n]
              all == Pieces(response.match_path, Doc)[Len(Doc)]
          IN  Len(early) <= Len(all) /\ \A d \in 1..Len(early) : all[d] = early[d]
      BY <1>4, PiecesGrow
    <3> QED BY <1>4, <2>2, <3>1
  <2>4. ASSUME rest = <<>> PROVE bodies = response.pieces
    <3>1. Len(rest) = 0
      BY <2>4, EmptySeq
    <3>2. n = Len(Doc)
      BY <1>4, <2>2, <3>1 DEF LeftAfter, Ahead, PrefixAhead, EndFrom, PrefixThen
    <3> QED BY <1>4, <2>2, <3>2
  <2> QED BY <1>3, <2>3, <2>4
<1> QED BY <1>5, <1>6

(* However a document is cut, and whatever is nested in it, the client of  *)
(* a path gets the objects at it, whole, once and in order, and all of     *)
(* them before the transfer ends.                                          *)
THEOREM ClientGetsPieces == Spec => []JsonPieces
<1>1. Init => JInv
  BY InitJInv
<1>2. JInv /\ [Next]_vars => JInv'
  BY SelectingStep
<1>3. JInv => JsonPieces
  BY SelectsPieces
<1> QED BY <1>1, <1>2, <1>3, PTL DEF Spec
=============================================================================

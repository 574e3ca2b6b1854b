--------------------------- MODULE CompressionProofs ---------------------------
(***************************************************************************)
(* Proofs about Compression, for every pipeline, every set of facts and    *)
(* every size of text: the saving that is reported is exact, the first key *)
(* and the markers of a report give back the input, every failure line is  *)
(* shown (or the text is a table that tells all), and everything the input *)
(* told comes back along the markers unless a write of the store failed.   *)
(*                                                                         *)
(* Sized is the arithmetic.  For the rest the run is followed text by text:*)
(* each step is reduced to the one text it appends (ReformattedText,       *)
(* OffloadedText and so on), and Kept says which texts the markers of the  *)
(* current one name.  What can be recovered is defined by recursion through*)
(* the markers; Solvable replaces it by an invariant of the steps.         *)
(*                                                                         *)
(* The second part is about LiveZone, for every set of questions and every *)
(* length of a conversation.  Each dispatcher works message by message     *)
(* (PreparedIs, NewMessage), and its invariant Conversation says that what *)
(* was sent is what the dispatcher makes of a prefix of the history: two   *)
(* requests are compared by comparing what a message becomes in a prefix   *)
(* and in a longer one (SameMessage).                                      *)
(***************************************************************************)
EXTENDS CompressionParts, SequenceTheorems, FiniteSetTheorems, WellFoundedInduction, TLAPS

(* Every text of the run is one, names earlier texts only, and is smaller than   *)
(* the input by what has been counted as saved.                                  *)
Sized ==
    /\ buf \in Seq(Text) /\ buf # <<>>
    /\ saved \in Nat
    /\ buf[1].size = buf[Len(buf)].size + saved

(* The text being compressed is the last one, the input the first.               *)
LEMMA LastText ==
    ASSUME buf \in Seq(Text), buf # <<>>
    PROVE  /\ Current = buf[Len(buf)] /\ Current \in Text
           /\ Content \in Text
           /\ Len(buf) \in Nat \ {0}
BY DEF Current, Content, Last

(* Appending a text keeps the first one and makes it the last.                   *)
LEMMA AppendedText ==
    ASSUME buf \in Seq(Text), buf # <<>>, NEW t \in Text, buf' = Append(buf, t)
    PROVE  /\ buf' \in Seq(Text) /\ buf' # <<>>
           /\ buf'[1] = buf[1]
           /\ buf'[Len(buf')] = t
OBVIOUS

(* What a transform makes of a text is a text.                                   *)
LEMMA TextsAreTexts ==
    ASSUME NEW facts \in SUBSET Facts, NEW marks \in SUBSET Nat
    PROVE  Texts(facts, marks) \subseteq Text
<1> SUFFICES ASSUME NEW t \in Texts(facts, marks) PROVE t \in Text
    OBVIOUS
<1>1. PICK n \in 1..MaxSize, s \in SUBSET facts, d \in SUBSET facts :
        t = [size |-> n, shown |-> s, told |-> d, marks |-> marks]
    BY DEF Texts
<1>2. s \in SUBSET Facts /\ d \in SUBSET Facts
    OBVIOUS
<1> QED BY <1>1, <1>2 DEF Text

(* What a text tells are facts.                                                  *)
LEMMA TellsFacts ==
    ASSUME NEW t \in Text PROVE Tells(t) \in SUBSET Facts
BY DEF Tells, Text

(* So is a text with lines appended.                                             *)
LEMMA ExtendedText ==
    ASSUME NEW t \in Text, NEW n \in 1..MaxSize, NEW facts \in SUBSET Facts
    PROVE  \E u \in Text : u = [t EXCEPT !.size = n, !.shown = @ \cup facts] /\ u.size = n
<1> DEFINE u == [t EXCEPT !.size = n, !.shown = @ \cup facts]
<1>1. u \in Text
    BY DEF Text
<1>2. u.size = n
    BY DEF Text
<1> QED BY <1>1, <1>2

(* So is a text whose markers were renamed.                                      *)
LEMMA RenamedText ==
    ASSUME NEW t \in Text, NEW named \in SUBSET Nat
    PROVE  \E u \in Text : u = [t EXCEPT !.marks = named] /\ u.size = t.size
<1> DEFINE u == [t EXCEPT !.marks = named]
<1>1. u \in Text
    BY DEF Text
<1>2. u.size = t.size
    BY DEF Text
<1> QED BY <1>1, <1>2

(* At the start nothing is saved.                                                *)
LEMMA SizedInit == Init => Sized
<1> SUFFICES ASSUME Init PROVE Sized
    OBVIOUS
<1>1. PICK n \in 1..MaxSize, s \in SUBSET Facts :
        buf = <<[size |-> n, shown |-> s, told |-> Facts \ s, marks |-> {}]>>
    BY DEF Init
<1>2. [size |-> n, shown |-> s, told |-> Facts \ s, marks |-> {}] \in Text
    BY DEF Text
<1> QED BY <1>1, <1>2, PipelineAssumption DEF Init, Sized, Text

(* Every step that makes a text adds to saved what the text is shorter.          *)
LEMMA SizedStep == Sized /\ [Next]_vars => Sized'
<1> SUFFICES ASSUME Sized, [Next]_vars PROVE Sized'
    OBVIOUS
<1> USE DEF Sized
<1>0. /\ Current = buf[Len(buf)] /\ Content = buf[1]
      /\ Current \in Text /\ Content \in Text /\ Len(buf) \in Nat \ {0}
      /\ Current.size \in Nat /\ Content.size \in Nat /\ Current.marks \in SUBSET Nat
    BY LastText, PipelineAssumption DEF Content, Text
<1>a. ASSUME UNCHANGED <<buf, saved>> PROVE Sized'
    BY <1>a
<1>b. ASSUME NEW t \in Text, buf' = Append(buf, t), saved' \in Nat,
             Content.size = t.size + saved'
      PROVE  Sized'
    BY <1>b, <1>0, AppendedText
<1>1. CASE CompactRows
    <2>1. PICK t \in Texts(Tells(Content), {}) :
              t.size < Content.size /\ buf' = Append(buf, t) /\ saved' = Content.size - t.size
        BY <1>1 DEF CompactRows
    <2>2. t \in Text
        BY <2>1, <1>0, TellsFacts, TextsAreTexts
    <2>3. t.size \in Nat
        BY <2>2, PipelineAssumption DEF Text
    <2>4. saved' \in Nat /\ Content.size = t.size + saved'
        BY <2>1, <2>3, <1>0
    <2> QED BY <2>1, <2>2, <2>4, <1>b
<1>2. CASE ReformatAccepted
    <2>1. PICK t \in Reformatted(Reformats[type][turn]) :
              t.size < Current.size /\ buf' = Append(buf, t) /\ saved' = saved + (Current.size - t.size)
        BY <1>2 DEF ReformatAccepted
    <2>2. t \in Text
        <3>1. /\ Texts(Tells(Current), {}) \subseteq Text
              /\ Texts(Tells(Current), {Len(buf)}) \subseteq Text
              /\ Texts(Tells(Current), Current.marks) \subseteq Text
            BY <1>0, TellsFacts, TextsAreTexts
        <3> QED BY <2>1, <3>1 DEF Reformatted
    <2> QED BY <2>1, <2>2, <1>0, <1>b DEF Text
<1>3. CASE OffloadAccepted
    <2>1. PICK t \in Offloaded :
              t.size < Current.size /\ buf' = Append(buf, t) /\ saved' = saved + (Current.size - t.size)
        BY <1>3 DEF OffloadAccepted
    <2>2. t \in Text
        <3>1. PICK m \in SUBSET Current.marks : t \in Texts(Tells(Current), m \cup {Len(buf)})
            BY <2>1 DEF Offloaded
        <3>2. m \cup {Len(buf)} \in SUBSET Nat
            BY <1>0
        <3> QED BY <3>1, <3>2, <1>0, TellsFacts, TextsAreTexts
    <2> QED BY <2>1, <2>2, <1>0, <1>b DEF Text
<1>4. CASE Reinject
    <2>1. PICK n \in (Current.size + 1)..(Content.size - 1) :
              /\ buf' = Append(buf, [Current EXCEPT !.size = n, !.shown = @ \cup Lost])
              /\ saved' = Content.size - n
        BY <1>4 DEF Reinject
    <2>2. n \in 1..MaxSize /\ n \in Nat /\ n < Content.size
        BY <2>1, <1>0, PipelineAssumption DEF Text
    <2>3. Lost \in SUBSET Facts
        BY PipelineAssumption DEF Lost
    <2>4. PICK c \in Text : c = Current
        BY <1>0
    <2>5. PICK t \in Text : t = [c EXCEPT !.size = n, !.shown = @ \cup Lost] /\ t.size = n
        BY <2>2, <2>3, ExtendedText
    <2>6. PICK k \in Nat : k = Content.size
        BY <1>0
    <2>7. saved' = k - n /\ n < k /\ n \in Nat
        BY <2>1, <2>2, <2>6
    <2>8. saved' \in Nat /\ k = n + saved'
        BY <2>7
    <2>9. buf' = Append(buf, t)
        BY <2>1, <2>4, <2>5
    <2> QED BY <2>5, <2>6, <2>8, <2>9, <1>b
<1>5. CASE ReturnInput
    BY <1>5, <1>0, <1>b DEF ReturnInput
<1>6. CASE KeepOriginal
    <2>1. PICK named : /\ named = {IF m \in Range(keys) THEN 1 ELSE m : m \in Current.marks}
                       /\ buf' = Append(buf, [Current EXCEPT !.marks = named]) /\ saved' = saved
        BY <1>6 DEF KeepOriginal, run
    <2>2. named \in SUBSET Nat
        BY <2>1, <1>0
    <2>3. PICK t \in Text : t = [Current EXCEPT !.marks = named] /\ t.size = Current.size
        BY <2>2, <1>0, RenamedText
    <2>4. Content.size = t.size + saved' /\ buf' = Append(buf, t)
        BY <2>1, <2>3, <1>0
    <2> QED BY <2>1, <2>4, <1>b
<1>7. CASE \/ Detect \/ ReformatSkipped \/ ReformatsEnd \/ OffloadGatedOut \/ OffloadDeclined
           \/ OffloadDiscarded \/ PipelineEnds \/ NothingLost \/ KeepUnchanged
    BY <1>7, <1>a DEF Detect, ReformatSkipped, ReformatsEnd, OffloadGatedOut, OffloadDeclined,
        OffloadDiscarded, PipelineEnds, NothingLost, KeepUnchanged
<1>8. CASE UNCHANGED vars
    BY <1>8, <1>a DEF vars
<1> QED BY <1>1, <1>2, <1>3, <1>4, <1>5, <1>6, <1>7, <1>8 DEF Next

(* The saving the report declares is the difference of the two sizes, however    *)
(* many steps were accepted, discarded, re-injected or undone (run and           *)
(* compress_text_with_metrics).                                                  *)
THEOREM ExactSaving == Spec => []SavingIsExact
<1>1. Sized => SavingIsExact
    BY DEF Sized, SavingIsExact, Content, Current, Last
<1> QED BY SizedInit, SizedStep, <1>1, PTL DEF Spec

-----------------------------------------------------------------------------
(* The first text is alone until a reformat is tried; the markers of the current *)
(* one name the input or texts that were offloaded; what is kept for a caller    *)
(* that asked for them shows the failure lines.                                  *)
Placed ==
    /\ pc = "start" \/ (pc = "reformat" /\ turn = 1) => Len(buf) = 1
    /\ pc # "done" => Current.marks \subseteq {1} \cup Range(keys)
    /\ pc = "keep" /\ caller = "compress" => Lost = {}

(* What a step adds to the texts: one that names only earlier ones.              *)
LEMMA AppendedKeeps ==
    ASSUME TypeOK, Sized, NEW t \in Text, buf' = Append(buf, t), t.marks \subseteq 1..Len(buf)
    PROVE  /\ Len(buf) \in Nat \ {0} /\ DOMAIN buf = 1..Len(buf) /\ DOMAIN buf' = 1..(Len(buf) + 1)
           /\ Len(buf') = Len(buf) + 1
           /\ \A v \in DOMAIN buf : buf'[v] = buf[v]
           /\ buf'[Len(buf) + 1] = t /\ Current' = t /\ Content' = Content
           /\ buf' \in Seq(Text) /\ buf' # <<>>
           /\ \A v \in DOMAIN buf' : buf'[v].marks \subseteq 1..(v - 1)
<1>1. Len(buf) \in Nat \ {0} /\ DOMAIN buf = 1..Len(buf) /\ DOMAIN buf' = 1..(Len(buf) + 1) /\ Len(buf') = Len(buf) + 1
    BY DEF Sized
<1>2. \A v \in DOMAIN buf : buf'[v] = buf[v]
    BY DEF Sized
<1>3. buf'[Len(buf) + 1] = t /\ buf' \in Seq(Text) /\ buf' # <<>>
    BY DEF Sized
<1>4. Current' = t /\ Content' = Content
    BY <1>1, <1>2, <1>3 DEF Current, Content, Last
<1>5. \A v \in DOMAIN buf' : buf'[v].marks \subseteq 1..(v - 1)
    <2> SUFFICES ASSUME NEW v \in DOMAIN buf' PROVE buf'[v].marks \subseteq 1..(v - 1)
        OBVIOUS
    <2>1. CASE v = Len(buf) + 1
        BY <1>1, <1>3, <2>1
    <2>2. CASE v # Len(buf) + 1
        <3>1. v \in DOMAIN buf
            BY <1>1, <2>2
        <3> QED BY <1>2, <3>1 DEF TypeOK
    <2> QED BY <2>1, <2>2
<1> QED BY <1>1, <1>2, <1>3, <1>4, <1>5

(* The current text and the one it is made from.                                 *)
LEMMA CurrentText ==
    ASSUME TypeOK, Sized
    PROVE  /\ Current = buf[Len(buf)] /\ Content = buf[1] /\ Current \in Text /\ Content \in Text
           /\ Len(buf) \in Nat \ {0} /\ DOMAIN buf = 1..Len(buf)
           /\ Current.marks \subseteq 1..(Len(buf) - 1) /\ Content.marks = {}
           /\ Tells(Current) \in SUBSET Facts /\ Tells(Content) \in SUBSET Facts
<1>1. /\ Current = buf[Len(buf)] /\ Content = buf[1] /\ Current \in Text /\ Content \in Text
      /\ Len(buf) \in Nat \ {0} /\ DOMAIN buf = 1..Len(buf)
    BY LastText DEF Sized, Content
<1>2. Current.marks \subseteq 1..(Len(buf) - 1)
    BY <1>1 DEF TypeOK
<1>3. Content.marks \subseteq 1..(1 - 1)
    BY <1>1 DEF TypeOK
<1>4. Content.marks = {}
    BY <1>3
<1> QED BY <1>1, <1>2, <1>4, TellsFacts

(* What each step appends.                                                       *)
LEMMA CompactedText ==
    ASSUME TypeOK, Sized, CompactRows
    PROVE  \E t \in Text : buf' = Append(buf, t) /\ t.marks = {} /\ Tells(t) = Tells(Content)
<1>1. PICK t \in Texts(Tells(Content), {}) : Tells(t) = Tells(Content) /\ buf' = Append(buf, t)
    BY DEF CompactRows
<1>2. t \in Text
    BY <1>1, CurrentText, TextsAreTexts
<1>3. t.marks = {}
    BY <1>1 DEF Texts
<1> QED BY <1>1, <1>2, <1>3

(* A reformat keeps the markers and what the text tells; the source compressor   *)
(* may give up the markers, and then all it names is the input.                  *)
LEMMA ReformattedText ==
    ASSUME TypeOK, Sized, Placed, ReformatAccepted
    PROVE  \E t \in Text :
             /\ buf' = Append(buf, t)
             /\ \/ t.marks = Current.marks /\ Tells(t) = Tells(Current)
                \/ t.marks \subseteq {1} /\ "source_compressor" \in Range(Reformats[type])
<1>0. Len(buf) \in Nat \ {0} /\ Current.marks \in SUBSET Nat /\ type \in Types
      /\ turn \in DOMAIN Reformats[type]
    BY CurrentText, PipelineAssumption DEF ReformatAccepted, ReformatDue, TypeOK
<1>1. PICK t \in Reformatted(Reformats[type][turn]) : buf' = Append(buf, t)
    BY DEF ReformatAccepted
<1>2. CASE Reformats[type][turn] # "source_compressor"
    <2>1. t \in Texts(Tells(Current), Current.marks) /\ Tells(t) = Tells(Current)
        BY <1>1, <1>2 DEF Reformatted
    <2>2. t \in Text
        BY <2>1, <1>0, CurrentText, TextsAreTexts
    <2>3. t.marks = Current.marks
        BY <2>1 DEF Texts
    <2> QED BY <1>1, <2>1, <2>2, <2>3
<1>3. CASE Reformats[type][turn] = "source_compressor"
    <2>1. turn = 1
        BY <1>0, <1>3, SourceFirstAssumption
    <2>2. Len(buf) = 1
        BY <2>1 DEF ReformatAccepted, ReformatDue, Placed
    <2>3. t \in Texts(Tells(Current), {}) \/ t \in Texts(Tells(Current), {1})
        BY <1>1, <1>3, <2>2 DEF Reformatted
    <2>4. t \in Text
        BY <2>3, <1>0, CurrentText, TextsAreTexts
    <2>5. t.marks \subseteq {1}
        BY <2>3 DEF Texts
    <2>6. "source_compressor" \in Range(Reformats[type])
        BY <1>0, <1>3 DEF Range
    <2> QED BY <1>1, <2>4, <2>5, <2>6
<1> QED BY <1>2, <1>3

(* An offload names the text it took, and nothing that was not named before.     *)
LEMMA OffloadedText ==
    ASSUME TypeOK, Sized, OffloadAccepted
    PROVE  \E t \in Text : /\ buf' = Append(buf, t) /\ Len(buf) \in t.marks
                           /\ t.marks \subseteq Current.marks \cup {Len(buf)}
<1>1. PICK t \in Offloaded : buf' = Append(buf, t)
    BY DEF OffloadAccepted
<1>2. PICK m \in SUBSET Current.marks : t \in Texts(Tells(Current), m \cup {Len(buf)})
    BY <1>1 DEF Offloaded
<1>3. m \cup {Len(buf)} \in SUBSET Nat
    BY CurrentText
<1>4. t \in Text
    BY <1>2, <1>3, CurrentText, TextsAreTexts
<1>5. t.marks = m \cup {Len(buf)}
    BY <1>2 DEF Texts
<1> QED BY <1>1, <1>4, <1>5

(* The failures put back are added to what the text shows.                       *)
LEMMA ReinjectedText ==
    ASSUME TypeOK, Sized, Reinject
    PROVE  \E t \in Text : /\ buf' = Append(buf, t) /\ t.marks = Current.marks
                           /\ t.shown = Current.shown \cup Lost /\ Tells(Current) \subseteq Tells(t)
<1>1. PICK n \in (Current.size + 1)..(Content.size - 1) :
          buf' = Append(buf, [Current EXCEPT !.size = n, !.shown = @ \cup Lost])
    BY DEF Reinject
<1>2. PICK c \in Text : c = Current
    BY CurrentText
<1>3. n \in 1..MaxSize
    BY <1>1, CurrentText, PipelineAssumption DEF Text
<1>4. Lost \in SUBSET Facts
    BY PipelineAssumption DEF Lost
<1>5. PICK t : t = [c EXCEPT !.size = n, !.shown = @ \cup Lost]
    OBVIOUS
<1>6. t \in Text /\ t.marks = c.marks /\ t.shown = c.shown \cup Lost /\ t.told = c.told
    BY <1>3, <1>4, <1>5 DEF Text
<1> QED BY <1>1, <1>2, <1>5, <1>6 DEF Tells

(* Keeping the original changes the markers only.                                *)
LEMMA KeptText ==
    ASSUME TypeOK, Sized, KeepOriginal
    PROVE  \E t \in Text : /\ buf' = Append(buf, t) /\ t.shown = Current.shown /\ t.told = Current.told
                           /\ t.marks = {IF m \in Range(keys) THEN 1 ELSE m : m \in Current.marks}
<1>1. PICK named : /\ named = {IF m \in Range(keys) THEN 1 ELSE m : m \in Current.marks}
                   /\ buf' = Append(buf, [Current EXCEPT !.marks = named])
    BY DEF KeepOriginal
<1>2. named \in SUBSET Nat
    BY <1>1, CurrentText
<1>3. PICK c \in Text : c = Current
    BY CurrentText
<1>4. PICK t : t = [c EXCEPT !.marks = named]
    OBVIOUS
<1>5. t \in Text /\ t.marks = named /\ t.shown = c.shown /\ t.told = c.told
    BY <1>2, <1>4 DEF Text
<1> QED BY <1>1, <1>3, <1>4, <1>5

(* The types, when a step appends a text.                                        *)
LEMMA TypeAppended ==
    ASSUME TypeOK, Sized, NEW t \in Text, buf' = Append(buf, t), t.marks \subseteq 1..Len(buf),
           store' \subseteq 1..Len(buf), saved' \in Nat,
           keys' = keys \/ keys' = << 1 >> \/ keys' = <<>> \/ keys' = Append(keys, Len(buf)),
           UNCHANGED <<run, reformatted>>, dropped' \in BOOLEAN,
           pc' \in {"reformat", "offload", "keep", "done"}, turn' \in Nat \ {0}
    PROVE  TypeOK'
<1>1. /\ Len(buf) \in Nat \ {0} /\ DOMAIN buf = 1..Len(buf) /\ DOMAIN buf' = 1..(Len(buf) + 1)
      /\ Len(buf') = Len(buf) + 1 /\ buf' \in Seq(Text) /\ buf' # <<>>
      /\ \A v \in DOMAIN buf' : buf'[v].marks \subseteq 1..(v - 1)
    BY AppendedKeeps
<1>2. PICK n \in Nat \ {0} : n = Len(buf)
    BY <1>1
<1>3. keys \in Seq(1..n) /\ Len(keys) < n
    BY <1>1, <1>2 DEF TypeOK
<1>4. keys' \in Seq(1..(n + 1)) /\ Len(keys') < n + 1
    <2>1. keys \in Seq(1..(n + 1)) /\ Len(keys) \in Nat
        BY <1>3
    <2>2. << 1 >> \in Seq(1..(n + 1)) /\ Len(<< 1 >>) = 1 /\ <<>> \in Seq(1..(n + 1)) /\ Len(<<>>) = 0
        OBVIOUS
    <2>3. Append(keys, n) \in Seq(1..(n + 1)) /\ Len(Append(keys, n)) = Len(keys) + 1
        BY <2>1
    <2>4. CASE keys' = keys
        BY <1>3, <2>1, <2>4
    <2>5. CASE keys' = << 1 >>
        BY <1>2, <2>2, <2>5
    <2>7. CASE keys' = <<>>
        BY <1>2, <2>2, <2>7
    <2>6. CASE keys' = Append(keys, n)
        BY <1>3, <2>1, <2>3, <2>6
    <2> QED BY <1>2, <2>4, <2>5, <2>6, <2>7
<1>5. store' \subseteq DOMAIN buf' /\ reformatted' \in DOMAIN buf'
    BY <1>1 DEF TypeOK
<1>6. type' = type /\ caller' = caller /\ scores' = scores
    BY DEF run
<1> QED BY <1>1, <1>2, <1>4, <1>5, <1>6 DEF TypeOK

(* ... and when it does not.                                                     *)
LEMMA TypeSame ==
    ASSUME TypeOK, Sized, UNCHANGED <<buf, keys, saved, run>>, store' \subseteq DOMAIN buf, dropped' \in BOOLEAN,
           pc' \in {"start", "reformat", "offload", "reinject", "keep", "done"}, turn' \in Nat \ {0},
           reformatted' \in DOMAIN buf
    PROVE  TypeOK'
<1>1. type' = type /\ caller' = caller /\ scores' = scores
    BY DEF run
<1> QED BY <1>1 DEF TypeOK

(* Every step keeps the type invariant.                                          *)
LEMMA TypeStep == TypeOK /\ Sized /\ Sized' /\ Placed /\ [Next]_vars => TypeOK'
<1> SUFFICES ASSUME TypeOK, Sized, Sized', Placed, [Next]_vars PROVE TypeOK'
    OBVIOUS
<1>0. /\ Len(buf) \in Nat \ {0} /\ DOMAIN buf = 1..Len(buf) /\ Current.marks \subseteq 1..(Len(buf) - 1)
      /\ saved' \in Nat /\ store \subseteq 1..Len(buf) /\ dropped \in BOOLEAN /\ turn \in Nat \ {0}
      /\ reformatted \in DOMAIN buf
    BY CurrentText DEF TypeOK, Sized
<1>1. ASSUME NEW v \in 1..Len(buf), Put(v) PROVE store' \subseteq 1..Len(buf) /\ dropped' \in BOOLEAN
    BY <1>0, <1>1 DEF Put
<1>2. CASE CompactRows
    <2>1. PICK t \in Text : buf' = Append(buf, t) /\ t.marks = {}
        BY <1>2, CompactedText
    <2>2. /\ store' \subseteq 1..Len(buf) /\ dropped' \in BOOLEAN /\ keys' = << 1 >>
          /\ UNCHANGED <<run, reformatted>> /\ pc' = "done" /\ turn' = 1
        BY <1>0, <1>1, <1>2 DEF CompactRows, Goto
    <2> QED BY <1>0, <2>1, <2>2, TypeAppended
<1>3. CASE ReformatAccepted
    <2>1. PICK t \in Text : buf' = Append(buf, t) /\ (t.marks = Current.marks \/ t.marks \subseteq {1})
        BY <1>3, ReformattedText
    <2>2. /\ UNCHANGED <<store, keys, run, reformatted, dropped>> /\ pc' = "reformat" /\ turn' \in Nat \ {0}
        BY <1>0, <1>3 DEF ReformatAccepted, ReformatDue, NextTurn
    <2>3. t.marks \subseteq 1..Len(buf)
        BY <1>0, <2>1
    <2> QED BY <1>0, <2>1, <2>2, <2>3, TypeAppended
<1>4. CASE OffloadAccepted
    <2>1. PICK t \in Text : buf' = Append(buf, t) /\ t.marks \subseteq Current.marks \cup {Len(buf)}
        BY <1>4, OffloadedText
    <2>2. /\ store' \subseteq 1..Len(buf) /\ dropped' \in BOOLEAN /\ keys' = Append(keys, Len(buf))
          /\ UNCHANGED <<run, reformatted>> /\ pc' = "offload" /\ turn' \in Nat \ {0}
        BY <1>0, <1>1, <1>4 DEF OffloadAccepted, OffloadDue, NextTurn
    <2>3. t.marks \subseteq 1..Len(buf)
        BY <1>0, <2>1
    <2> QED BY <1>0, <2>1, <2>2, <2>3, TypeAppended
<1>5. CASE Reinject
    <2>1. PICK t \in Text : buf' = Append(buf, t) /\ t.marks = Current.marks
        BY <1>5, ReinjectedText
    <2>2. UNCHANGED <<store, keys, run, reformatted, dropped>> /\ pc' = "keep" /\ turn' = 1
        BY <1>5 DEF Reinject, Goto
    <2>3. t.marks \subseteq 1..Len(buf)
        BY <1>0, <2>1
    <2> QED BY <1>0, <2>1, <2>2, <2>3, TypeAppended
<1>6. CASE ReturnInput
    <2>1. PICK t \in Text : t = Content /\ buf' = Append(buf, t) /\ t.marks = {}
        BY <1>6, CurrentText DEF ReturnInput
    <2>2. UNCHANGED <<store, run, reformatted, dropped>> /\ keys' = <<>> /\ pc' = "done" /\ turn' = 1
        BY <1>6 DEF ReturnInput, Goto
    <2> QED BY <1>0, <2>1, <2>2, TypeAppended
<1>7. CASE KeepOriginal
    <2>1. PICK t \in Text : /\ buf' = Append(buf, t)
                            /\ t.marks = {IF m \in Range(keys) THEN 1 ELSE m : m \in Current.marks}
        BY <1>7, KeptText
    <2>2. /\ store' \subseteq 1..Len(buf) /\ dropped' \in BOOLEAN /\ keys' = << 1 >>
          /\ UNCHANGED <<run, reformatted>> /\ pc' = "done" /\ turn' = 1
        BY <1>0, <1>1, <1>7 DEF KeepOriginal, Goto
    <2>3. t.marks \subseteq 1..Len(buf)
        BY <1>0, <2>1
    <2> QED BY <1>0, <2>1, <2>2, <2>3, TypeAppended
<1>8. CASE OffloadDiscarded
    <2>1. /\ UNCHANGED <<buf, keys, saved, run, reformatted>> /\ store' \subseteq DOMAIN buf /\ dropped' \in BOOLEAN
          /\ pc' = "offload" /\ turn' \in Nat \ {0}
        BY <1>0, <1>1, <1>8 DEF OffloadDiscarded, OffloadDue, NextTurn
    <2> QED BY <1>0, <2>1, TypeSame
<1>9. CASE \/ Detect \/ ReformatSkipped \/ OffloadGatedOut \/ OffloadDeclined \/ NothingLost \/ KeepUnchanged
    <2>1. UNCHANGED <<buf, store, keys, saved, run, reformatted, dropped>>
        BY <1>9 DEF Detect, ReformatSkipped, OffloadGatedOut, OffloadDeclined, NothingLost, KeepUnchanged
    <2>2. pc' \in {"start", "reformat", "offload", "reinject", "keep", "done"} /\ turn' \in Nat \ {0}
        BY <1>0, <1>9 DEF Detect, ReformatSkipped, ReformatDue, OffloadGatedOut, OffloadDue, OffloadDeclined,
            NothingLost, KeepUnchanged, Goto, NextTurn
    <2> QED BY <1>0, <2>1, <2>2, TypeSame
<1>10. CASE ReformatsEnd
    <2>1. /\ UNCHANGED <<buf, store, keys, saved, run, dropped>> /\ reformatted' = Len(buf) /\ pc' = "offload" /\ turn' = 1
        BY <1>10 DEF ReformatsEnd, Goto
    <2> QED BY <1>0, <2>1, TypeSame
<1>11. CASE PipelineEnds
    <2>1. UNCHANGED <<buf, store, keys, saved, run, reformatted, dropped>> /\ turn' = 1
        BY <1>11 DEF PipelineEnds, Goto
    <2>2. pc' \in {"done", "reinject", "keep"}
        <3>1. caller \in {"library", "compress", "exec"}
            BY DEF TypeOK
        <3> QED BY <1>11, <3>1 DEF PipelineEnds, Goto
    <2> QED BY <1>0, <2>1, <2>2, TypeSame
<1>12. CASE UNCHANGED vars
    BY <1>0, <1>12, TypeSame DEF vars, TypeOK
<1> QED BY <1>2, <1>3, <1>4, <1>5, <1>6, <1>7, <1>8, <1>9, <1>10, <1>11, <1>12 DEF Next

(* A key is added to those minted.                                               *)
LEMMA RangeAppended ==
    ASSUME NEW S, NEW s \in Seq(S), NEW e
    PROVE  Range(Append(s, e)) = Range(s) \cup {e}
<1> DEFINE r == Append(s, e)
<1>1. /\ Len(s) \in Nat /\ DOMAIN s = 1..Len(s) /\ DOMAIN r = 1..(Len(s) + 1)
      /\ r[Len(s) + 1] = e /\ \A i \in DOMAIN s : r[i] = s[i]
    OBVIOUS
<1> HIDE DEF r
<1>2. ASSUME NEW i \in DOMAIN r PROVE r[i] \in Range(s) \cup {e}
    <2>1. i \in DOMAIN s \/ i = Len(s) + 1
        BY <1>1
    <2> QED BY <1>1, <2>1 DEF Range
<1>3. ASSUME NEW i \in DOMAIN s PROVE s[i] \in Range(r)
    BY <1>1 DEF Range
<1>4. e \in Range(r)
    BY <1>1 DEF Range
<1>5. Range(r) \subseteq Range(s) \cup {e}
    BY <1>2 DEF Range
<1>6. Range(s) \subseteq Range(r)
    BY <1>3 DEF Range
<1> QED BY <1>4, <1>5, <1>6 DEF r

(* Where the run is, and what its current text names.                            *)
LEMMA PlacedStep == TypeOK /\ Sized /\ Placed /\ [Next]_vars => Placed'
<1> SUFFICES ASSUME TypeOK, Sized, Placed, [Next]_vars PROVE Placed'
    OBVIOUS
<1>0. /\ Len(buf) \in Nat \ {0} /\ turn \in Nat \ {0} /\ keys \in Seq(DOMAIN buf)
      /\ Current.marks \subseteq 1..(Len(buf) - 1)
      /\ caller \in {"library", "compress", "exec"}
    BY CurrentText DEF TypeOK
<1>1. CASE CompactRows \/ ReturnInput \/ KeepUnchanged \/ KeepOriginal
    BY <1>1 DEF CompactRows, ReturnInput, KeepUnchanged, KeepOriginal, Goto, Placed
<1>2. CASE ReformatAccepted
    <2>1. PICK t \in Text : buf' = Append(buf, t) /\ (t.marks = Current.marks \/ t.marks \subseteq {1})
        BY <1>2, ReformattedText
    <2>2. pc' = "reformat" /\ pc = "reformat" /\ turn' = turn + 1 /\ keys' = keys
        BY <1>2 DEF ReformatAccepted, ReformatDue, NextTurn
    <2>3. t.marks \subseteq 1..Len(buf)
        BY <1>0, <2>1
    <2>4. Current' = t
        BY <2>1, <2>3, AppendedKeeps
    <2>5. t.marks \subseteq {1} \cup Range(keys)
        BY <2>1, <2>2 DEF Placed
    <2> QED BY <1>0, <2>2, <2>4, <2>5 DEF Placed
<1>3. CASE OffloadAccepted
    <2>1. PICK t \in Text : buf' = Append(buf, t) /\ t.marks \subseteq Current.marks \cup {Len(buf)}
        BY <1>3, OffloadedText
    <2>2. pc' = "offload" /\ pc = "offload" /\ keys' = Append(keys, Len(buf))
        BY <1>3 DEF OffloadAccepted, OffloadDue, NextTurn
    <2>3. t.marks \subseteq 1..Len(buf)
        BY <1>0, <2>1
    <2>4. Current' = t
        BY <2>1, <2>3, AppendedKeeps
    <2>5. Range(keys') = Range(keys) \cup {Len(buf)}
        BY <1>0, <2>2, RangeAppended
    <2>6. t.marks \subseteq {1} \cup Range(keys')
        BY <2>1, <2>2, <2>5 DEF Placed
    <2> QED BY <2>2, <2>4, <2>6 DEF Placed
<1>4. CASE Reinject
    <2>1. PICK t \in Text : buf' = Append(buf, t) /\ t.marks = Current.marks /\ t.shown = Current.shown \cup Lost
        BY <1>4, ReinjectedText
    <2>2. pc' = "keep" /\ pc = "reinject" /\ keys' = keys
        BY <1>4 DEF Reinject, Goto
    <2>3. t.marks \subseteq 1..Len(buf)
        BY <1>0, <2>1
    <2>4. Current' = t /\ Content' = Content
        BY <2>1, <2>3, AppendedKeeps
    <2>5. Lost' = {}
        BY <2>1, <2>4 DEF Lost
    <2>6. t.marks \subseteq {1} \cup Range(keys)
        BY <2>1, <2>2 DEF Placed
    <2> QED BY <2>2, <2>4, <2>5, <2>6 DEF Placed
<1>5. ASSUME UNCHANGED <<buf, keys, caller>>,
             pc' = "start" \/ (pc' = "reformat" /\ turn' = 1) => pc = "start" \/ (pc = "reformat" /\ turn = 1),
             pc # "done" \/ pc' = "done",
             pc' = "keep" /\ caller = "compress" => Lost = {}
      PROVE  Placed'
    <2>1. Current' = Current /\ Content' = Content
        BY <1>5 DEF Current, Content
    <2>2. Lost' = Lost
        BY <2>1 DEF Lost
    <2> QED BY <1>5, <2>1, <2>2 DEF Placed
<1>6. CASE \/ Detect \/ ReformatSkipped \/ ReformatsEnd \/ OffloadGatedOut \/ OffloadDeclined
           \/ OffloadDiscarded \/ NothingLost
    <2>1. UNCHANGED <<buf, keys, caller>> /\ pc # "done"
        BY <1>6 DEF Detect, ReformatSkipped, ReformatDue, ReformatsEnd, OffloadGatedOut, OffloadDue, OffloadDeclined,
            OffloadDiscarded, NothingLost, run
    <2>2. pc' = "start" \/ (pc' = "reformat" /\ turn' = 1) => pc = "start" \/ (pc = "reformat" /\ turn = 1)
        BY <1>0, <1>6 DEF Detect, ReformatSkipped, ReformatDue, ReformatsEnd, OffloadGatedOut, OffloadDue, OffloadDeclined,
            OffloadDiscarded, NothingLost, Goto, NextTurn
    <2>3. pc' = "keep" => Lost = {}
        BY <1>6 DEF Detect, ReformatSkipped, ReformatDue, ReformatsEnd, OffloadGatedOut, OffloadDue, OffloadDeclined,
            OffloadDiscarded, NothingLost, Goto, NextTurn
    <2> QED BY <1>5, <2>1, <2>2, <2>3
<1>7. CASE PipelineEnds
    <2>1. UNCHANGED <<buf, keys, caller>> /\ pc # "done"
        BY <1>7 DEF PipelineEnds, run
    <2>2. pc' \in {"done", "reinject", "keep"} /\ (caller = "compress" => pc' = "reinject")
        BY <1>0, <1>7 DEF PipelineEnds, Goto
    <2> QED BY <1>5, <2>1, <2>2
<1>8. CASE UNCHANGED vars
    <2>1. UNCHANGED <<buf, keys, caller, pc, turn>>
        BY <1>8 DEF vars, run
    <2> QED BY <1>5, <2>1 DEF Placed
<1> QED BY <1>1, <1>2, <1>3, <1>4, <1>5, <1>6, <1>7, <1>8 DEF Next

(* The report made: its first key, and the failure lines it shows.               *)
LEMMA ReportStep ==
    TypeOK /\ Sized /\ Placed /\ FirstKeyIsInput /\ FailuresShown /\ [Next]_vars => FirstKeyIsInput' /\ FailuresShown'
<1> SUFFICES ASSUME TypeOK, Sized, Placed, FirstKeyIsInput, FailuresShown, [Next]_vars
             PROVE  FirstKeyIsInput' /\ FailuresShown'
    OBVIOUS
<1>0. /\ Len(buf) \in Nat \ {0} /\ Current.marks \subseteq 1..(Len(buf) - 1)
      /\ caller \in {"library", "compress", "exec"} /\ dropped \in BOOLEAN
    BY CurrentText DEF TypeOK
<1>1. ASSUME NEW v, Put(v) PROVE v \in store' \/ dropped'
    BY <1>1 DEF Put
<1>2. CASE CompactRows
    <2>1. PICK t \in Text : buf' = Append(buf, t) /\ t.marks = {} /\ Tells(t) = Tells(Content)
        BY <1>2, CompactedText
    <2>2. Current' = t /\ Content' = Content
        BY <1>0, <2>1, AppendedKeeps
    <2>3. keys' = << 1 >> /\ (1 \in store' \/ dropped')
        BY <1>1, <1>2 DEF CompactRows
    <2>4. Tells(Current)' = Tells(Content)'
        BY <2>1, <2>2 DEF Tells
    <2> QED BY <2>1, <2>2, <2>3, <2>4 DEF FirstKeyIsInput, FailuresShown
<1>3. CASE ReturnInput
    <2>1. PICK t \in Text : t = Content /\ buf' = Append(buf, t) /\ t.marks = {}
        BY <1>3, CurrentText DEF ReturnInput
    <2>2. Current' = Content'
        BY <1>0, <2>1, AppendedKeeps
    <2> QED BY <2>2 DEF FirstKeyIsInput, FailuresShown, Tells
<1>4. CASE KeepOriginal
    <2>1. PICK t \in Text : /\ buf' = Append(buf, t) /\ t.shown = Current.shown
                            /\ t.marks = {IF m \in Range(keys) THEN 1 ELSE m : m \in Current.marks}
        BY <1>4, KeptText
    <2>2. Current.marks \subseteq {1} \cup Range(keys) /\ pc = "keep"
        BY <1>4 DEF KeepOriginal, Placed
    <2>3. t.marks \subseteq {1}
        BY <2>1, <2>2
    <2>4. t.marks \subseteq 1..Len(buf)
        BY <1>0, <2>3
    <2>5. Current' = t /\ Content' = Content
        BY <2>1, <2>4, AppendedKeeps
    <2>6. keys' = << 1 >> /\ (1 \in store' \/ dropped') /\ caller' = caller
        BY <1>1, <1>4 DEF KeepOriginal, run
    <2>7. FirstKeyIsInput'
        BY <2>3, <2>5, <2>6 DEF FirstKeyIsInput
    <2>8. caller = "compress" => Content.shown \cap Failures \subseteq Current.shown
        BY <2>2 DEF Placed, Lost
    <2> QED BY <2>1, <2>5, <2>6, <2>7, <2>8 DEF FailuresShown
<1>5. CASE KeepUnchanged
    <2>1. Current' = Current /\ Content' = Content /\ Current = Content
        BY <1>5 DEF KeepUnchanged, Current, Content
    <2> QED BY <2>1 DEF FirstKeyIsInput, FailuresShown, Tells
<1>6. CASE PipelineEnds
    <2>1. pc' \in {"reinject", "keep"} \/ caller' = "library"
        BY <1>0, <1>6 DEF PipelineEnds, Goto, run
    <2> QED BY <2>1 DEF FirstKeyIsInput, FailuresShown, Done
<1>7. CASE \/ Detect \/ ReformatSkipped \/ ReformatAccepted \/ ReformatsEnd \/ OffloadGatedOut \/ OffloadDeclined
           \/ OffloadDiscarded \/ OffloadAccepted \/ NothingLost \/ Reinject
    <2>1. pc' # "done"
        BY <1>7 DEF Detect, ReformatSkipped, ReformatAccepted, ReformatDue, ReformatsEnd, OffloadGatedOut, OffloadDue,
            OffloadDeclined, OffloadDiscarded, OffloadAccepted, NothingLost, Reinject, Goto, NextTurn
    <2> QED BY <2>1 DEF FirstKeyIsInput, FailuresShown, Done
<1>8. CASE UNCHANGED vars
    BY <1>8 DEF vars, run, FirstKeyIsInput, FailuresShown, Done, Current, Content, Tells
<1> QED BY <1>2, <1>3, <1>4, <1>5, <1>6, <1>7, <1>8 DEF Next

-----------------------------------------------------------------------------
(* What the markers give back.  Recovered is defined by recursion on the texts,  *)
(* which is replaced here by induction on the run: what solves its equation for  *)
(* the texts of one state is what solves it for the texts of the next, less the  *)
(* text the step appended.                                                       *)
Solves(S, R) == R = [v \in DOMAIN buf |-> Tells(buf[v]) \cup UNION {R[m] : m \in buf[v].marks \cap S}]
Solvable == \A S \in SUBSET Nat : \E R : Solves(S, R)

(* A pipeline whose every dropped piece is stored; its current text names stored *)
(* texts only, and gives back all that the input told.                           *)
NoSource == "source_compressor" \notin Range(Reformats[type])
Marked == NoSource /\ pc # "done" => Current.marks \subseteq Range(keys)
Kept == NoSource /\ ~dropped => \A R : Solves(store, R) => Tells(Content) \subseteq R[Len(buf)]

(* The equation of an appended text.                                             *)
LEMMA AppendedSolves ==
    ASSUME TypeOK, Sized, NEW t \in Text, buf' = Append(buf, t), t.marks \subseteq 1..Len(buf),
           NEW S \in SUBSET Nat, NEW R, Solves(S, R)'
    PROVE  /\ Solves(S, [v \in DOMAIN buf |-> R[v]])
           /\ R[Len(buf) + 1] = Tells(t) \cup UNION {R[m] : m \in t.marks \cap S}
<1>1. /\ Len(buf) \in Nat \ {0} /\ DOMAIN buf = 1..Len(buf) /\ DOMAIN buf' = 1..(Len(buf) + 1)
      /\ \A v \in DOMAIN buf : buf'[v] = buf[v]
      /\ buf'[Len(buf) + 1] = t
    BY AppendedKeeps
<1>2. R = [v \in DOMAIN buf' |-> Tells(buf'[v]) \cup UNION {R[m] : m \in buf'[v].marks \cap S}]
    BY DEF Solves, Tells
<1>3. ASSUME NEW v \in DOMAIN buf'
      PROVE  R[v] = Tells(buf'[v]) \cup UNION {R[m] : m \in buf'[v].marks \cap S}
    <2> DEFINE G(w) == Tells(buf'[w]) \cup UNION {R[m] : m \in buf'[w].marks \cap S}
    <2>1. R = [w \in DOMAIN buf' |-> G(w)]
        BY <1>2
    <2> HIDE DEF G
    <2>2. R[v] = G(v)
        BY <2>1
    <2> QED BY <2>2 DEF G
<1>4. R[Len(buf) + 1] = Tells(t) \cup UNION {R[m] : m \in t.marks \cap S}
    <2>1. Len(buf) + 1 \in DOMAIN buf'
        BY <1>1
    <2>2. R[Len(buf) + 1] = Tells(buf'[Len(buf) + 1]) \cup UNION {R[m] : m \in buf'[Len(buf) + 1].marks \cap S}
        BY <1>3, <2>1
    <2> QED BY <1>1, <2>2
<1> DEFINE Q == [v \in DOMAIN buf |-> R[v]]
<1>5. ASSUME NEW v \in DOMAIN buf
      PROVE  Q[v] = Tells(buf[v]) \cup UNION {Q[m] : m \in buf[v].marks \cap S}
    <2>1. Q[v] = Tells(buf[v]) \cup UNION {R[m] : m \in buf[v].marks \cap S}
        <3>1. v \in DOMAIN buf' /\ buf'[v] = buf[v] /\ Q[v] = R[v]
            BY <1>1
        <3>2. R[v] = Tells(buf'[v]) \cup UNION {R[m] : m \in buf'[v].marks \cap S}
            BY <1>3, <3>1
        <3> QED BY <3>1, <3>2
    <2>2. \A m \in buf[v].marks : m \in DOMAIN buf
        BY <1>1 DEF TypeOK
    <2>3. \A m \in buf[v].marks : Q[m] = R[m]
        BY <2>2
    <2> HIDE DEF Q
    <2>4. {R[m] : m \in buf[v].marks \cap S} = {Q[m] : m \in buf[v].marks \cap S}
        BY <2>3
    <2> QED BY <2>1, <2>4
<1>6. Solves(S, Q)
    <2>1. Q = [v \in DOMAIN buf |-> Q[v]]
        OBVIOUS
    <2> HIDE DEF Q
    <2> QED BY <1>5, <2>1 DEF Solves
<1> QED BY <1>4, <1>6

(* What solves the equation is extended to an appended text.                     *)
LEMMA AppendedSolvable ==
    ASSUME TypeOK, Sized, Solvable, NEW t \in Text, buf' = Append(buf, t), t.marks \subseteq 1..Len(buf)
    PROVE  Solvable'
<1>1. /\ Len(buf) \in Nat \ {0} /\ DOMAIN buf = 1..Len(buf) /\ DOMAIN buf' = 1..(Len(buf) + 1)
      /\ \A v \in DOMAIN buf : buf'[v] = buf[v]
      /\ buf'[Len(buf) + 1] = t
    BY AppendedKeeps
<1> SUFFICES ASSUME NEW S \in SUBSET Nat PROVE \E R : Solves(S, R)'
    BY DEF Solvable
<1>2. PICK Q : Q = [v \in DOMAIN buf |-> Tells(buf[v]) \cup UNION {Q[m] : m \in buf[v].marks \cap S}]
    BY DEF Solvable, Solves
<1>3. PICK last : last = Tells(t) \cup UNION {Q[m] : m \in t.marks \cap S}
    OBVIOUS
<1>4. PICK R : R = [v \in 1..(Len(buf) + 1) |-> IF v = Len(buf) + 1 THEN last ELSE Q[v]]
    OBVIOUS
<1>5. \A m \in DOMAIN buf : R[m] = Q[m]
    BY <1>1, <1>4
<1>6. R[Len(buf) + 1] = last
    BY <1>1, <1>4
<1>7. ASSUME NEW v \in DOMAIN buf'
      PROVE  R[v] = Tells(buf'[v]) \cup UNION {R[m] : m \in buf'[v].marks \cap S}
    <2>1. CASE v = Len(buf) + 1
        <3>1. \A m \in t.marks : R[m] = Q[m]
            BY <1>1, <1>5
        <3>2. {R[m] : m \in t.marks \cap S} = {Q[m] : m \in t.marks \cap S}
            BY <3>1
        <3> QED BY <1>1, <1>3, <1>6, <2>1, <3>2
    <2>2. CASE v # Len(buf) + 1
        <3>1. v \in DOMAIN buf /\ buf'[v] = buf[v] /\ R[v] = Q[v]
            BY <1>1, <1>5, <2>2
        <3>2. \A m \in buf[v].marks : m \in DOMAIN buf
            BY <1>1, <3>1 DEF TypeOK
        <3>3. \A m \in buf[v].marks : R[m] = Q[m]
            BY <1>5, <3>2
        <3>4. {R[m] : m \in buf[v].marks \cap S} = {Q[m] : m \in buf[v].marks \cap S}
            BY <3>3
        <3>5. Q[v] = Tells(buf[v]) \cup UNION {Q[m] : m \in buf[v].marks \cap S}
            BY <1>2, <3>1
        <3> QED BY <3>1, <3>4, <3>5
    <2> QED BY <2>1, <2>2
<1>8. R = [v \in DOMAIN buf' |-> R[v]]
    BY <1>1, <1>4
<1>9. R = [v \in DOMAIN buf' |-> Tells(buf'[v]) \cup UNION {R[m] : m \in buf'[v].marks \cap S}]
    BY <1>7, <1>8
<1> QED BY <1>9 DEF Solves, Tells

(* What solves the equation, at one text.                                        *)
LEMMA SolvedAt ==
    ASSUME NEW S, NEW R, Solves(S, R), NEW v \in DOMAIN buf
    PROVE  R[v] = Tells(buf[v]) \cup UNION {R[m] : m \in buf[v].marks \cap S}
<1> DEFINE G(w) == Tells(buf[w]) \cup UNION {R[m] : m \in buf[w].marks \cap S}
<1>1. R = [w \in DOMAIN buf |-> G(w)]
    BY DEF Solves
<1> HIDE DEF G
<1>2. R[v] = G(v)
    BY <1>1
<1> QED BY <1>2 DEF G

(* An equation that has a solution is solved by what the recursion defines.      *)
LEMMA RecoveredSolves == Solvable /\ store \in SUBSET Nat => Solves(store, Recovered)
<1> SUFFICES ASSUME Solvable, store \in SUBSET Nat PROVE Solves(store, Recovered)
    OBVIOUS
<1>1. \E R : R = [v \in DOMAIN buf |-> Tells(buf[v]) \cup UNION {R[m] : m \in buf[v].marks \cap store}]
    BY DEF Solvable, Solves
<1>2. Recovered = CHOOSE R : R = [v \in DOMAIN buf |-> Tells(buf[v]) \cup UNION {R[m] : m \in buf[v].marks \cap store}]
    BY DEF Recovered
<1>3. Recovered = [v \in DOMAIN buf |-> Tells(buf[v]) \cup UNION {Recovered[m] : m \in buf[v].marks \cap store}]
    BY <1>1, <1>2
<1> QED BY <1>3 DEF Solves

(* An appended text that tells all, or names the same texts and tells no less.   *)
LEMMA KeptAppended ==
    ASSUME TypeOK, Sized, Kept, NEW t \in Text, buf' = Append(buf, t), t.marks \subseteq 1..Len(buf),
           store' \in SUBSET Nat, NoSource' <=> NoSource,
           \/ Tells(Content) \subseteq Tells(t)
           \/ /\ UNCHANGED <<store, dropped>> /\ t.marks = Current.marks
              /\ Tells(Current) \subseteq Tells(t)
    PROVE  Kept'
<1>1. PICK S \in SUBSET Nat : S = store'
    OBVIOUS
<1>2. /\ Len(buf) \in Nat \ {0} /\ DOMAIN buf = 1..Len(buf) /\ Len(buf') = Len(buf) + 1 /\ Content' = Content
    BY AppendedKeeps
<1>3. Current = buf[Len(buf)]
    BY CurrentText
<1> SUFFICES ASSUME NoSource, ~dropped', NEW R, Solves(S, R)'
             PROVE  Tells(Content) \subseteq R[Len(buf) + 1]
    <2> SUFFICES ASSUME NoSource', ~dropped', NEW R, Solves(store, R)' PROVE Tells(Content)' \subseteq R[Len(buf')]
        BY DEF Kept
    <2>1. Solves(S, R)'
        BY <1>1 DEF Solves
    <2>2. Tells(Content)' = Tells(Content)
        BY <1>2 DEF Tells
    <2> QED BY <1>2, <2>1, <2>2
<1>4. /\ Solves(S, [v \in DOMAIN buf |-> R[v]])
      /\ R[Len(buf) + 1] = Tells(t) \cup UNION {R[m] : m \in t.marks \cap S}
    BY AppendedSolves
<1>5. CASE Tells(Content) \subseteq Tells(t)
    BY <1>4, <1>5
<1>6. CASE UNCHANGED <<store, dropped>> /\ t.marks = Current.marks /\ Tells(Current) \subseteq Tells(t)
    <2>1. PICK Q : Q = [v \in DOMAIN buf |-> R[v]]
        OBVIOUS
    <2>2. Tells(Content) \subseteq Q[Len(buf)]
        BY <1>1, <1>4, <1>6, <2>1 DEF Kept
    <2>3. Q[Len(buf)] = Tells(Current) \cup UNION {Q[m] : m \in Current.marks \cap S}
        <3>1. Solves(S, Q) /\ Len(buf) \in DOMAIN buf
            BY <1>2, <1>4, <2>1
        <3>2. Q[Len(buf)] = Tells(buf[Len(buf)]) \cup UNION {Q[m] : m \in buf[Len(buf)].marks \cap S}
            BY <3>1, SolvedAt
        <3> QED BY <1>3, <3>2
    <2>4. \A m \in Current.marks : Q[m] = R[m]
        BY <1>2, <1>6, <2>1
    <2>5. {Q[m] : m \in Current.marks \cap S} = {R[m] : m \in t.marks \cap S}
        BY <1>6, <2>4
    <2> QED BY <1>4, <1>6, <2>2, <2>3, <2>5
<1> QED BY <1>5, <1>6

(* The current text named by no other, a put under its hash changes nothing.     *)
LEMMA PutCurrent ==
    ASSUME TypeOK, Sized, NEW R, NEW S \in SUBSET Nat, NEW P, P = S \cup {Len(buf)}, Solves(P, R)
    PROVE  Solves(S, R)
<1>1. Len(buf) \in Nat \ {0} /\ DOMAIN buf = 1..Len(buf)
    BY CurrentText
<1>2. ASSUME NEW v \in DOMAIN buf PROVE buf[v].marks \cap P = buf[v].marks \cap S
    BY <1>1 DEF TypeOK
<1> DEFINE G(w) == Tells(buf[w]) \cup UNION {R[m] : m \in buf[w].marks \cap P}
           H(w) == Tells(buf[w]) \cup UNION {R[m] : m \in buf[w].marks \cap S}
<1>3. ASSUME NEW v \in DOMAIN buf PROVE G(v) = H(v)
    BY <1>2
<1>4. R = [v \in DOMAIN buf |-> G(v)]
    BY DEF Solves
<1>5. R = [v \in DOMAIN buf |-> H(v)]
    <2> HIDE DEF G, H
    <2> QED BY <1>3, <1>4
<1> QED BY <1>5 DEF Solves

(* An offload that is accepted stored what it left out, and names it.            *)
LEMMA KeptOffloaded ==
    ASSUME TypeOK, Sized, Kept, OffloadAccepted
    PROVE  Kept'
<1>1. PICK t \in Text : /\ buf' = Append(buf, t) /\ Len(buf) \in t.marks
                        /\ t.marks \subseteq Current.marks \cup {Len(buf)}
    BY OffloadedText
<1>2. /\ Len(buf) \in Nat \ {0} /\ DOMAIN buf = 1..Len(buf) /\ Current.marks \subseteq 1..(Len(buf) - 1)
    BY CurrentText
<1>3. t.marks \subseteq 1..Len(buf)
    BY <1>1, <1>2
<1>4. Len(buf') = Len(buf) + 1 /\ Content' = Content
    BY <1>1, <1>3, AppendedKeeps
<1>5. store \in SUBSET Nat
    BY <1>2 DEF TypeOK
<1>6. UNCHANGED type /\ Put(Len(buf))
    BY DEF OffloadAccepted, run
<1> SUFFICES ASSUME NoSource', ~dropped', NEW R, Solves(store, R)' PROVE Tells(Content)' \subseteq R[Len(buf')]
    BY DEF Kept
<1>7. store' = store \cup {Len(buf)} /\ ~dropped
    BY <1>6 DEF Put
<1>8. PICK P \in SUBSET Nat : P = store'
    BY <1>2, <1>5, <1>7
<1>9. Solves(P, R)'
    BY <1>8 DEF Solves
<1>10. /\ Solves(P, [v \in DOMAIN buf |-> R[v]])
       /\ R[Len(buf) + 1] = Tells(t) \cup UNION {R[m] : m \in t.marks \cap P}
    BY <1>1, <1>3, <1>9, AppendedSolves
<1>11. PICK Q : Q = [v \in DOMAIN buf |-> R[v]]
    OBVIOUS
<1>12. Solves(store, Q)
    BY <1>5, <1>7, <1>8, <1>10, <1>11, PutCurrent
<1>13. Tells(Content) \subseteq Q[Len(buf)]
    BY <1>6, <1>7, <1>12 DEF Kept, NoSource
<1>14. Q[Len(buf)] = R[Len(buf)] /\ Len(buf) \in t.marks \cap P
    BY <1>1, <1>2, <1>7, <1>8, <1>11
<1>15. Tells(Content) \subseteq R[Len(buf) + 1]
    BY <1>10, <1>13, <1>14
<1>16. Tells(Content)' = Tells(Content)
    BY <1>4 DEF Tells
<1> QED BY <1>4, <1>15, <1>16

(* The original kept for a caller: the markers that are left name it.            *)
LEMMA KeptOriginal ==
    ASSUME TypeOK, Sized, Solvable, Marked, Kept, KeepOriginal
    PROVE  Kept'
<1>1. PICK t \in Text : /\ buf' = Append(buf, t) /\ t.shown = Current.shown /\ t.told = Current.told
                        /\ t.marks = {IF m \in Range(keys) THEN 1 ELSE m : m \in Current.marks}
    BY KeptText
<1>2. /\ Len(buf) \in Nat \ {0} /\ DOMAIN buf = 1..Len(buf) /\ Current.marks \subseteq 1..(Len(buf) - 1)
      /\ Current = buf[Len(buf)] /\ Content = buf[1]
    BY CurrentText
<1>3. UNCHANGED type /\ Put(1) /\ pc = "keep"
    BY DEF KeepOriginal, run
<1> SUFFICES ASSUME NoSource', ~dropped', NEW R, Solves(store, R)' PROVE Tells(Content)' \subseteq R[Len(buf')]
    BY DEF Kept
<1>4. NoSource /\ Current.marks \subseteq Range(keys)
    BY <1>3 DEF NoSource, Marked
<1>5. t.marks \subseteq 1..Len(buf)
    BY <1>1, <1>2
<1>6. Len(buf') = Len(buf) + 1 /\ Content' = Content
    BY <1>1, <1>5, AppendedKeeps
<1>7. Tells(Content)' = Tells(Content) /\ Tells(t) = Tells(Current)
    BY <1>1, <1>6 DEF Tells
<1>8. store \in SUBSET Nat /\ store' = store \cup {1} /\ ~dropped
    BY <1>2, <1>3 DEF TypeOK, Put
<1>9. PICK P \in SUBSET Nat : P = store'
    BY <1>8
<1>10. Solves(P, R)'
    BY <1>9 DEF Solves
<1>11. /\ Solves(P, [v \in DOMAIN buf |-> R[v]])
       /\ R[Len(buf) + 1] = Tells(t) \cup UNION {R[m] : m \in t.marks \cap P}
    BY <1>1, <1>5, <1>10, AppendedSolves
<1>12. CASE Current.marks = {}
    <2>1. PICK Q : Solves(store, Q)
        BY <1>8 DEF Solvable
    <2>2. Tells(Content) \subseteq Q[Len(buf)]
        BY <1>4, <1>8, <2>1 DEF Kept
    <2>3. Q[Len(buf)] = Tells(Current) \cup UNION {Q[m] : m \in Current.marks \cap store}
        BY <1>2, <2>1, SolvedAt
    <2>4. Q[Len(buf)] = Tells(Current)
        BY <1>12, <2>3
    <2> QED BY <1>6, <1>7, <1>11, <2>2, <2>4
<1>13. CASE Current.marks # {}
    <2>1. 1 \in t.marks \cap P
        BY <1>1, <1>4, <1>8, <1>9, <1>13
    <2>2. PICK Q : Q = [v \in DOMAIN buf |-> R[v]]
        OBVIOUS
    <2>3. Q[1] = Tells(Content) \cup UNION {Q[m] : m \in Content.marks \cap P}
        <3>1. Solves(P, Q) /\ 1 \in DOMAIN buf
            BY <1>2, <1>11, <2>2
        <3>2. Q[1] = Tells(buf[1]) \cup UNION {Q[m] : m \in buf[1].marks \cap P}
            BY <3>1, SolvedAt
        <3> QED BY <1>2, <3>2
    <2>4. Q[1] = R[1]
        BY <1>2, <2>2
    <2> QED BY <1>6, <1>7, <1>11, <2>1, <2>3, <2>4
<1> QED BY <1>12, <1>13

(* A step that appends nothing and puts, if anything, the current text.          *)
LEMMA KeptSame ==
    ASSUME TypeOK, Sized, Kept, UNCHANGED <<buf, type>>,
           UNCHANGED <<store, dropped>> \/ Put(Len(buf))
    PROVE  Kept'
<1>1. store \in SUBSET Nat /\ Len(buf) \in Nat
    BY CurrentText DEF TypeOK
<1> SUFFICES ASSUME NoSource', ~dropped', NEW R, Solves(store, R)' PROVE Tells(Content)' \subseteq R[Len(buf')]
    BY DEF Kept
<1>2. NoSource /\ Tells(Content)' = Tells(Content) /\ Len(buf') = Len(buf)
    BY DEF NoSource, Tells, Content
<1>3. PICK P : P = store'
    OBVIOUS
<1>4. Solves(P, R)
    BY <1>3 DEF Solves, Tells
<1>5. ~dropped /\ (P = store \/ P = store \cup {Len(buf)})
    BY <1>3 DEF Put
<1>6. Solves(store, R)
    <2>1. CASE P = store
        BY <1>4, <2>1
    <2>2. CASE P = store \cup {Len(buf)}
        BY <1>1, <1>4, <2>2, PutCurrent
    <2> QED BY <1>5, <2>1, <2>2
<1> QED BY <1>2, <1>5, <1>6 DEF Kept

(* What the current text gives back, at any step.                                *)
LEMMA KeptStep ==
    TypeOK /\ Sized /\ Placed /\ Solvable /\ Marked /\ Kept /\ [Next]_vars => Solvable' /\ Marked' /\ Kept'
<1> SUFFICES ASSUME TypeOK, Sized, Placed, Solvable, Marked, Kept, [Next]_vars
             PROVE  Solvable' /\ Marked' /\ Kept'
    OBVIOUS
<1>0. /\ Len(buf) \in Nat \ {0} /\ Current.marks \subseteq 1..(Len(buf) - 1) /\ store \subseteq 1..Len(buf)
      /\ keys \in Seq(DOMAIN buf) /\ DOMAIN buf = 1..Len(buf)
    BY CurrentText DEF TypeOK
<1>1. ASSUME UNCHANGED buf PROVE Solvable'
    <2> SUFFICES ASSUME NEW S \in SUBSET Nat PROVE \E R : Solves(S, R)'
        BY DEF Solvable
    <2>1. PICK R : Solves(S, R)
        BY DEF Solvable
    <2>2. Solves(S, R)'
        BY <1>1, <2>1 DEF Solves, Tells
    <2> QED BY <2>2
<1>2. CASE CompactRows
    <2>1. PICK t \in Text : buf' = Append(buf, t) /\ t.marks = {} /\ Tells(t) = Tells(Content)
        BY <1>2, CompactedText
    <2>2. store' \in SUBSET Nat /\ (NoSource' <=> NoSource) /\ pc' = "done"
        <3>1. Put(1) /\ UNCHANGED type /\ pc' = "done"
            BY <1>2 DEF CompactRows, Goto, run
        <3>2. store' = store \/ store' = store \cup {1}
            BY <3>1 DEF Put
        <3>3. store' \in SUBSET Nat
            <4>1. store \subseteq 1..Len(buf) /\ Len(buf) \in Nat
                BY <1>0
            <4>2. store \in SUBSET Nat
                BY <4>1
            <4>3. store \cup {1} \in SUBSET Nat
                BY <4>2
            <4>4. CASE store' = store
                BY <4>2, <4>4
            <4>5. CASE store' = store \cup {1}
                BY <4>3, <4>5
            <4> QED BY <3>2, <4>4, <4>5
        <3> QED BY <3>1, <3>3 DEF NoSource
    <2>3. Solvable'
        BY <1>0, <2>1, AppendedSolvable
    <2>4. Kept'
        BY <1>0, <2>1, <2>2, KeptAppended
    <2> QED BY <2>2, <2>3, <2>4 DEF Marked
<1>3. CASE ReformatAccepted
    <2>1. PICK t \in Text :
             /\ buf' = Append(buf, t)
             /\ \/ t.marks = Current.marks /\ Tells(t) = Tells(Current)
                \/ t.marks \subseteq {1} /\ "source_compressor" \in Range(Reformats[type])
        BY <1>3, ReformattedText
    <2>2. store' \in SUBSET Nat /\ (NoSource' <=> NoSource) /\ UNCHANGED <<store, dropped, keys, pc>>
        BY <1>0, <1>3 DEF ReformatAccepted, NoSource, NextTurn, run
    <2>3. t.marks \subseteq 1..Len(buf)
        BY <1>0, <2>1
    <2>4. Solvable'
        BY <2>1, <2>3, AppendedSolvable
    <2>5. Current' = t
        BY <2>1, <2>3, AppendedKeeps
    <2>6. CASE NoSource
        <3>1. t.marks = Current.marks /\ Tells(t) = Tells(Current)
            BY <2>1, <2>6 DEF NoSource
        <3>2. Kept'
            BY <2>1, <2>2, <2>3, <3>1, KeptAppended
        <3>3. Marked'
            BY <2>2, <2>5, <3>1 DEF Marked
        <3> QED BY <2>4, <3>2, <3>3
    <2>7. CASE ~NoSource
        BY <2>2, <2>4, <2>7 DEF Marked, Kept
    <2> QED BY <2>6, <2>7
<1>4. CASE OffloadAccepted
    <2>1. PICK t \in Text : buf' = Append(buf, t) /\ t.marks \subseteq Current.marks \cup {Len(buf)}
        BY <1>4, OffloadedText
    <2>2. t.marks \subseteq 1..Len(buf)
        BY <1>0, <2>1
    <2>3. Solvable'
        BY <2>1, <2>2, AppendedSolvable
    <2>4. Current' = t
        BY <2>1, <2>2, AppendedKeeps
    <2>5. keys' = Append(keys, Len(buf)) /\ (NoSource' <=> NoSource) /\ pc' = pc
        BY <1>4 DEF OffloadAccepted, NoSource, NextTurn, run
    <2>6. Range(keys') = Range(keys) \cup {Len(buf)}
        BY <1>0, <2>5, RangeAppended
    <2>7. Marked'
        BY <2>1, <2>4, <2>5, <2>6 DEF Marked
    <2> QED BY <1>4, <2>3, <2>7, KeptOffloaded
<1>5. CASE Reinject
    <2>1. PICK t \in Text : buf' = Append(buf, t) /\ t.marks = Current.marks /\ Tells(Current) \subseteq Tells(t)
        BY <1>5, ReinjectedText
    <2>2. t.marks \subseteq 1..Len(buf)
        BY <1>0, <2>1
    <2>3. Solvable'
        BY <2>1, <2>2, AppendedSolvable
    <2>4. Current' = t
        BY <2>1, <2>2, AppendedKeeps
    <2>5. UNCHANGED <<store, dropped, keys>> /\ (NoSource' <=> NoSource) /\ pc # "done" /\ store' \in SUBSET Nat
        BY <1>0, <1>5 DEF Reinject, NoSource, run
    <2>6. Kept'
        BY <2>1, <2>2, <2>5, KeptAppended
    <2>7. Marked'
        BY <2>1, <2>4, <2>5 DEF Marked
    <2> QED BY <2>3, <2>6, <2>7
<1>6. CASE ReturnInput
    <2>1. PICK t \in Text : t = Content /\ buf' = Append(buf, t) /\ t.marks = {}
        BY <1>6, CurrentText DEF ReturnInput
    <2>2. Solvable'
        BY <1>0, <2>1, AppendedSolvable
    <2>3. store' \in SUBSET Nat /\ (NoSource' <=> NoSource) /\ pc' = "done"
        BY <1>0, <1>6 DEF ReturnInput, NoSource, Goto, run
    <2>4. Kept'
        BY <1>0, <2>1, <2>3, KeptAppended
    <2> QED BY <2>2, <2>3, <2>4 DEF Marked
<1>7. CASE KeepOriginal
    <2>1. PICK t \in Text : /\ buf' = Append(buf, t)
                            /\ t.marks = {IF m \in Range(keys) THEN 1 ELSE m : m \in Current.marks}
        BY <1>7, KeptText
    <2>2. t.marks \subseteq 1..Len(buf)
        BY <1>0, <2>1
    <2>3. Solvable'
        BY <2>1, <2>2, AppendedSolvable
    <2>4. Kept'
        BY <1>7, KeptOriginal
    <2>5. pc' = "done"
        BY <1>7 DEF KeepOriginal, Goto
    <2> QED BY <2>3, <2>4, <2>5 DEF Marked
<1>8. CASE OffloadDiscarded
    <2>1. UNCHANGED <<buf, keys, type, pc>> /\ Put(Len(buf))
        BY <1>8 DEF OffloadDiscarded, NextTurn, run
    <2>2. Marked'
        BY <2>1 DEF Marked, NoSource, Current
    <2> QED BY <1>1, <2>1, <2>2, KeptSame
<1>9. CASE \/ Detect \/ ReformatSkipped \/ ReformatsEnd \/ OffloadGatedOut \/ OffloadDeclined
           \/ PipelineEnds \/ NothingLost \/ KeepUnchanged
    <2>1. UNCHANGED <<buf, store, keys, dropped, type>> /\ pc # "done"
        BY <1>9 DEF Detect, ReformatSkipped, ReformatDue, ReformatsEnd, OffloadGatedOut, OffloadDue, OffloadDeclined,
            PipelineEnds, NothingLost, KeepUnchanged, run
    <2>2. Marked'
        BY <2>1 DEF Marked, NoSource, Current
    <2> QED BY <1>1, <2>1, <2>2, KeptSame
<1>10. CASE UNCHANGED vars
    <2>1. UNCHANGED <<buf, store, keys, dropped, type, pc>>
        BY <1>10 DEF vars, run
    <2>2. Marked'
        BY <2>1 DEF Marked, NoSource, Current
    <2> QED BY <1>1, <2>1, <2>2, KeptSame
<1> QED BY <1>2, <1>3, <1>4, <1>5, <1>6, <1>7, <1>8, <1>9, <1>10 DEF Next

-----------------------------------------------------------------------------
IInv == /\ TypeOK /\ Sized /\ Placed /\ FirstKeyIsInput /\ FailuresShown
        /\ Solvable /\ Marked /\ Kept

(* The input alone.                                                              *)
LEMMA InitIInv == Init => IInv
<1> SUFFICES ASSUME Init PROVE IInv
    OBVIOUS
<1>1. PICK n \in 1..MaxSize, s \in SUBSET Facts :
        buf = <<[size |-> n, shown |-> s, told |-> Facts \ s, marks |-> {}]>>
    BY DEF Init
<1>2. PICK t \in Text : t.marks = {} /\ buf = <<t>>
    <2> DEFINE u == [size |-> n, shown |-> s, told |-> Facts \ s, marks |-> {}]
    <2>1. u \in Text /\ u.marks = {}
        BY DEF Text
    <2> QED BY <1>1, <2>1
<1>3. Len(buf) = 1 /\ DOMAIN buf = {1} /\ buf[1] = t /\ buf \in Seq(Text) /\ buf # <<>>
    BY <1>2
<1>4. Current = t /\ Content = t
    BY <1>3 DEF Current, Content, Last
<1>5. Sized
    BY SizedInit
<1>6. TypeOK
    <2>1. keys \in Seq(DOMAIN buf) /\ Len(keys) = 0
        BY DEF Init
    <2>2. saved \in Nat /\ turn \in Nat \ {0} /\ reformatted \in DOMAIN buf /\ store \subseteq DOMAIN buf
        BY <1>3 DEF Init
    <2>3. \A v \in DOMAIN buf : buf[v].marks \subseteq 1..(v - 1)
        BY <1>2, <1>3
    <2>4. Len(keys) < Len(buf)
        BY <1>3, <2>1
    <2> QED BY <1>3, <2>1, <2>2, <2>3, <2>4 DEF Init, TypeOK
<1>7. Placed /\ FirstKeyIsInput /\ FailuresShown /\ Marked
    BY <1>2, <1>3, <1>4 DEF Init, Placed, FirstKeyIsInput, FailuresShown, Marked, Done
<1>8. Solvable
    <2> SUFFICES ASSUME NEW S \in SUBSET Nat PROVE \E R : Solves(S, R)
        BY DEF Solvable
    <2>1. PICK R : R = [v \in DOMAIN buf |-> Tells(buf[v])]
        OBVIOUS
    <2>2. \A v \in DOMAIN buf : Tells(buf[v]) = Tells(buf[v]) \cup UNION {R[m] : m \in buf[v].marks \cap S}
        BY <1>2, <1>3
    <2>3. R = [v \in DOMAIN buf |-> Tells(buf[v]) \cup UNION {R[m] : m \in buf[v].marks \cap S}]
        BY <2>1, <2>2
    <2> QED BY <2>3 DEF Solves
<1>9. Kept
    <2> SUFFICES ASSUME NEW R, Solves(store, R) PROVE Tells(Content) \subseteq R[Len(buf)]
        BY DEF Kept
    <2>1. R[1] = Tells(buf[1]) \cup UNION {R[m] : m \in buf[1].marks \cap store}
        BY <1>3, SolvedAt
    <2> QED BY <1>3, <1>4, <2>1
<1> QED BY <1>5, <1>6, <1>7, <1>8, <1>9 DEF IInv

(* The invariant at every step of a run.                                         *)
LEMMA Invariance == Spec => []IInv
<1>1. IInv /\ [Next]_vars => IInv'
    BY SizedStep, TypeStep, PlacedStep, ReportStep, KeptStep DEF IInv
<1> QED BY <1>1, InitIInv, PTL DEF Spec

(* The report of any run is well formed; where a caller asked for it, its first  *)
(* key and every marker of its output give back the exact input.                 *)
THEOREM FirstKeyGivesInput == Spec => []ReportInv
<1>1. IInv => ReportInv
    BY DEF IInv, ReportInv
<1> QED BY <1>1, Invariance, PTL

(* A compressed text shows every failure line of the input, or is a table that   *)
(* tells all of it.                                                              *)
THEOREM NoFailureHidden == Spec => []FailuresShown
<1>1. IInv => FailuresShown
    BY DEF IInv
<1> QED BY <1>1, Invariance, PTL

(* Along the markers of any number of offloads, everything the input told comes  *)
(* back.                                                                         *)
THEOREM NothingDestroyed == Spec => []InformationKept
<1>1. IInv => InformationKept
    <2> SUFFICES ASSUME IInv, ~dropped, NoSource PROVE Tells(Content) \subseteq Recovered[Len(buf)]
        BY DEF InformationKept, NoSource
    <2>1. store \in SUBSET Nat
        BY CurrentText DEF IInv, TypeOK
    <2>2. Solves(store, Recovered)
        BY <2>1, RecoveredSolves DEF IInv
    <2> QED BY <2>2 DEF IInv, Kept
<1> QED BY <1>1, Invariance, PTL

-----------------------------------------------------------------------------
(* The live zone of a conversation, LiveZone.                                *)

-----------------------------------------------------------------------------
(* What the dispatchers make of a body, message by message.                  *)

(* The client's blocks and messages, and those a request carries.            *)
Asked == Questions \cup {None}
Kinds == {"text", "result", "retrieved", "tool_use"}
Wrote == {b \in [type : Kinds, text : Live!Texts, view : {Live!Raw}] : b.type = "text" => b.text \in Questions}
Sends == {b \in [type : Kinds, text : Live!Texts, view : Live!Views] :
            b.view.short => b.text \in {"log", "ranked"}}
Written  == [role : Live!Roles, blocks : Seq(Wrote)]
Sendable == [role : Live!Roles, blocks : Seq(Sends)]

(* A sequence is one of anything larger.                                     *)
LEMMA SeqMono == \A S, T : S \subseteq T => Seq(S) \subseteq Seq(T)
  <1> SUFFICES ASSUME NEW S, NEW T, S \subseteq T, NEW s \in Seq(S) PROVE s \in Seq(T)
    OBVIOUS
  <1>1. s \in [1..Len(s) -> S] /\ Len(s) \in Nat
    OBVIOUS
  <1>2. s \in [1..Len(s) -> T]
    BY <1>1
  <1> QED BY <1>1, <1>2

(* A function of the positions is a sequence.                                *)
LEMMA FunctionIsSeq ==
    \A S : \A n \in Nat : \A f \in [1..n -> S] : f \in Seq(S) /\ Len(f) = n /\ DOMAIN f = 1..n
OBVIOUS

(* The client's blocks and messages can be sent as they are.                 *)
LEMMA ClientsBlocks ==
    /\ Wrote \subseteq Sends /\ Written \subseteq Sendable
    /\ Seq(Written) \subseteq Seq(Sendable)
    /\ \A b \in Wrote : ~b.view.short
  <1>1. \A b \in Wrote : ~b.view.short /\ b \in Sends
    BY DEF Wrote, Sends, Live!Raw, Live!Views
  <1>2. Seq(Wrote) \subseteq Seq(Sends)
    BY <1>1, SeqMono
  <1>3. Written \subseteq Sendable
    BY <1>2 DEF Written, Sendable
  <1> QED BY <1>1, <1>3, SeqMono

(* The elements of a sequence.                                               *)
LEMMA RangeIs ==
    \A S : \A s \in Seq(S) : Live!Range(s) = {s[i] : i \in 1..Len(s)} /\ Live!Range(s) \subseteq S
  <1> SUFFICES ASSUME NEW S, NEW s \in Seq(S)
               PROVE  Live!Range(s) = {s[i] : i \in 1..Len(s)} /\ Live!Range(s) \subseteq S
    OBVIOUS
  <1>1. DOMAIN s = 1..Len(s) /\ \A i \in 1..Len(s) : s[i] \in S
    OBVIOUS
  <1> QED BY <1>1 DEF Live!Range

(* A message's question is one the user asked.                               *)
LEMMA QueryType ==
    ASSUME NEW message \in Written PROVE Live!QueryOf(message) \in Asked
  <1> DEFINE asked == {b \in Live!Range(message.blocks) : b.type = "text"}
  <1>1. message.blocks \in Seq(Wrote)
    BY DEF Written
  <1>2. asked \subseteq {b \in Wrote : b.type = "text"}
    BY <1>1, RangeIs
  <1>3. \A b \in asked : b.text \in Questions
    BY <1>2 DEF Wrote
  <1>4. Live!QueryOf(message) = IF asked = {} THEN None ELSE (CHOOSE b \in asked : TRUE).text
    BY DEF Live!QueryOf
  <1> HIDE DEF asked
  <1>5. CASE asked = {}
    BY <1>4, <1>5 DEF Asked
  <1>6. CASE asked # {}
    <2>1. (CHOOSE b \in asked : TRUE) \in asked
      BY <1>6
    <2> QED BY <1>3, <1>4, <1>6, <2>1 DEF Asked
  <1> QED BY <1>5, <1>6

(* A compressed block is the same block otherwise, and short only where a    *)
(* compressor shortens it.                                                   *)
LEMMA CompressedBlock ==
    ASSUME NEW b \in Wrote, NEW q \in Asked, NEW marked \in BOOLEAN
    PROVE  /\ Live!Compressed(b, q, marked) \in Sends
           /\ Live!Compressed(b, q, marked).type = b.type
  <1>1. b \in Sends
    BY ClientsBlocks
  <1>2. CASE ~Live!Shortens(b.text)
    BY <1>1, <1>2 DEF Live!Compressed
  <1>3. CASE Live!Shortens(b.text)
    <2>1. PICK v : /\ v \in {Live!Short(q, marked), Live!Short(None, marked)}
                   /\ Live!Compressed(b, q, marked) = [b EXCEPT !.view = v]
      BY <1>3 DEF Live!Compressed
    <2>2. v \in Live!Views
      BY <2>1 DEF Live!Views, Asked
    <2>3. b.text \in {"log", "ranked"}
      BY <1>3 DEF Live!Shortens
    <2>4. b \in [type : Kinds, text : Live!Texts, view : {Live!Raw}]
      BY DEF Wrote
    <2> DEFINE d == [b EXCEPT !.view = v]
    <2>5. d = [type |-> b.type, text |-> b.text, view |-> v]
      BY <2>4
    <2>6. d \in [type : Kinds, text : Live!Texts, view : Live!Views] /\ d.text = b.text /\ d.type = b.type
      BY <2>2, <2>4, <2>5
    <2> HIDE DEF d
    <2>7. d \in Sends
      BY <2>3, <2>6 DEF Sends
    <2> QED BY <2>1, <2>6, <2>7 DEF d
  <1> QED BY <1>2, <1>3

(* One message rewritten: its blocks of the planned types, compressed for a  *)
(* question.                                                                 *)
Reworded(message, planned, question, marked) ==
    [message EXCEPT !.blocks = [b \in DOMAIN @ |->
        IF @[b].type \in planned /\ @[b].text # "structured"
        THEN Live!Compressed(@[b], question, marked)
        ELSE @[b]]]

(* One message of the field walk.                                            *)
Walked(message) ==
    [message EXCEPT !.blocks = [b \in DOMAIN @ |-> Live!Compressed(@[b], None, TRUE)]]

(* A message with other blocks, of the same types.                           *)
Alike(message, other) ==
    /\ other \in Sendable /\ other.role = message.role
    /\ Len(other.blocks) = Len(message.blocks)
    /\ \A b \in 1..Len(message.blocks) : other.blocks[b].type = message.blocks[b].type

(* A message whose blocks are replaced one by one.                           *)
LEMMA NewBlocks ==
    ASSUME NEW message \in Written, NEW f, f \in [1..Len(message.blocks) -> Sends],
           \A b \in 1..Len(message.blocks) : f[b].type = message.blocks[b].type
    PROVE  Alike(message, [message EXCEPT !.blocks = f])
  <1>1. message.blocks \in Seq(Wrote) /\ message.role \in Live!Roles /\ Len(message.blocks) \in Nat
    BY DEF Written
  <1>2. f \in Seq(Sends) /\ Len(f) = Len(message.blocks)
    BY <1>1, FunctionIsSeq
  <1> DEFINE other == [message EXCEPT !.blocks = f]
  <1>3. other.role = message.role /\ other.blocks = f /\ other = [role |-> message.role, blocks |-> f]
    BY DEF Written
  <1> HIDE DEF other
  <1>4. other \in Sendable
    BY <1>1, <1>2, <1>3 DEF Sendable
  <1>5. Alike(message, other)
    BY <1>2, <1>3, <1>4 DEF Alike
  <1> QED BY <1>5 DEF other

(* A dispatcher's rewriting leaves a message alike.                          *)
LEMMA RewordedAlike ==
    ASSUME NEW message \in Written, NEW planned, NEW q \in Asked, NEW marked \in BOOLEAN
    PROVE  Alike(message, Reworded(message, planned, q, marked))
  <1>1. message.blocks \in Seq(Wrote) /\ DOMAIN message.blocks = 1..Len(message.blocks)
    BY DEF Written
  <1> DEFINE f == [b \in DOMAIN message.blocks |->
                     IF message.blocks[b].type \in planned /\ message.blocks[b].text # "structured"
                     THEN Live!Compressed(message.blocks[b], q, marked)
                     ELSE message.blocks[b]]
  <1>2. ASSUME NEW b \in 1..Len(message.blocks)
        PROVE  f[b] \in Sends /\ f[b].type = message.blocks[b].type
    <2>1. message.blocks[b] \in Wrote /\ message.blocks[b] \in Sends
      BY <1>1, ClientsBlocks
    <2>2. /\ Live!Compressed(message.blocks[b], q, marked) \in Sends
          /\ Live!Compressed(message.blocks[b], q, marked).type = message.blocks[b].type
      BY <2>1, CompressedBlock
    <2> QED BY <1>1, <2>1, <2>2
  <1>3. f \in [1..Len(message.blocks) -> Sends]
    BY <1>1, <1>2
  <1>4. Reworded(message, planned, q, marked) = [message EXCEPT !.blocks = f]
    BY DEF Reworded, Written
  <1> HIDE DEF f
  <1> QED BY <1>2, <1>3, <1>4, NewBlocks

(* So does the field walk.                                                   *)
LEMMA WalkedAlike ==
    ASSUME NEW message \in Written PROVE Alike(message, Walked(message))
  <1>1. message.blocks \in Seq(Wrote) /\ DOMAIN message.blocks = 1..Len(message.blocks)
    BY DEF Written
  <1> DEFINE f == [b \in DOMAIN message.blocks |-> Live!Compressed(message.blocks[b], None, TRUE)]
  <1>2. ASSUME NEW b \in 1..Len(message.blocks)
        PROVE  f[b] \in Sends /\ f[b].type = message.blocks[b].type
    <2>1. message.blocks[b] \in Wrote /\ None \in Asked
      BY <1>1 DEF Asked
    <2> QED BY <1>1, <2>1, CompressedBlock
  <1>3. f \in [1..Len(message.blocks) -> Sends]
    BY <1>1, <1>2
  <1>4. Walked(message) = [message EXCEPT !.blocks = f]
    BY DEF Walked, Written
  <1> HIDE DEF f
  <1> QED BY <1>2, <1>3, <1>4, NewBlocks

(* A message is like itself.                                                 *)
LEMMA SelfAlike == ASSUME NEW message \in Written PROVE Alike(message, message)
BY ClientsBlocks DEF Alike

(* Of the positions of a role, one is the latest.                            *)
LEMMA LatestExists ==
    ASSUME NEW n \in Nat, NEW S \in SUBSET (1..n), S # {}
    PROVE  \E i \in S : Live!Latest(S) = {i}
  <1> DEFINE Bounds == {k \in Nat : \A j \in S : j <= k}
             Less == OpToRel(<, Nat)
  <1>1. n \in Bounds /\ Bounds \subseteq Nat /\ Bounds # {}
    OBVIOUS
  <1>0. S \subseteq Nat /\ \A j \in S : j >= 1
    OBVIOUS
  <1>2. IsWellFoundedOn(Less, Nat)
    BY NatLessThanWellFounded
  <1>7. \A i, j \in Nat : << i, j >> \in Less <=> i < j
    BY DEF OpToRel
  <1> HIDE DEF Less
  <1>3. PICK x \in Bounds : \A y \in Bounds : ~ (<< y, x >> \in Less)
    <2> HIDE DEF Bounds
    <2> QED BY <1>1, <1>2, WFMin
  <1>4. x \in S
    <2> SUFFICES ASSUME x \notin S PROVE FALSE
      OBVIOUS
    <2>0. x \in Nat /\ \A j \in S : j <= x
      OBVIOUS
    <2>3. PICK e \in S : TRUE
      OBVIOUS
    <2>4. e \in Nat /\ e >= 1 /\ e <= x
      BY <1>0, <2>0
    <2>5. ASSUME NEW j \in S PROVE j <= x - 1
      <3>1. j \in Nat /\ j <= x /\ j # x
        BY <1>0, <2>0
      <3> QED BY <2>0, <3>1
    <2>1. x \in Nat /\ x >= 1 /\ \A j \in S : j <= x - 1
      BY <2>0, <2>4, <2>5
    <2>2. x - 1 \in Bounds /\ x - 1 < x
      BY <2>1
    <2> QED BY <1>3, <1>7, <2>1, <2>2
  <1>5. \A j \in S : j <= x
    OBVIOUS
  <1>6. Live!Latest(S) = {x}
    <2>1. ASSUME NEW i \in S, \A j \in S : j <= i PROVE i = x
      <3>1. i \in Nat /\ x \in Nat /\ x <= i /\ i <= x
        BY <1>0, <1>4, <1>5, <2>1
      <3> QED BY <3>1
    <2> QED BY <1>4, <1>5, <2>1 DEF Live!Latest
  <1> QED BY <1>4, <1>6

(* The messages of a role.                                                   *)
LEMMA RoleIs ==
    ASSUME NEW body \in Seq(Written), NEW role
    PROVE  Live!OfRole(body, role) = {i \in 1..Len(body) : body[i].role = role}
  <1>1. DOMAIN body = 1..Len(body)
    OBVIOUS
  <1> QED BY <1>1 DEF Live!OfRole

(* The latest question of a body is one the user asked.                      *)
LEMMA LatestQuestionIs ==
    ASSUME NEW body \in Seq(Written)
    PROVE  /\ Live!LatestQuestion(body) \in Asked
           /\ \A u : Live!Latest(Live!OfRole(body, "user")) = {u} =>
                Live!LatestQuestion(body) = Live!QueryOf(body[u])
  <1> DEFINE S == Live!OfRole(body, "user")
  <1>1. Len(body) \in Nat /\ S \in SUBSET (1..Len(body))
    BY RoleIs
  <1>2. Live!LatestQuestion(body) =
          IF S = {} THEN None ELSE Live!QueryOf(body[CHOOSE u \in Live!Latest(S) : TRUE])
    BY DEF Live!LatestQuestion
  <1>3. ASSUME NEW u, Live!Latest(S) = {u}
        PROVE  Live!LatestQuestion(body) = Live!QueryOf(body[u]) /\ S # {}
    <2>1. S # {}
      BY <1>3 DEF Live!Latest
    <2>2. (CHOOSE v \in {u} : TRUE) = u
      OBVIOUS
    <2>3. Live!QueryOf(body[CHOOSE v \in Live!Latest(S) : TRUE]) = Live!QueryOf(body[u])
      BY <1>3, <2>2, Zenon
    <2> QED BY <1>2, <2>1, <2>3
  <1>4. Live!LatestQuestion(body) \in Asked
    <2>1. CASE S = {}
      BY <1>2, <2>1 DEF Asked
    <2>2. CASE S # {}
      <3> HIDE DEF S
      <3>1. PICK u \in S : Live!Latest(S) = {u}
        BY <1>1, <2>2, LatestExists
      <3>2. body[u] \in Written
        BY <1>1, <3>1
      <3> QED BY <1>3, <3>1, <3>2, QueryType
    <2> QED BY <2>1, <2>2
  <1> QED BY <1>3, <1>4

(* Which messages a route's dispatcher rewrites, which blocks of them, and   *)
(* for what question.                                                        *)
LiveIn(way, body, floor) ==
    CASE way = "messages"  -> Live!AnthropicLive(body, floor)
      [] way = "chat"      -> Live!ChatLive(body)
      [] way = "responses" -> Live!ResponsesLive(body)
      [] OTHER             -> {}
PlannedIn(way) == IF way = "responses" THEN Live!PlannedResponses ELSE {"result", "text"}
QuestionIn(way, body, i) == IF way = "messages" THEN Live!QueryOf(body[i]) ELSE Live!LatestQuestion(body)

NewMessage(way, body, floor, i) ==
    IF way = "invoke" THEN Walked(body[i])
    ELSE IF i \in LiveIn(way, body, floor)
         THEN Reworded(body[i], PlannedIn(way), QuestionIn(way, body, i), way = "messages")
         ELSE body[i]

(* Every route's dispatcher works message by message.                        *)
LEMMA PreparedIs ==
    ASSUME NEW way \in Live!Routes, NEW body \in Seq(Written), NEW floor
    PROVE  Live!Prepared(way, body, floor) = [i \in 1..Len(body) |-> NewMessage(way, body, floor, i)]
  <1>1. DOMAIN body = 1..Len(body)
    OBVIOUS
  <1>3. CASE way = "messages"
    <2> DEFINE question == [i \in DOMAIN body |-> Live!QueryOf(body[i])]
               live == Live!AnthropicLive(body, floor)
    <2>1. Live!Prepared(way, body, floor) = Live!Rewritten(body, live, {"result", "text"}, question, TRUE)
      BY <1>3 DEF Live!Prepared, Live!AnthropicBody, Live!PlannedAnthropic
    <2>2. Live!Prepared(way, body, floor) =
            [i \in 1..Len(body) |-> IF i \in live THEN Reworded(body[i], {"result", "text"}, question[i], TRUE)
                                    ELSE body[i]]
      <3> HIDE DEF question, live
      <3> QED BY <1>1, <2>1, Zenon DEF Live!Rewritten, Reworded
    <2>3. ASSUME NEW i \in 1..Len(body)
          PROVE  (IF i \in live THEN Reworded(body[i], {"result", "text"}, question[i], TRUE) ELSE body[i])
                   = NewMessage(way, body, floor, i)
      BY <1>1, <1>3 DEF NewMessage, LiveIn, PlannedIn, QuestionIn
    <2> HIDE DEF question, live
    <2> QED BY <2>2, <2>3, Zenon
  <1>4. ASSUME NEW live, NEW planned, live = LiveIn(way, body, floor), planned = PlannedIn(way),
               way \in {"chat", "responses"},
               Live!Prepared(way, body, floor) =
                 Live!Rewritten(body, live, planned, [i \in DOMAIN body |-> Live!LatestQuestion(body)], FALSE)
        PROVE  Live!Prepared(way, body, floor) = [i \in 1..Len(body) |-> NewMessage(way, body, floor, i)]
    <2> DEFINE question == [i \in DOMAIN body |-> Live!LatestQuestion(body)]
    <2>2. Live!Prepared(way, body, floor) =
            [i \in 1..Len(body) |-> IF i \in live THEN Reworded(body[i], planned, question[i], FALSE)
                                    ELSE body[i]]
      <3>2. Live!Prepared(way, body, floor) = Live!Rewritten(body, live, planned, question, FALSE)
        BY <1>4
      <3> HIDE DEF question
      <3> QED BY <1>1, <3>2, Zenon DEF Live!Rewritten, Reworded
    <2>3. ASSUME NEW i \in 1..Len(body)
          PROVE  (IF i \in live THEN Reworded(body[i], planned, question[i], FALSE) ELSE body[i])
                   = NewMessage(way, body, floor, i)
      BY <1>1, <1>4 DEF NewMessage, QuestionIn
    <2> HIDE DEF question
    <2> QED BY <2>2, <2>3, Zenon
  <1>5. CASE way = "chat"
    BY <1>4, <1>5 DEF Live!Prepared, Live!ChatBody, Live!PlannedChat, LiveIn, PlannedIn
  <1>6. CASE way = "responses"
    BY <1>4, <1>6 DEF Live!Prepared, Live!ResponsesBody, LiveIn, PlannedIn
  <1>7. CASE way = "invoke"
    <2>1. Live!Prepared(way, body, floor) = [i \in DOMAIN body |-> Walked(body[i])]
      BY <1>7 DEF Live!Prepared, Live!WalkedBody, Walked
    <2> QED BY <1>1, <1>7, <2>1, Zenon DEF NewMessage
  <1> QED BY <1>3, <1>5, <1>6, <1>7 DEF Live!Routes

(* A body prepared is one that can be sent, message for message.             *)
LEMMA PreparedAlike ==
    \A way \in Live!Routes : \A body \in Seq(Written) : \A floor :
        /\ Live!Prepared(way, body, floor) \in Seq(Sendable)
        /\ Len(Live!Prepared(way, body, floor)) = Len(body)
        /\ \A i \in 1..Len(body) :
             /\ Live!Prepared(way, body, floor)[i] = NewMessage(way, body, floor, i)
             /\ Alike(body[i], Live!Prepared(way, body, floor)[i])
  <1> SUFFICES ASSUME NEW way \in Live!Routes, NEW body \in Seq(Written), NEW floor
               PROVE  /\ Live!Prepared(way, body, floor) \in Seq(Sendable)
                      /\ Len(Live!Prepared(way, body, floor)) = Len(body)
                      /\ \A i \in 1..Len(body) :
                           /\ Live!Prepared(way, body, floor)[i] = NewMessage(way, body, floor, i)
                           /\ Alike(body[i], Live!Prepared(way, body, floor)[i])
    OBVIOUS
  <1> DEFINE P == Live!Prepared(way, body, floor)
  <1>1. P = [i \in 1..Len(body) |-> NewMessage(way, body, floor, i)]
    BY PreparedIs
  <1>2. ASSUME NEW i \in 1..Len(body)
        PROVE  P[i] = NewMessage(way, body, floor, i) /\ Alike(body[i], P[i])
    <2>1. body[i] \in Written /\ P[i] = NewMessage(way, body, floor, i)
      BY <1>1
    <2>2. QuestionIn(way, body, i) \in Asked /\ (way = "messages") \in BOOLEAN
      BY <2>1, QueryType, LatestQuestionIs DEF QuestionIn
    <2> HIDE DEF P
    <2>3. CASE way = "invoke"
      BY <2>1, <2>3, WalkedAlike DEF NewMessage
    <2>4. CASE way # "invoke" /\ i \in LiveIn(way, body, floor)
      BY <2>1, <2>2, <2>4, RewordedAlike DEF NewMessage
    <2>5. CASE way # "invoke" /\ i \notin LiveIn(way, body, floor)
      BY <2>1, <2>5, SelfAlike DEF NewMessage
    <2> QED BY <2>1, <2>3, <2>4, <2>5
  <1>3. P \in [1..Len(body) -> Sendable]
    <2>1. \A i \in 1..Len(body) : P[i] \in Sendable
      BY <1>2 DEF Alike
    <2>2. DOMAIN P = 1..Len(body)
      BY <1>1
    <2>3. P = [i \in 1..Len(body) |-> P[i]]
      BY <1>1
    <2> HIDE DEF P
    <2> QED BY <2>1, <2>3
  <1>4. Len(body) \in Nat
    OBVIOUS
  <1> HIDE DEF P
  <1>5. P \in Seq(Sendable) /\ Len(P) = Len(body)
    BY <1>3, <1>4, FunctionIsSeq
  <1> QED BY <1>2, <1>5 DEF P

-----------------------------------------------------------------------------
(* The invariant of a conversation.                                          *)

Requests == [turn : Nat, body : Seq(Sendable), floor : Nat]

ZoneTypes ==
    /\ route \in Live!Routes /\ delta \in BOOLEAN /\ (delta => route = "responses")
    /\ history \in Seq(Written) /\ turns \in 1..MaxTurns
    /\ from \in 1..Len(history) /\ (~delta => from = 1)
    /\ mark \in 0..Len(history)
    /\ pending \in Seq(Sendable) /\ sent \in Seq(Requests)
    /\ stored \in SUBSET {"log", "ranked"}
    /\ losses \in Seq({"log", "ranked"}) /\ Len(losses) <= MaxLosses

(* The user begins.  A call of lm_resizer_retrieve and its answer have the   *)
(* same blocks, the call first; other routes have neither.                   *)
Reply(i) ==
    /\ history[i].role \in {"output", "retrieve"} => route = "responses"
    /\ history[i].role = "retrieve" => history[i].blocks[1].type = "retrieved"
    /\ history[i].role = "output" => history[i].blocks # <<>>
    /\ history[i].role = "output" /\ history[i].blocks[1].type = "retrieved" =>
         \E j \in 1..(i - 1) : history[j].role = "retrieve" /\ history[j].blocks = history[i].blocks
Dialogue ==
    /\ history # <<>> /\ history[1].role = "user"
    /\ \A i \in 1..Len(history) : Reply(i)

(* The history as far as the request of a turn has it.                       *)
Prefix(n) == SubSeq(history, 1, n)
EndOf(n) == IF n <= Len(sent) THEN Len(sent[n].body) ELSE Len(history)

(* Each turn is sent once, and its request is what the dispatcher makes of   *)
(* the history of that turn; a turn of the /v1/messages route has a message  *)
(* of the user.                                                              *)
Turns ==
    /\ Len(sent) \in {turns - 1, turns}
    /\ \A n \in 1..Len(sent) : sent[n].turn = n
    /\ pending # <<>> =>
         Len(sent) = turns - 1 /\ pending = Live!Prepared(route, Live!Body, mark)
SentFrom(n) ==
    /\ EndOf(n) \in 1..Len(history)
    /\ sent[n].body = Live!Prepared(route, Prefix(EndOf(n)), sent[n].floor)
Between(m, n) ==
    /\ EndOf(m) < EndOf(n)
    /\ route = "messages" => \E u \in (EndOf(m) + 1)..EndOf(n) : history[u].role = "user"
Conversation ==
    ~delta => /\ \A n \in 1..Len(sent) : SentFrom(n)
              /\ \A m, n \in 1..turns : m < n => Between(m, n)
              /\ EndOf(turns) = Len(history)

(* What the provider cached is what a request carried up to its floor.       *)
CacheEntry(entry) ==
    /\ entry.turn \in 1..Len(sent) /\ route \in {"messages", "invoke"}
    /\ sent[entry.turn].floor \in 0..Len(sent[entry.turn].body)
    /\ entry.prefix = SubSeq(sent[entry.turn].body, 1, sent[entry.turn].floor)
Cache == \A entry \in cached : CacheEntry(entry)

ZoneIInv == ZoneTypes /\ Dialogue /\ Turns /\ Conversation /\ Cache /\ Live!MarkersResolve

-----------------------------------------------------------------------------
(* What the invariant says of two requests.                                  *)

(* A prefix of the history is a body.                                        *)
LEMMA PrefixIs ==
    ASSUME ZoneTypes
    PROVE  \A n \in 1..Len(history) :
             /\ Prefix(n) \in Seq(Written) /\ Len(Prefix(n)) = n
             /\ \A i \in 1..n : Prefix(n)[i] = history[i] /\ history[i] \in Written
  <1> SUFFICES ASSUME NEW n \in 1..Len(history)
               PROVE  /\ Prefix(n) \in Seq(Written) /\ Len(Prefix(n)) = n
                      /\ \A i \in 1..n : Prefix(n)[i] = history[i] /\ history[i] \in Written
    OBVIOUS
  <1>1. history \in Seq(Written) /\ Len(history) \in Nat /\ n \in Nat /\ n <= Len(history) /\ 1 <= n
    BY DEF ZoneTypes
  <1>2. /\ SubSeq(history, 1, n) \in Seq(Written) /\ Len(SubSeq(history, 1, n)) = n
        /\ \A i \in 1..n : SubSeq(history, 1, n)[i] = history[i] /\ history[i] \in Written
    BY <1>1
  <1> QED BY <1>2 DEF Prefix

(* The messages of a role, and the latest of them, in a prefix.              *)
LEMMA PrefixRole ==
    ASSUME ZoneTypes, NEW role, NEW n \in 1..Len(history)
    PROVE  Live!OfRole(Prefix(n), role) = {i \in 1..n : history[i].role = role}
BY PrefixIs, RoleIs

(* What is the latest of a longer history is that of a shorter one which     *)
(* has it.                                                                   *)
LEMMA LatestOfLonger ==
    ASSUME ZoneTypes, NEW role, NEW n \in 1..Len(history), NEW k \in 1..Len(history), n <= k,
           NEW i \in 1..n, i \in Live!Latest(Live!OfRole(Prefix(k), role))
    PROVE  i \in Live!Latest(Live!OfRole(Prefix(n), role))
  <1>1. 1..n \subseteq 1..k
    BY DEF ZoneTypes
  <1>2. /\ i \in {j \in 1..k : history[j].role = role}
        /\ \A j \in {j \in 1..k : history[j].role = role} : j <= i
    BY PrefixRole DEF Live!Latest
  <1>3. i \in {j \in 1..n : history[j].role = role}
    BY <1>2
  <1>4. \A j \in {j \in 1..n : history[j].role = role} : j <= i
    BY <1>1, <1>2
  <1>5. Live!OfRole(Prefix(n), role) = {j \in 1..n : history[j].role = role}
    BY PrefixRole
  <1> QED BY <1>3, <1>4, <1>5 DEF Live!Latest

(* The outputs that /v1/responses rewrites are those of other tools.         *)
LEMMA ResponsesLiveIs ==
    ASSUME ZoneTypes, Dialogue, NEW n \in 1..Len(history)
    PROVE  Live!ResponsesLive(Prefix(n)) =
             {i \in 1..n : history[i].role = "output" /\ history[i].blocks[1].type # "retrieved"}
  <1>1. /\ Live!OfRole(Prefix(n), "output") = {i \in 1..n : history[i].role = "output"}
        /\ Live!OfRole(Prefix(n), "retrieve") = {i \in 1..n : history[i].role = "retrieve"}
    BY PrefixRole
  <1>2. \A i \in 1..n : Prefix(n)[i] = history[i] /\ Reply(i) /\ i \in Nat /\ \A j \in 1..(i - 1) : j \in 1..n
    BY PrefixIs DEF Dialogue, ZoneTypes
  <1>3. ASSUME NEW i \in 1..n, history[i].role = "output"
        PROVE  history[i].blocks[1].type = "retrieved" <=>
                 \E j \in {j \in 1..n : history[j].role = "retrieve"} : Prefix(n)[j].blocks = Prefix(n)[i].blocks
    <2>1. ASSUME history[i].blocks[1].type = "retrieved"
          PROVE  \E j \in {j \in 1..n : history[j].role = "retrieve"} : Prefix(n)[j].blocks = Prefix(n)[i].blocks
      <3>1. PICK j \in 1..(i - 1) : history[j].role = "retrieve" /\ history[j].blocks = history[i].blocks
        BY <1>2, <1>3, <2>1 DEF Reply
      <3>2. j \in 1..n
        BY <1>2, <3>1
      <3> QED BY <1>2, <3>1, <3>2
    <2>2. ASSUME NEW j \in 1..n, history[j].role = "retrieve", Prefix(n)[j].blocks = Prefix(n)[i].blocks
          PROVE  history[i].blocks[1].type = "retrieved"
      BY <1>2, <2>2 DEF Reply
    <2> QED BY <2>1, <2>2
  <1>4. Live!RetrievalAnswers(Prefix(n)) =
          {i \in 1..n : history[i].role = "output" /\ history[i].blocks[1].type = "retrieved"}
    BY <1>1, <1>3 DEF Live!RetrievalAnswers
  <1> QED BY <1>1, <1>4 DEF Live!ResponsesLive

(* The question of a prefix that has one.                                    *)
LEMMA PrefixQuestion ==
    ASSUME ZoneTypes, Dialogue, NEW n \in 1..Len(history)
    PROVE  \E u \in 1..n : /\ Live!Latest(Live!OfRole(Prefix(n), "user")) = {u}
                           /\ Live!LatestQuestion(Prefix(n)) = Live!QueryOf(history[u])
                           /\ history[u].role = "user"
  <1>1. Prefix(n) \in Seq(Written) /\ n \in Nat /\ 1 \in 1..n /\ \A i \in 1..n : Prefix(n)[i] = history[i]
    BY PrefixIs DEF ZoneTypes
  <1> DEFINE S == Live!OfRole(Prefix(n), "user")
  <1>2. S = {i \in 1..n : history[i].role = "user"}
    BY PrefixRole
  <1>3. S \in SUBSET (1..n) /\ S # {}
    BY <1>1, <1>2 DEF Dialogue
  <1> HIDE DEF S
  <1>4. PICK u \in S : Live!Latest(S) = {u}
    BY <1>1, <1>3, LatestExists
  <1>5. Live!LatestQuestion(Prefix(n)) = Live!QueryOf(Prefix(n)[u])
    BY <1>1, <1>4, LatestQuestionIs DEF S
  <1>6. u \in 1..n /\ history[u].role = "user" /\ Prefix(n)[u] = history[u]
    BY <1>1, <1>2
  <1> QED BY <1>4, <1>5, <1>6 DEF S

(* Where two requests may differ.                                            *)
Differs(n, k) ==
    CASE route = "messages"  -> Live!Latest(Live!OfRole(Prefix(n), "user"))
      [] route = "chat"      -> Live!Latest(Live!OfRole(Prefix(n), "user"))
                                  \cup Live!Latest(Live!OfRole(Prefix(n), "tool"))
      [] route = "responses" -> IF Live!LatestQuestion(Prefix(n)) = Live!LatestQuestion(Prefix(k)) THEN {}
                                ELSE Live!OfRole(Prefix(n), "output")
      [] route = "invoke"    -> {}

(* What a message becomes in a request and in a longer one, where they may not differ. *)
LEMMA SameMessage ==
    ASSUME ZoneTypes, Dialogue, NEW n \in 1..Len(history), NEW k \in 1..Len(history), n <= k,
           NEW f, NEW g, NEW i \in 1..n, i \notin Differs(n, k)
    PROVE  NewMessage(route, Prefix(n), f, i) = NewMessage(route, Prefix(k), g, i)
  <1>1. i \in 1..k /\ Prefix(n)[i] = history[i] /\ Prefix(k)[i] = history[i]
    <2>1. i \in 1..k
      BY DEF ZoneTypes
    <2> QED BY <2>1, PrefixIs
  <1>2. CASE route = "invoke"
    BY <1>1, <1>2 DEF NewMessage
  <1>3. ASSUME route # "invoke", i \notin LiveIn(route, Prefix(n), f), i \notin LiveIn(route, Prefix(k), g)
        PROVE  NewMessage(route, Prefix(n), f, i) = NewMessage(route, Prefix(k), g, i)
    BY <1>1, <1>3 DEF NewMessage
  <1>4. CASE route = "messages"
    <2>1. i \notin Live!Latest(Live!OfRole(Prefix(n), "user"))
      BY <1>4 DEF Differs
    <2>2. i \notin Live!Latest(Live!OfRole(Prefix(k), "user"))
      BY <2>1, LatestOfLonger
    <2>3. i \notin LiveIn(route, Prefix(n), f) /\ i \notin LiveIn(route, Prefix(k), g)
      BY <1>4, <2>1, <2>2 DEF LiveIn, Live!AnthropicLive
    <2> QED BY <1>3, <1>4, <2>3
  <1>5. CASE route = "chat"
    <2>1. /\ i \notin Live!Latest(Live!OfRole(Prefix(n), "user"))
          /\ i \notin Live!Latest(Live!OfRole(Prefix(n), "tool"))
      BY <1>5 DEF Differs
    <2>2. /\ i \notin Live!Latest(Live!OfRole(Prefix(k), "user"))
          /\ i \notin Live!Latest(Live!OfRole(Prefix(k), "tool"))
      BY <2>1, LatestOfLonger
    <2>3. i \notin LiveIn(route, Prefix(n), f) /\ i \notin LiveIn(route, Prefix(k), g)
      BY <1>5, <2>1, <2>2 DEF LiveIn, Live!ChatLive
    <2> QED BY <1>3, <1>5, <2>3
  <1>6. CASE route = "responses"
    <2> DEFINE Other == history[i].role = "output" /\ history[i].blocks[1].type # "retrieved"
    <2>1. i \in LiveIn(route, Prefix(n), f) <=> Other
      BY <1>6, ResponsesLiveIs DEF LiveIn
    <2>2. i \in LiveIn(route, Prefix(k), g) <=> Other
      BY <1>1, <1>6, ResponsesLiveIs DEF LiveIn
    <2>3. CASE Other
      <3>1. i \in Live!OfRole(Prefix(n), "output")
        BY <2>3, PrefixRole
      <3>2. Live!LatestQuestion(Prefix(n)) = Live!LatestQuestion(Prefix(k))
        BY <1>6, <3>1 DEF Differs
      <3> QED BY <1>1, <1>6, <2>1, <2>2, <2>3, <3>2 DEF NewMessage, QuestionIn
    <2>4. CASE ~Other
      BY <1>3, <1>6, <2>1, <2>2, <2>4
    <2> QED BY <2>3, <2>4
  <1> QED BY <1>2, <1>4, <1>5, <1>6 DEF ZoneTypes, Live!Routes

(* A message that no dispatcher touches.                                     *)
LEMMA UntouchedMessage ==
    ASSUME ZoneTypes, NEW n \in 1..Len(history), NEW f, NEW i \in 1..n,
           route # "invoke", i \notin LiveIn(route, Prefix(n), f)
    PROVE  NewMessage(route, Prefix(n), f, i) = history[i]
BY PrefixIs DEF NewMessage

-----------------------------------------------------------------------------
(* The invariant says what is promised of the requests.                      *)

(* A request, message by message.                                            *)
LEMMA RequestIs ==
    ASSUME ZoneTypes, Turns, Conversation, ~delta, NEW n \in 1..Len(sent)
    PROVE  /\ EndOf(n) \in 1..Len(history) /\ Len(sent[n].body) = EndOf(n) /\ sent[n].turn = n
           /\ sent[n] \in Requests
           /\ \A i \in 1..EndOf(n) :
                /\ sent[n].body[i] = NewMessage(route, Prefix(EndOf(n)), sent[n].floor, i)
                /\ Alike(history[i], sent[n].body[i])
  <1>1. SentFrom(n) /\ sent[n] \in Requests /\ sent[n].turn = n /\ route \in Live!Routes
    BY DEF Conversation, ZoneTypes, Turns
  <1>2. n \in Nat /\ n <= Len(sent)
    BY DEF ZoneTypes
  <1>3. EndOf(n) \in 1..Len(history) /\ Len(sent[n].body) = EndOf(n)
    BY <1>1, <1>2 DEF SentFrom, EndOf
  <1>4. /\ Prefix(EndOf(n)) \in Seq(Written) /\ Len(Prefix(EndOf(n))) = EndOf(n)
        /\ \A i \in 1..EndOf(n) : Prefix(EndOf(n))[i] = history[i]
    BY <1>3, PrefixIs
  <1>5. sent[n].body = Live!Prepared(route, Prefix(EndOf(n)), sent[n].floor)
    BY <1>1 DEF SentFrom
  <1> DEFINE b == Prefix(EndOf(n))
  <1>6. b \in Seq(Written) /\ Len(b) = EndOf(n)
    BY <1>4
  <1> HIDE DEF b
  <1>7. ASSUME NEW i \in 1..EndOf(n)
        PROVE  /\ Live!Prepared(route, b, sent[n].floor)[i] = NewMessage(route, b, sent[n].floor, i)
               /\ Alike(b[i], Live!Prepared(route, b, sent[n].floor)[i])
    BY <1>1, <1>6, PreparedAlike, Zenon
  <1> QED BY <1>1, <1>3, <1>4, <1>5, <1>7 DEF b

(* The messages of a role in a request are those of the history.             *)
LEMMA RequestRole ==
    ASSUME ZoneTypes, Turns, Conversation, ~delta, NEW n \in 1..Len(sent), NEW role
    PROVE  Live!OfRole(sent[n].body, role) = Live!OfRole(Prefix(EndOf(n)), role)
  <1>1. /\ EndOf(n) \in 1..Len(history) /\ Len(sent[n].body) = EndOf(n) /\ sent[n] \in Requests
        /\ \A i \in 1..EndOf(n) : sent[n].body[i].role = history[i].role
    BY RequestIs DEF Alike
  <1>2. DOMAIN sent[n].body = 1..EndOf(n)
    BY <1>1 DEF Requests
  <1>3. Live!OfRole(Prefix(EndOf(n)), role) = {i \in 1..EndOf(n) : history[i].role = role}
    BY <1>1, PrefixRole
  <1> QED BY <1>1, <1>2, <1>3 DEF Live!OfRole

(* A message of the user is sent as it is, but by the Anthropic dispatcher   *)
(* and the field walk.                                                       *)
LEMMA UsersMessage ==
    ASSUME ZoneTypes, Dialogue, Turns, Conversation, ~delta, NEW n \in 1..Len(sent), route = "responses",
           NEW u \in 1..EndOf(n), history[u].role = "user"
    PROVE  sent[n].body[u] = history[u]
  <1>1. EndOf(n) \in 1..Len(history)
    BY RequestIs
  <1>2. u \notin LiveIn(route, Prefix(EndOf(n)), sent[n].floor)
    BY <1>1, ResponsesLiveIs DEF LiveIn
  <1>3. NewMessage(route, Prefix(EndOf(n)), sent[n].floor, u) = history[u]
    BY <1>1, <1>2, UntouchedMessage
  <1> QED BY <1>3, RequestIs

(* The prompt cache keeps what it has.                                       *)
LEMMA CacheIsKept ==
    ASSUME ZoneIInv PROVE Live!CachedPrefixKept
  <1> USE DEF ZoneIInv
  <1> SUFFICES ASSUME NEW entry \in cached, NEW n \in entry.turn..Len(sent)
               PROVE  Live!IsPrefix(entry.prefix, sent[n].body)
    BY DEF Live!CachedPrefixKept
  <1> DEFINE m == entry.turn
             floor == sent[m].floor
  <1>1. /\ m \in 1..Len(sent) /\ route \in {"messages", "invoke"}
        /\ floor \in 0..Len(sent[m].body)
        /\ entry.prefix = SubSeq(sent[m].body, 1, floor)
    BY DEF Cache, CacheEntry
  <1>2. ~delta /\ Len(sent) \in Nat /\ Len(sent) <= turns /\ turns \in Nat
    BY <1>1 DEF ZoneTypes, Turns
  <1>3. n \in 1..Len(sent) /\ m <= n /\ m \in Nat /\ n \in Nat
    BY <1>1, <1>2
  <1> HIDE DEF m
  <1>4. /\ EndOf(m) \in 1..Len(history) /\ Len(sent[m].body) = EndOf(m) /\ sent[m] \in Requests
        /\ EndOf(n) \in 1..Len(history) /\ Len(sent[n].body) = EndOf(n) /\ sent[n] \in Requests
    BY <1>1, <1>2, <1>3, RequestIs
  <1>5. /\ \A i \in 1..EndOf(m) : sent[m].body[i] = NewMessage(route, Prefix(EndOf(m)), floor, i)
        /\ \A i \in 1..EndOf(n) : sent[n].body[i] = NewMessage(route, Prefix(EndOf(n)), sent[n].floor, i)
    BY <1>1, <1>2, <1>3, RequestIs
  <1>6. EndOf(m) <= EndOf(n)
    <2>1. CASE m = n
      BY <1>4, <2>1
    <2>2. CASE m # n
      <3>1. m \in 1..turns /\ n \in 1..turns /\ m < n
        BY <1>1, <1>2, <1>3, <2>2
      <3>2. Between(m, n)
        BY <1>2, <3>1 DEF Conversation
      <3> QED BY <1>4, <3>2 DEF Between
    <2> QED BY <2>1, <2>2
  <1>7. Len(history) \in Nat /\ floor \in 0..EndOf(m) /\ EndOf(m) \in Nat /\ EndOf(n) \in Nat /\ floor \in Nat
    BY <1>1, <1>4 DEF ZoneTypes
  <1> HIDE DEF floor
  <1>8. ASSUME NEW i \in 1..floor PROVE sent[m].body[i] = sent[n].body[i]
    <2>1. i \in 1..EndOf(m) /\ i \in 1..EndOf(n) /\ i \in Nat /\ i <= floor
      BY <1>6, <1>7
    <2>2. CASE m = n
      BY <2>2
    <2>3. CASE m # n /\ route = "invoke"
      <3>1. i \notin Differs(EndOf(m), EndOf(n))
        BY <2>3 DEF Differs
      <3>2. NewMessage(route, Prefix(EndOf(m)), floor, i) = NewMessage(route, Prefix(EndOf(n)), sent[n].floor, i)
        BY <1>4, <1>6, <2>1, <3>1, SameMessage
      <3> QED BY <1>5, <2>1, <3>2
    <2>4. CASE m # n /\ route = "messages"
      <3>1. m \in 1..turns /\ n \in 1..turns /\ m < n
        BY <1>1, <1>2, <1>3, <2>4
      <3>2. PICK u \in (EndOf(m) + 1)..EndOf(n) : history[u].role = "user"
        BY <1>2, <2>4, <3>1 DEF Conversation, Between
      <3>3. u \in Live!OfRole(Prefix(EndOf(n)), "user") /\ i < u
        <4>1. u \in 1..EndOf(n) /\ i < u
          BY <1>7, <2>1, <3>2
        <4> QED BY <1>4, <3>2, <4>1, PrefixRole
      <3>4. i \notin LiveIn(route, Prefix(EndOf(n)), sent[n].floor)
        <4>1. i \notin Live!Latest(Live!OfRole(Prefix(EndOf(n)), "user"))
          <5>1. u \in Nat /\ ~(u <= i)
            BY <1>7, <2>1, <3>2, <3>3
          <5> QED BY <3>3, <5>1 DEF Live!Latest
        <4> QED BY <2>4, <4>1 DEF LiveIn, Live!AnthropicLive
      <3>5. i \notin LiveIn(route, Prefix(EndOf(m)), floor)
        <4>1. ~(i > floor)
          BY <1>7, <2>1
        <4> QED BY <2>4, <4>1 DEF LiveIn, Live!AnthropicLive
      <3>6. NewMessage(route, Prefix(EndOf(m)), floor, i) = history[i]
        BY <1>4, <2>1, <2>4, <3>5, UntouchedMessage
      <3>7. NewMessage(route, Prefix(EndOf(n)), sent[n].floor, i) = history[i]
        BY <1>4, <2>1, <2>4, <3>4, UntouchedMessage
      <3> QED BY <1>5, <2>1, <3>6, <3>7
    <2> QED BY <1>1, <2>2, <2>3, <2>4
  <1> DEFINE s == sent[m].body
             t == sent[n].body
  <1>9. s \in Seq(Sendable) /\ t \in Seq(Sendable) /\ floor <= Len(s) /\ floor <= Len(t)
    BY <1>4, <1>6, <1>7 DEF Requests
  <1>10. entry.prefix = SubSeq(s, 1, floor) /\ \A i \in 1..floor : s[i] = t[i]
    BY <1>1, <1>8 DEF floor
  <1> HIDE DEF s, t
  <1>11. Len(SubSeq(s, 1, floor)) = floor
    BY <1>7, <1>9
  <1>12. SubSeq(SubSeq(s, 1, floor), 1, floor) = SubSeq(t, 1, floor)
    <2>1. \A i \in 1..floor : SubSeq(s, 1, floor)[i] = s[i]
      BY <1>7, <1>9
    <2>2. SubSeq(s, 1, floor) \in Seq(Sendable)
      BY <1>7, <1>9
    <2> QED BY <1>7, <1>9, <1>10, <1>11, <2>1, <2>2
  <1> QED BY <1>9, <1>10, <1>11, <1>12 DEF Live!IsPrefix, t

(* Two requests that follow each other differ in the live zone only.         *)
LEMMA DifferWhereLive ==
    ASSUME ZoneIInv PROVE Live!DivergesOnlyInLiveZone
  <1> USE DEF ZoneIInv
  <1> SUFFICES ASSUME ~delta, NEW n \in 1..(Len(sent) - 1), NEW i \in DOMAIN sent[n].body,
                      sent[n].body[i] # sent[n + 1].body[i]
               PROVE  i \in Live!MayDiffer(n)
    BY DEF Live!DivergesOnlyInLiveZone
  <1>1. /\ n \in 1..Len(sent) /\ n + 1 \in 1..Len(sent) /\ n \in 1..turns /\ n + 1 \in 1..turns
        /\ n < n + 1
    BY DEF ZoneTypes, Turns
  <1> DEFINE k == n + 1
  <1>2. k \in 1..Len(sent) /\ k \in 1..turns /\ n < k
    BY <1>1
  <1> HIDE DEF k
  <1>3. /\ EndOf(n) \in 1..Len(history) /\ Len(sent[n].body) = EndOf(n) /\ sent[n] \in Requests
        /\ EndOf(k) \in 1..Len(history) /\ Len(sent[k].body) = EndOf(k) /\ sent[k] \in Requests
    BY <1>1, <1>2, RequestIs
  <1>4. i \in 1..EndOf(n)
    BY <1>3 DEF Requests
  <1>5. EndOf(n) < EndOf(k)
    BY <1>1, <1>2 DEF Conversation, Between
  <1>6. EndOf(n) <= EndOf(k) /\ i \in 1..EndOf(k)
    BY <1>3, <1>4, <1>5 DEF ZoneTypes
  <1>7. /\ sent[n].body[i] = NewMessage(route, Prefix(EndOf(n)), sent[n].floor, i)
        /\ sent[k].body[i] = NewMessage(route, Prefix(EndOf(k)), sent[k].floor, i)
    BY <1>1, <1>2, <1>4, <1>6, RequestIs
  <1>8. i \in Differs(EndOf(n), EndOf(k))
    <2> SUFFICES ASSUME i \notin Differs(EndOf(n), EndOf(k)) PROVE FALSE
      OBVIOUS
    <2>1. NewMessage(route, Prefix(EndOf(n)), sent[n].floor, i) = NewMessage(route, Prefix(EndOf(k)), sent[k].floor, i)
      BY <1>3, <1>4, <1>6, SameMessage
    <2> QED BY <1>7, <2>1 DEF k
  <1>9. /\ Live!OfRole(sent[n].body, "user") = Live!OfRole(Prefix(EndOf(n)), "user")
        /\ Live!OfRole(sent[n].body, "tool") = Live!OfRole(Prefix(EndOf(n)), "tool")
        /\ Live!OfRole(sent[n].body, "output") = Live!OfRole(Prefix(EndOf(n)), "output")
        /\ Live!OfRole(sent[k].body, "user") = Live!OfRole(Prefix(EndOf(k)), "user")
    BY <1>1, <1>2, RequestRole
  <1>10. CASE route = "messages"
    BY <1>8, <1>9, <1>10 DEF Differs, Live!MayDiffer
  <1>11. CASE route = "chat"
    BY <1>8, <1>9, <1>11 DEF Differs, Live!MayDiffer
  <1>12. CASE route = "responses"
    <2> DEFINE asked(r) == {r.body[u] : u \in Live!Latest(Live!OfRole(r.body, "user"))}
    <2>1. i \in Live!OfRole(sent[n].body, "output")
          /\ Live!LatestQuestion(Prefix(EndOf(n))) # Live!LatestQuestion(Prefix(EndOf(k)))
      BY <1>8, <1>9, <1>12 DEF Differs
    <2>2. asked(sent[n]) # asked(sent[k])
      <3>1. PICK u \in 1..EndOf(n) :
               /\ Live!Latest(Live!OfRole(Prefix(EndOf(n)), "user")) = {u}
               /\ Live!LatestQuestion(Prefix(EndOf(n))) = Live!QueryOf(history[u])
               /\ history[u].role = "user"
        BY <1>3, PrefixQuestion
      <3>2. PICK v \in 1..EndOf(k) :
               /\ Live!Latest(Live!OfRole(Prefix(EndOf(k)), "user")) = {v}
               /\ Live!LatestQuestion(Prefix(EndOf(k))) = Live!QueryOf(history[v])
               /\ history[v].role = "user"
        BY <1>3, PrefixQuestion
      <3>3. sent[n].body[u] = history[u] /\ sent[k].body[v] = history[v]
        BY <1>1, <1>2, <1>12, <3>1, <3>2, UsersMessage
      <3>4. asked(sent[n]) = {history[u]} /\ asked(sent[k]) = {history[v]}
        BY <1>9, <3>1, <3>2, <3>3
      <3>5. history[u] # history[v]
        BY <2>1, <3>1, <3>2
      <3> QED BY <3>4, <3>5
    <2>3. Live!MayDiffer(n) = IF asked(sent[n]) = asked(sent[k]) THEN {}
                              ELSE Live!OfRole(sent[n].body, "output")
      BY <1>12 DEF Live!MayDiffer, k
    <2> QED BY <2>1, <2>2, <2>3
  <1>13. CASE route = "invoke"
    BY <1>8, <1>13 DEF Differs
  <1> QED BY <1>10, <1>11, <1>12, <1>13 DEF ZoneTypes, Live!Routes

(* The answer to a retrieval is sent as the client has it.                   *)
LEMMA RetrievedIsSent ==
    ASSUME ZoneIInv PROVE Live!RetrievalsReachTheModel
  <1> USE DEF ZoneIInv
  <1> SUFFICES ASSUME ~delta, NEW n \in DOMAIN sent, NEW i \in Live!OfRole(sent[n].body, "output"),
                      sent[n].body[i].blocks[1].type = "retrieved"
               PROVE  sent[n].body[i].blocks[1].view = Live!Raw
    BY DEF Live!RetrievalsReachTheModel, Live!RetrievedVerbatim
  <1>1. n \in 1..Len(sent)
    BY DEF ZoneTypes
  <1>2. EndOf(n) \in 1..Len(history)
    BY <1>1, RequestIs
  <1>3. i \in 1..EndOf(n) /\ history[i].role = "output"
    <2>1. i \in Live!OfRole(Prefix(EndOf(n)), "output")
      BY <1>1, RequestRole
    <2> QED BY <1>2, <2>1, PrefixRole
  <1>4. i \in 1..Len(history) /\ history[i] \in Written
    <2>1. i \in 1..Len(history)
      BY <1>2, <1>3 DEF ZoneTypes
    <2> QED BY <2>1 DEF ZoneTypes
  <1>5. Reply(i)
    BY <1>4 DEF Dialogue
  <1>6. route = "responses" /\ history[i].blocks # <<>>
    BY <1>3, <1>5 DEF Reply
  <1>7. history[i].blocks \in Seq(Wrote) /\ 1 \in 1..Len(history[i].blocks)
    <2>1. history[i].blocks \in Seq(Wrote)
      BY <1>4 DEF Written
    <2> QED BY <1>6, <2>1
  <1>8. history[i].blocks[1].type = "retrieved"
    BY <1>1, <1>3, <1>7, RequestIs DEF Alike
  <1>9. i \notin LiveIn(route, Prefix(EndOf(n)), sent[n].floor)
    BY <1>2, <1>6, <1>8, ResponsesLiveIs DEF LiveIn
  <1>10. sent[n].body[i] = history[i]
    <2>1. NewMessage(route, Prefix(EndOf(n)), sent[n].floor, i) = history[i]
      BY <1>2, <1>3, <1>6, <1>9, UntouchedMessage
    <2> QED BY <1>1, <1>3, <2>1, RequestIs
  <1>11. history[i].blocks[1] \in Wrote
    BY <1>7
  <1>12. history[i].blocks[1].view = Live!Raw
    BY <1>11 DEF Wrote
  <1> QED BY <1>10, <1>12

(* The types in the words of LiveZone.                                       *)
LEMMA SendableIsBody == ASSUME NEW body \in Seq(Sendable) PROVE Live!IsBody(body)
  <1> SUFFICES ASSUME NEW i \in DOMAIN body
               PROVE  /\ body[i].role \in Live!Roles
                      /\ \A b \in Live!Range(body[i].blocks) : b.text \in Live!Texts /\ b.view \in Live!Views
    BY DEF Live!IsBody
  <1>1. body[i] \in Sendable
    OBVIOUS
  <1>2. body[i].blocks \in Seq(Sends) /\ body[i].role \in Live!Roles
    BY <1>1 DEF Sendable
  <1>3. Live!Range(body[i].blocks) \subseteq Sends
    BY <1>2, RangeIs
  <1> QED BY <1>2, <1>3 DEF Sends

(* The type invariant.                                                       *)
LEMMA ZoneTyped ==
    ASSUME MaxTurns \in Nat, ZoneTypes, Turns PROVE Live!TypeOK
  <1>1. Live!IsBody(history)
    BY SendableIsBody, ClientsBlocks DEF ZoneTypes
  <1>2. Live!IsBody(pending)
    BY SendableIsBody DEF ZoneTypes
  <1>3. ASSUME NEW b \in Live!Blocks(history) PROVE b.view = Live!Raw
    <2>1. PICK i \in DOMAIN history : b \in Live!Range(history[i].blocks)
      BY <1>3 DEF Live!Blocks
    <2>2. history[i] \in Written
      BY DEF ZoneTypes
    <2>3. history[i].blocks \in Seq(Wrote)
      BY <2>2 DEF Written
    <2>4. b \in Wrote
      BY <2>1, <2>3, RangeIs
    <2> QED BY <2>4 DEF Wrote
  <1>4. ASSUME NEW n \in DOMAIN sent PROVE Live!IsBody(sent[n].body) /\ sent[n].turn = n
    <2>1. n \in 1..Len(sent) /\ sent[n] \in Requests
      BY DEF ZoneTypes
    <2>2. sent[n].body \in Seq(Sendable)
      BY <2>1 DEF Requests
    <2> QED BY <2>1, <2>2, SendableIsBody DEF Turns
  <1>5. /\ route \in Live!Routes /\ delta \in BOOLEAN /\ turns \in 1..MaxTurns
        /\ from \in 1..Len(history) /\ mark \in 0..Len(history)
        /\ stored \subseteq {"log", "ranked"} /\ Len(losses) <= MaxLosses
    BY DEF ZoneTypes
  <1> QED BY <1>1, <1>2, <1>3, <1>4, <1>5 DEF Live!TypeOK

-----------------------------------------------------------------------------
(* Every step keeps it.                                                      *)

(* A set in any order: the sequence has its elements, once each.             *)
LEMMA OrderedSet ==
    ASSUME NEW S, IsFiniteSet(S)
    PROVE  /\ Live!SetToSeq(S) \in Seq(S) /\ Len(Live!SetToSeq(S)) = Live!Cardinality(S)
           /\ Live!Range(Live!SetToSeq(S)) = S
  <1>1. Cardinality(S) \in Nat /\ ExistsBijection(1..Cardinality(S), S)
    BY FS_CardinalityType
  <1>2. \E f \in [1..Cardinality(S) -> S] : Live!IsInjective(f)
    BY <1>1 DEF ExistsBijection, Bijection, Injection, Live!IsInjective, IsInjective
  <1>3. Live!Cardinality(S) = Cardinality(S)
    BY DEF Live!Cardinality, Cardinality
  <1>4. Live!SetToSeq(S) = CHOOSE f \in [1..Cardinality(S) -> S] : Live!IsInjective(f)
    BY <1>3, Zenon DEF Live!SetToSeq
  <1>5. Live!SetToSeq(S) \in [1..Cardinality(S) -> S] /\ Live!IsInjective(Live!SetToSeq(S))
    BY <1>4, <1>2, Zenon
  <1> DEFINE f == Live!SetToSeq(S)
             n == Cardinality(S)
  <1>6. f \in Injection(1..n, S)
    BY <1>5 DEF Injection, Live!IsInjective, IsInjective
  <1>7. IsFiniteSet(1..n) /\ Cardinality(1..n) = n
    BY <1>1, FS_Interval
  <1>8. f \in Surjection(1..n, S)
    BY <1>6, <1>7, FS_Injection
  <1>9. Live!Range(f) = S
    BY <1>5, <1>8 DEF Surjection, Live!Range
  <1>10. f \in Seq(S) /\ Len(f) = n
    BY <1>1, <1>5, FunctionIsSeq
  <1> QED BY <1>3, <1>9, <1>10

(* The texts behind the markers of a body.                                   *)
LEMMA MarkedTexts ==
    ASSUME NEW body \in Seq(Sendable)
    PROVE  Live!Marked(body) \subseteq {"log", "ranked"}
  <1> SUFFICES ASSUME NEW b \in Live!Blocks(body), b.view.short PROVE b.text \in {"log", "ranked"}
    BY DEF Live!Marked
  <1>1. PICK i \in DOMAIN body : b \in Live!Range(body[i].blocks)
    BY DEF Live!Blocks
  <1>2. body[i] \in Sendable
    OBVIOUS
  <1>3. body[i].blocks \in Seq(Sends)
    BY <1>2 DEF Sendable
  <1>4. b \in Sends
    BY <1>1, <1>3, RangeIs
  <1> QED BY <1>4 DEF Sends

(* No body, no marker.                                                       *)
LEMMA NothingMarked == Live!Marked(<<>>) = {}
BY DEF Live!Marked, Live!Blocks

(* One text more that the store lost.                                        *)
LEMMA LostMore ==
    ASSUME NEW T, NEW s \in Seq(T), NEW r \in Seq(T)
    PROVE  Live!Range(s \o r) = Live!Range(s) \cup Live!Range(r)
  <1>1. /\ Live!Range(s) = {s[i] : i \in 1..Len(s)} /\ Live!Range(r) = {r[i] : i \in 1..Len(r)}
        /\ Live!Range(s \o r) = {(s \o r)[i] : i \in 1..Len(s \o r)}
    <2>1. s \o r \in Seq(T)
      OBVIOUS
    <2> QED BY <2>1, RangeIs
  <1>2. Len(s) \in Nat /\ Len(r) \in Nat /\ Len(s \o r) = Len(s) + Len(r)
        /\ \A i \in 1..(Len(s) + Len(r)) : (s \o r)[i] = IF i <= Len(s) THEN s[i] ELSE r[i - Len(s)]
    OBVIOUS
  <1>3. ASSUME NEW i \in 1..Len(s) PROVE s[i] \in {(s \o r)[j] : j \in 1..Len(s \o r)}
    <2>1. i \in 1..(Len(s) + Len(r)) /\ (s \o r)[i] = s[i]
      BY <1>2
    <2> QED BY <1>2, <2>1
  <1>4. ASSUME NEW i \in 1..Len(r) PROVE r[i] \in {(s \o r)[j] : j \in 1..Len(s \o r)}
    <2>1. i + Len(s) \in 1..(Len(s) + Len(r)) /\ ~(i + Len(s) <= Len(s)) /\ (i + Len(s)) - Len(s) = i
      BY <1>2
    <2>2. (s \o r)[i + Len(s)] = r[i]
      BY <1>2, <2>1
    <2> QED BY <1>2, <2>1, <2>2
  <1>5. ASSUME NEW i \in 1..Len(s \o r)
        PROVE  (s \o r)[i] \in {s[j] : j \in 1..Len(s)} \cup {r[j] : j \in 1..Len(r)}
    <2>1. CASE i <= Len(s)
      BY <1>2, <2>1
    <2>2. CASE ~(i <= Len(s))
      <3>1. i - Len(s) \in 1..Len(r) /\ (s \o r)[i] = r[i - Len(s)]
        BY <1>2, <2>2
      <3> QED BY <3>1
    <2> QED BY <2>1, <2>2
  <1> QED BY <1>1, <1>3, <1>4, <1>5

(* A turn is due until its request is sent.                                  *)
LEMMA WhenDue ==
    ASSUME ZoneTypes, Turns
    PROVE  /\ Live!Due => Len(sent) = turns - 1
           /\ ~Live!Due => Len(sent) = turns
  <1>1. turns \in Nat /\ turns >= 1 /\ Len(sent) \in Nat /\ Len(sent) \in {turns - 1, turns}
    BY DEF ZoneTypes, Turns
  <1>2. CASE sent = <<>>
    <2>1. Live!Due /\ Len(sent) = 0
      BY <1>2 DEF Live!Due
    <2> QED BY <1>1, <2>1
  <1>3. CASE sent # <<>>
    <2>1. Len(sent) \in 1..Len(sent)
      BY <1>3 DEF ZoneTypes
    <2>2. sent[Len(sent)].turn = Len(sent)
      BY <2>1 DEF Turns
    <2>3. Live!Due <=> Len(sent) < turns
      BY <1>3, <2>2 DEF Live!Due, Live!Last
    <2> QED BY <1>1, <2>3
  <1> QED BY <1>2, <1>3

(* What a request is made of.                                                *)
LEMMA BodyIs ==
    ASSUME ZoneTypes
    PROVE  /\ Live!Body \in Seq(Written) /\ Live!Body # <<>>
           /\ ~delta => Live!Body = Prefix(Len(history)) /\ Len(Live!Body) = Len(history)
  <1>1. history \in Seq(Written) /\ Len(history) \in Nat /\ from \in 1..Len(history) /\ (~delta => from = 1)
    BY DEF ZoneTypes
  <1>2. /\ SubSeq(history, from, Len(history)) \in Seq(Written)
        /\ Len(SubSeq(history, from, Len(history))) = Len(history) - from + 1
    BY <1>1
  <1> DEFINE b == SubSeq(history, from, Len(history))
  <1>3. Live!Body = b
    BY DEF Live!Body
  <1>4. Len(b) >= 1 /\ (from = 1 => Len(b) = Len(history))
    BY <1>1, <1>2
  <1>5. b # <<>>
    <2> HIDE DEF b
    <2> QED BY <1>4
  <1> QED BY <1>1, <1>2, <1>3, <1>4, <1>5 DEF Prefix

(* A step that leaves the conversation as it is.                             *)
LEMMA SameConversation ==
    ASSUME ZoneTypes, Conversation, UNCHANGED << route, delta, history, turns, sent >>
    PROVE  Conversation'
  <1>1. \A n : Prefix(n)' = Prefix(n) /\ EndOf(n)' = EndOf(n)
    BY DEF Prefix, EndOf
  <1>2. \A n : SentFrom(n) => SentFrom(n)'
    BY <1>1 DEF SentFrom
  <1>3. \A m, n : Between(m, n) => Between(m, n)'
    BY <1>1 DEF Between
  <1> QED BY <1>1, <1>2, <1>3 DEF Conversation, ZoneTypes

(* The parts that a step leaves alone.                                       *)
LEMMA SameDialogue == ASSUME Dialogue, UNCHANGED << route, history >> PROVE Dialogue'
BY DEF Dialogue, Reply

(* The provider's cache.                                                      *)
LEMMA SameCache == ASSUME Cache, UNCHANGED << route, sent, cached >> PROVE Cache'
BY DEF Cache, CacheEntry

(* The handler is done with a request.                                         *)
LEMMA IdleTurns == ASSUME Turns, UNCHANGED << turns, sent >>, pending' = <<>> PROVE Turns'
BY DEF Turns

(* No body in the handler, no marker to resolve.                             *)
LEMMA IdleMarkers == ASSUME pending' = <<>> PROVE Live!MarkersResolve'
  <1>1. Live!Marked(pending') \subseteq stored' \cup Live!Range(losses')
    BY NothingMarked, Zenon
  <1> QED BY <1>1, Zenon DEF Live!MarkersResolve

(* PlaceMark moves the floor of the next request only.                       *)
LEMMA MarkPlaced ==
    ASSUME ZoneIInv, NEW i \in 0..Len(history), Live!PlaceMark(i) PROVE ZoneIInv'
  <1>1. /\ UNCHANGED << route, delta, history, turns, from, pending, sent, cached, stored, losses >>
        /\ mark' = i /\ pending = <<>>
    BY DEF Live!PlaceMark, Live!Idle
  <1>2. ZoneTypes /\ Dialogue /\ Turns /\ Conversation /\ Cache
    BY DEF ZoneIInv
  <1>3. ZoneTypes'
    BY <1>1, <1>2 DEF ZoneTypes
  <1>4. Dialogue' /\ Conversation' /\ Cache' /\ Turns' /\ Live!MarkersResolve'
    BY <1>1, <1>2, SameDialogue, SameConversation, SameCache, IdleTurns, IdleMarkers
  <1> QED BY <1>3, <1>4 DEF ZoneIInv

(* Refused: the client will send the request again.                          *)
LEMMA RefusalKept == ASSUME ZoneIInv, Live!Refused PROVE ZoneIInv'
  <1>1. /\ UNCHANGED << route, delta, history, turns, from, mark, sent, cached, stored, losses >>
        /\ pending' = <<>>
    BY DEF Live!Refused
  <1>2. ZoneTypes /\ Dialogue /\ Turns /\ Conversation /\ Cache
    BY DEF ZoneIInv
  <1>3. ZoneTypes'
    BY <1>1, <1>2 DEF ZoneTypes
  <1>4. Dialogue' /\ Conversation' /\ Cache' /\ Turns' /\ Live!MarkersResolve'
    BY <1>1, <1>2, SameDialogue, SameConversation, SameCache, IdleTurns, IdleMarkers
  <1> QED BY <1>3, <1>4 DEF ZoneIInv

(* Dispatch: the body is made of the request's messages, and what it marks   *)
(* is stored or lost.                                                        *)
LEMMA DispatchKept == ASSUME MaxLosses \in Nat, ZoneIInv, Live!Dispatch PROVE ZoneIInv'
  <1> DEFINE body == Live!Prepared(route, Live!Body, mark)
             new  == Live!Marked(body) \ stored
  <1>1. /\ UNCHANGED << route, delta, history, turns, from, mark, sent, cached >>
        /\ pending' = body /\ Live!Due
    BY DEF Live!Dispatch
  <1>2. PICK refused \in SUBSET new :
          /\ Len(losses) + Live!Cardinality(refused) <= MaxLosses
          /\ stored' = stored \cup (new \ refused)
          /\ losses' = losses \o Live!SetToSeq(refused)
    BY DEF Live!Dispatch
  <1>3. ZoneTypes /\ Dialogue /\ Turns /\ Conversation /\ Cache
    BY DEF ZoneIInv
  <1>4. body \in Seq(Sendable)
    <2>1. Live!Body \in Seq(Written) /\ route \in Live!Routes
      BY <1>3, BodyIs DEF ZoneTypes
    <2> QED BY <2>1, PreparedAlike
  <1>5. new \subseteq {"log", "ranked"} /\ refused \subseteq {"log", "ranked"}
    <2>1. Live!Marked(body) \subseteq {"log", "ranked"}
      <3> HIDE DEF body
      <3> QED BY <1>4, MarkedTexts
    <2> QED BY <1>2, <2>1
  <1> DEFINE lost == Live!SetToSeq(refused)
  <1>6. /\ lost \in Seq({"log", "ranked"}) /\ Len(lost) = Live!Cardinality(refused)
        /\ Live!Range(lost) = refused
    <2>1. IsFiniteSet({"log", "ranked"})
      <3>1. IsFiniteSet({"log"}) /\ {"log", "ranked"} = {"log"} \cup {"ranked"}
        BY FS_Singleton
      <3> QED BY <3>1, FS_AddElement
    <2>2. IsFiniteSet(refused)
      BY <1>5, <2>1, FS_Subset
    <2>3. lost \in Seq(refused) /\ Len(lost) = Live!Cardinality(refused) /\ Live!Range(lost) = refused
      BY <2>2, OrderedSet
    <2>4. Seq(refused) \subseteq Seq({"log", "ranked"})
      BY <1>5, SeqMono
    <2> HIDE DEF lost
    <2> QED BY <2>3, <2>4
  <1>7. losses \in Seq({"log", "ranked"}) /\ stored \subseteq {"log", "ranked"}
    BY <1>3 DEF ZoneTypes
  <1>8. /\ losses' \in Seq({"log", "ranked"}) /\ Len(losses') = Len(losses) + Len(lost)
        /\ losses' = losses \o lost
    <2>1. losses' = losses \o lost
      BY <1>2
    <2>2. lost \in Seq({"log", "ranked"}) /\ losses \in Seq({"log", "ranked"})
      BY <1>6, <1>7
    <2> HIDE DEF lost
    <2>3. losses \o lost \in Seq({"log", "ranked"}) /\ Len(losses \o lost) = Len(losses) + Len(lost)
      BY <2>2, ConcatProperties
    <2> QED BY <2>1, <2>3
  <1>9. stored' = stored \cup (new \ refused)
    BY <1>2
  <1>10. Len(losses) + Len(lost) <= MaxLosses
    BY <1>2, <1>6
  <1> HIDE DEF body, lost
  <1>11. ZoneTypes'
    BY <1>1, <1>3, <1>4, <1>5, <1>7, <1>8, <1>9, <1>10 DEF ZoneTypes
  <1>12. Turns'
    <2>1. Len(sent) = turns - 1
      BY <1>1, <1>3, WhenDue
    <2>2. Live!Body' = Live!Body
      BY <1>1 DEF Live!Body
    <2>3. pending' = Live!Prepared(route', Live!Body', mark')
      BY <1>1, <2>2 DEF body
    <2> QED BY <1>1, <1>3, <2>1, <2>3 DEF Turns
  <1>13. Live!MarkersResolve'
    <2>1. Live!Range(losses') = Live!Range(losses) \cup refused
      BY <1>6, <1>7, <1>8, LostMore
    <2>2. Live!Marked(body) \subseteq stored' \cup refused
      BY <1>9
    <2>3. Live!Marked(pending') \subseteq stored' \cup Live!Range(losses')
      BY <1>1, <2>1, <2>2
    <2> QED BY <2>3, Zenon DEF Live!MarkersResolve
  <1>14. Dialogue' /\ Conversation' /\ Cache'
    BY <1>1, <1>3, SameDialogue, SameConversation, SameCache
  <1> QED BY <1>11, <1>12, <1>13, <1>14 DEF ZoneIInv

(* Forward: the request of the turn is the body the dispatcher prepared, and *)
(* the provider caches its prefix up to the floor.                           *)
LEMMA ForwardKept == ASSUME ZoneIInv, Live!Forward PROVE ZoneIInv'
  <1> DEFINE request == [turn |-> turns, body |-> pending, floor |-> mark]
  <1>1. /\ UNCHANGED << route, delta, history, turns, from, mark, stored, losses >>
        /\ pending # <<>> /\ pending' = <<>> /\ sent' = Append(sent, request)
    BY DEF Live!Forward, Live!Idle
  <1>2. cached' = IF route \in {"messages", "invoke"} /\ mark > 0
                  THEN cached \cup {[turn |-> turns, prefix |-> SubSeq(pending, 1, mark)]}
                  ELSE cached
    BY DEF Live!Forward
  <1>3. ZoneTypes /\ Dialogue /\ Turns /\ Conversation /\ Cache
    BY DEF ZoneIInv
  <1>4. /\ turns \in Nat /\ turns >= 1 /\ mark \in 0..Len(history) /\ Len(history) \in Nat
        /\ pending \in Seq(Sendable) /\ sent \in Seq(Requests) /\ route \in Live!Routes
    BY <1>3 DEF ZoneTypes
  <1>5. Len(sent) = turns - 1 /\ pending = Live!Prepared(route, Live!Body, mark)
    BY <1>1, <1>3 DEF Turns
  <1>6. request \in Requests /\ request.turn = turns /\ request.body = pending /\ request.floor = mark
    BY <1>4 DEF Requests
  <1> HIDE DEF request
  <1>7. /\ sent' \in Seq(Requests) /\ Len(sent') = turns /\ sent'[turns] = request
        /\ \A n \in 1..Len(sent) : sent'[n] = sent[n]
        /\ \A n \in 1..turns : n \in 1..Len(sent) \/ n = turns
    BY <1>1, <1>4, <1>5, <1>6
  <1>8. ZoneTypes'
    BY <1>1, <1>3, <1>7 DEF ZoneTypes
  <1>9. Turns'
    BY <1>1, <1>3, <1>6, <1>7 DEF Turns
  <1>10. ~delta => Len(pending) = Len(history) /\ Live!Body = Prefix(Len(history))
    BY <1>3, <1>4, <1>5, BodyIs, PreparedAlike
  <1>11. Conversation'
    <2> SUFFICES ASSUME ~delta
                 PROVE  /\ \A n \in 1..turns : SentFrom(n)'
                        /\ \A m, n \in 1..turns : m < n => Between(m, n)'
                        /\ EndOf(turns)' = Len(history')
      BY <1>1, <1>7 DEF Conversation
    <2>1. \A n \in 1..turns : EndOf(n)' = EndOf(n)
      <3> SUFFICES ASSUME NEW n \in 1..turns PROVE EndOf(n)' = EndOf(n)
        OBVIOUS
      <3>1. CASE n \in 1..Len(sent)
        <4>1. n <= Len(sent) /\ n <= Len(sent') /\ sent'[n] = sent[n]
          BY <1>4, <1>5, <1>7, <3>1
        <4> QED BY <4>1 DEF EndOf
      <3>2. CASE n = turns
        <4>1. ~(n <= Len(sent)) /\ n <= Len(sent') /\ sent'[n].body = pending
          BY <1>4, <1>5, <1>6, <1>7, <3>2
        <4> QED BY <1>10, <4>1 DEF EndOf
      <3> QED BY <1>7, <3>1, <3>2
    <2>2. \A n : Prefix(n)' = Prefix(n)
      BY <1>1 DEF Prefix
    <2>3. EndOf(turns) = Len(history)
      BY <1>3 DEF Conversation
    <2>4. ASSUME NEW n \in 1..turns PROVE SentFrom(n)'
      <3>1. CASE n \in 1..Len(sent)
        BY <1>1, <1>3, <1>7, <2>1, <2>2, <3>1 DEF Conversation, SentFrom
      <3>2. CASE n = turns
        <4>1. EndOf(n)' = Len(history) /\ Len(history) \in 1..Len(history)
          BY <1>3, <1>4, <2>1, <2>3, <3>2 DEF ZoneTypes
        <4>2. sent'[n].body = Live!Prepared(route, Prefix(Len(history)), mark) /\ sent'[n].floor = mark
          BY <1>5, <1>6, <1>7, <1>10, <3>2
        <4>3. sent'[n].body = Live!Prepared(route', Prefix(EndOf(n))', sent'[n].floor)
          <5>1. Prefix(EndOf(n))' = Prefix(Len(history))
            BY <1>1, <4>1 DEF Prefix
          <5> QED BY <1>1, <4>2, <5>1
        <4> QED BY <1>1, <4>1, <4>3 DEF SentFrom
      <3> QED BY <1>7, <3>1, <3>2
    <2>5. ASSUME NEW m \in 1..turns, NEW n \in 1..turns, m < n PROVE Between(m, n)'
      BY <1>1, <1>3, <2>1, <2>5 DEF Conversation, Between
    <2>6. EndOf(turns)' = Len(history')
      <3>1. turns' = turns /\ history' = history /\ turns <= Len(sent') /\ sent'[turns].body = pending
        BY <1>1, <1>4, <1>6, <1>7
      <3> QED BY <1>10, <3>1 DEF EndOf
    <2> QED BY <2>4, <2>5, <2>6
  <1>12. Cache'
    <2> SUFFICES ASSUME NEW entry \in cached' PROVE CacheEntry(entry)'
      BY DEF Cache
    <2>1. CASE entry \in cached
      <3>1. CacheEntry(entry)
        BY <1>3, <2>1 DEF Cache
      <3>2. entry.turn \in 1..Len(sent) /\ entry.turn \in 1..Len(sent') /\ sent'[entry.turn] = sent[entry.turn]
        BY <1>4, <1>5, <1>7, <3>1 DEF CacheEntry
      <3> QED BY <1>1, <3>1, <3>2 DEF CacheEntry
    <2>2. CASE /\ route \in {"messages", "invoke"}
               /\ entry = [turn |-> turns, prefix |-> SubSeq(pending, 1, mark)]
      <3>1. entry.turn = turns /\ entry.prefix = SubSeq(pending, 1, mark)
        BY <2>2
      <3>2. ~delta
        BY <1>3, <2>2 DEF ZoneTypes
      <3>3. turns \in 1..Len(sent') /\ mark \in 0..Len(pending)
        BY <1>4, <1>7, <1>10, <3>2
      <3> QED BY <1>1, <1>6, <1>7, <2>2, <3>1, <3>3 DEF CacheEntry
    <2> QED BY <1>2, <2>1, <2>2
  <1>13. Dialogue' /\ Live!MarkersResolve'
    BY <1>1, <1>3, SameDialogue, IdleMarkers
  <1> QED BY <1>8, <1>9, <1>11, <1>12, <1>13 DEF ZoneIInv

(* Expire: what the store forgets is among its losses.                       *)
LEMMA ExpireKept == ASSUME MaxLosses \in Nat, ZoneIInv, Live!Expire PROVE ZoneIInv'
  <1>1. PICK t \in stored :
          /\ Len(losses) < MaxLosses /\ stored' = stored \ {t} /\ losses' = Append(losses, t)
          /\ UNCHANGED << route, delta, history, turns, from, mark, pending, sent, cached >>
    BY DEF Live!Expire
  <1>2. ZoneTypes /\ Dialogue /\ Turns /\ Conversation /\ Cache
    BY DEF ZoneIInv
  <1>3. /\ t \in {"log", "ranked"} /\ losses \in Seq({"log", "ranked"}) /\ stored \subseteq {"log", "ranked"}
    BY <1>2 DEF ZoneTypes
  <1>4. /\ losses' \in Seq({"log", "ranked"}) /\ Len(losses') = Len(losses) + 1
        /\ losses' = losses \o << t >> /\ << t >> \in Seq({"log", "ranked"})
    BY <1>1, <1>3
  <1>5. ZoneTypes'
    BY <1>1, <1>2, <1>3, <1>4 DEF ZoneTypes
  <1>6. Turns'
    <2>1. Live!Body' = Live!Body
      BY <1>1 DEF Live!Body
    <2>2. pending' # <<>> => pending' = Live!Prepared(route', Live!Body', mark')
      BY <1>1, <1>2, <2>1 DEF Turns
    <2> QED BY <1>1, <1>2, <2>2 DEF Turns
  <1>7. Live!MarkersResolve'
    <2>1. Live!Range(<< t >>) = {t}
      BY DEF Live!Range
    <2>2. Live!Range(losses') = Live!Range(losses) \cup {t}
      <3> DEFINE one == << t >>
      <3>1. one \in Seq({"log", "ranked"}) /\ Live!Range(one) = {t} /\ losses' = losses \o one
        BY <1>4, <2>1
      <3> HIDE DEF one
      <3> QED BY <1>3, <3>1, LostMore
    <2>3. Live!Marked(pending) \subseteq stored \cup Live!Range(losses)
      BY DEF ZoneIInv, Live!MarkersResolve
    <2>4. Live!Marked(pending') \subseteq stored' \cup Live!Range(losses')
      BY <1>1, <2>2, <2>3
    <2> QED BY <2>4, Zenon DEF Live!MarkersResolve
  <1>8. Dialogue' /\ Conversation' /\ Cache'
    BY <1>1, <1>2, SameDialogue, SameConversation, SameCache
  <1> QED BY <1>5, <1>6, <1>7, <1>8 DEF ZoneIInv

-----------------------------------------------------------------------------
(* A turn of the conversation.                                               *)

(* What a turn adds: the rules of a reply, among the messages of the turn.   *)
TurnReply(messages, i) ==
    /\ messages[i].role \in {"output", "retrieve"} => route = "responses"
    /\ messages[i].role = "retrieve" => messages[i].blocks[1].type = "retrieved"
    /\ messages[i].role = "output" => messages[i].blocks # <<>>
    /\ messages[i].role = "output" /\ messages[i].blocks[1].type = "retrieved" =>
         \E j \in 1..(i - 1) : messages[j].role = "retrieve" /\ messages[j].blocks = messages[i].blocks

(* A user's message, or the answers to calls: two messages at least, one of  *)
(* them the user's where the route knows no other.                           *)
IsTurn(messages) ==
    /\ messages \in Seq(Written) /\ Len(messages) >= 2
    /\ \A i \in 1..Len(messages) : TurnReply(messages, i)
    /\ route = "messages" => \E i \in 1..Len(messages) : messages[i].role = "user"

(* Every prefix stays as it was, and every request ends where it did.        *)
LEMMA LongerHistory ==
    ASSUME ZoneTypes, NEW messages \in Seq(Written), history' = history \o messages
    PROVE  /\ history' \in Seq(Written) /\ Len(history') = Len(history) + Len(messages)
           /\ Len(history) \in Nat /\ Len(messages) \in Nat
           /\ \A i \in 1..Len(history) : history'[i] = history[i]
           /\ \A i \in 1..Len(messages) : history'[Len(history) + i] = messages[i]
           /\ \A n \in 1..Len(history) : Prefix(n)' = Prefix(n)
  <1>1. history \in Seq(Written) /\ messages \in Seq(Written)
    BY DEF ZoneTypes
  <1>2. /\ history \o messages \in Seq(Written) /\ Len(history \o messages) = Len(history) + Len(messages)
        /\ Len(history) \in Nat /\ Len(messages) \in Nat
    BY <1>1, ConcatProperties, LenProperties
  <1>3. \A i \in 1..(Len(history) + Len(messages)) :
          (history \o messages)[i] = IF i <= Len(history) THEN history[i] ELSE messages[i - Len(history)]
    BY <1>1, ConcatProperties
  <1>4. \A i \in 1..Len(history) : (history \o messages)[i] = history[i]
    BY <1>2, <1>3
  <1>5. ASSUME NEW i \in 1..Len(messages) PROVE (history \o messages)[Len(history) + i] = messages[i]
    <2>1. /\ Len(history) + i \in 1..(Len(history) + Len(messages)) /\ ~(Len(history) + i <= Len(history))
          /\ (Len(history) + i) - Len(history) = i
      BY <1>2
    <2> QED BY <1>3, <2>1
  <1>6. ASSUME NEW n \in 1..Len(history) PROVE Prefix(n)' = Prefix(n)
    <2>1. /\ SubSeq(history, 1, n) = [i \in 1..n |-> history[i]]
          /\ SubSeq(history \o messages, 1, n) = [i \in 1..n |-> (history \o messages)[i]]
      <3>1. \A i \in 1..n : i \in Nat /\ i + 1 - 1 = i
        BY <1>2
      <3> QED BY <1>1, <1>2, SubSeqProperties, <3>1
    <2>2. \A i \in 1..n : i \in 1..Len(history)
      BY <1>2
    <2>3. SubSeq(history \o messages, 1, n) = SubSeq(history, 1, n)
      BY <1>4, <2>1, <2>2
    <2> QED BY <2>3 DEF Prefix
  <1> QED BY <1>2, <1>4, <1>5, <1>6

(* A turn is sent before the next begins.                                    *)
LEMMA TurnKept ==
    ASSUME MaxTurns \in Nat, ZoneIInv, NEW messages, IsTurn(messages), Live!Turn(messages),
           from' = IF delta THEN Len(history) + 2 ELSE 1
    PROVE  ZoneIInv'
  <1>1. /\ pending = <<>> /\ ~Live!Due /\ turns < MaxTurns
        /\ history' = history \o messages /\ turns' = turns + 1
        /\ UNCHANGED << route, delta, mark, pending, sent, cached, stored, losses >>
    BY DEF Live!Turn, Live!Idle
  <1>2. ZoneTypes /\ Dialogue /\ Turns /\ Conversation /\ Cache
    BY DEF ZoneIInv
  <1>3. /\ messages \in Seq(Written) /\ Len(messages) >= 2
        /\ \A i \in 1..Len(messages) : TurnReply(messages, i)
        /\ route = "messages" => \E i \in 1..Len(messages) : messages[i].role = "user"
    BY DEF IsTurn
  <1>4. /\ history' \in Seq(Written) /\ Len(history') = Len(history) + Len(messages)
        /\ Len(history) \in Nat /\ Len(messages) \in Nat
        /\ \A i \in 1..Len(history) : history'[i] = history[i]
        /\ \A i \in 1..Len(messages) : history'[Len(history) + i] = messages[i]
        /\ \A n \in 1..Len(history) : Prefix(n)' = Prefix(n)
    BY <1>1, <1>2, <1>3, LongerHistory
  <1>5. /\ turns \in Nat /\ turns >= 1 /\ Len(sent) = turns /\ sent \in Seq(Requests)
        /\ history # <<>> /\ Len(history) >= 1
    <2>1. turns \in Nat /\ turns >= 1 /\ sent \in Seq(Requests) /\ history \in Seq(Written)
      BY <1>2 DEF ZoneTypes
    <2>2. Len(sent) = turns /\ history # <<>>
      BY <1>1, <1>2, WhenDue DEF Dialogue
    <2> QED BY <2>1, <2>2
  <1>6. ZoneTypes'
    <2>1. from' \in 1..Len(history') /\ (~delta => from' = 1)
      BY <1>3, <1>4, <1>5
    <2>2. turns' \in 1..MaxTurns /\ mark' \in 0..Len(history')
      BY <1>1, <1>2, <1>4, <1>5 DEF ZoneTypes
    <2> QED BY <1>1, <1>2, <1>4, <2>1, <2>2 DEF ZoneTypes
  <1>7. Turns'
    BY <1>1, <1>2, <1>5 DEF Turns
  <1>8. Dialogue'
    <2>1. history' # <<>> /\ history'[1].role = "user"
      BY <1>2, <1>4, <1>5 DEF Dialogue
    <2> SUFFICES ASSUME NEW i \in 1..Len(history') PROVE Reply(i)'
      BY <2>1 DEF Dialogue
    <2>2. CASE i <= Len(history)
      <3>1. i \in 1..Len(history) /\ history'[i] = history[i] /\ Reply(i)
        BY <1>2, <1>4, <2>2 DEF Dialogue
      <3>2. \A j \in 1..(i - 1) : history'[j] = history[j]
        BY <1>4, <3>1
      <3> QED BY <1>1, <3>1, <3>2 DEF Reply
    <2>3. CASE ~(i <= Len(history))
      <3> DEFINE k == i - Len(history)
      <3>1. k \in 1..Len(messages) /\ i = Len(history) + k
        BY <1>4, <2>3
      <3>2. history'[i] = messages[k] /\ TurnReply(messages, k)
        BY <1>3, <1>4, <3>1
      <3>3. ASSUME NEW j \in 1..(k - 1)
            PROVE  Len(history) + j \in 1..(i - 1) /\ history'[Len(history) + j] = messages[j]
        BY <1>4, <3>1
      <3> HIDE DEF k
      <3> QED BY <1>1, <3>2, <3>3 DEF Reply, TurnReply
    <2> QED BY <2>2, <2>3
  <1>9. Conversation'
    <2> SUFFICES ASSUME ~delta
                 PROVE  /\ \A n \in 1..turns : SentFrom(n)'
                        /\ \A m, n \in 1..(turns + 1) : m < n => Between(m, n)'
                        /\ EndOf(turns)' = Len(history')
      BY <1>1, <1>5 DEF Conversation
    <2>1. \A n \in 1..turns : SentFrom(n) /\ EndOf(n) \in 1..Len(history)
      BY <1>2, <1>5 DEF Conversation, SentFrom
    <2>2. \A n \in 1..turns : EndOf(n)' = EndOf(n)
      BY <1>1, <1>5 DEF EndOf
    <2>3. EndOf(turns) = Len(history) /\ \A n \in 1..turns : EndOf(n) <= Len(history)
      BY <1>2, <1>4, <2>1 DEF Conversation
    <2>4. \A n : n = turns + 1 => EndOf(n)' = Len(history')
      BY <1>1, <1>5 DEF EndOf
    <2>5. ASSUME NEW n \in 1..turns PROVE SentFrom(n)'
      <3>1. EndOf(n)' \in 1..Len(history') /\ EndOf(n)' = EndOf(n) /\ EndOf(n) \in 1..Len(history)
        BY <1>4, <2>1, <2>2
      <3>2. Prefix(EndOf(n))' = Prefix(EndOf(n))
        <4>1. Prefix(EndOf(n))' = SubSeq(history', 1, EndOf(n)')
          BY DEF Prefix
        <4>2. Prefix(EndOf(n)') = SubSeq(history, 1, EndOf(n))
          BY <3>1 DEF Prefix
        <4>3. \A k \in 1..Len(history) : SubSeq(history', 1, k) = SubSeq(history, 1, k)
          BY <1>4 DEF Prefix
        <4> QED BY <3>1, <4>1, <4>3 DEF Prefix
      <3>3. sent[n].body = Live!Prepared(route, Prefix(EndOf(n)), sent[n].floor)
        BY <2>1 DEF SentFrom
      <3>4. sent'[n].body = Live!Prepared(route', Prefix(EndOf(n))', sent'[n].floor)
        BY <1>1, <3>2, <3>3
      <3> QED BY <3>1, <3>4 DEF SentFrom
    <2>6. ASSUME NEW m \in 1..(turns + 1), NEW n \in 1..(turns + 1), m < n PROVE Between(m, n)'
      <3>1. m \in 1..turns
        BY <1>5, <2>6
      <3>2. CASE n \in 1..turns
        <4>1. Between(m, n) /\ EndOf(n)' = EndOf(n) /\ EndOf(m)' = EndOf(m) /\ EndOf(n) <= Len(history)
              /\ EndOf(m) \in 1..Len(history) /\ EndOf(n) \in 1..Len(history)
          BY <1>2, <2>1, <2>2, <2>3, <2>6, <3>1, <3>2 DEF Conversation
        <4>2. \A u \in (EndOf(m) + 1)..EndOf(n) : history'[u] = history[u]
          BY <1>4, <4>1
        <4> QED BY <1>1, <4>1, <4>2 DEF Between
      <3>3. CASE n = turns + 1
        <4>1. /\ EndOf(n)' = Len(history') /\ EndOf(m)' = EndOf(m) /\ EndOf(m) <= Len(history)
              /\ EndOf(m) \in 1..Len(history)
          BY <2>1, <2>2, <2>3, <2>4, <3>1, <3>3
        <4>2. EndOf(m)' < EndOf(n)'
          BY <1>3, <1>4, <4>1
        <4>3. ASSUME route = "messages"
              PROVE  \E u \in (EndOf(m)' + 1)..EndOf(n)' : history'[u].role = "user"
          <5>1. PICK i \in 1..Len(messages) : messages[i].role = "user"
            BY <1>3, <4>3
          <5>2. /\ Len(history) + i \in (EndOf(m)' + 1)..EndOf(n)'
                /\ history'[Len(history) + i] = messages[i]
            BY <1>4, <4>1
          <5> QED BY <5>1, <5>2
        <4> QED BY <1>1, <4>2, <4>3 DEF Between
      <3> QED BY <1>5, <3>2, <3>3
    <2>7. EndOf(turns)' = Len(history')
      BY <1>1, <1>5 DEF EndOf
    <2> QED BY <2>5, <2>6, <2>7
  <1>10. Cache' /\ Live!MarkersResolve'
    BY <1>1, <1>2, SameCache, IdleMarkers
  <1> QED BY <1>6, <1>7, <1>8, <1>9, <1>10 DEF ZoneIInv

(* The blocks the client writes.                                             *)
LEMMA BlocksWritten ==
    /\ \A q \in Questions : Live!Block("text", q) \in Wrote
    /\ \A kind \in {"result", "retrieved", "tool_use"} : \A t \in Live!Classes : Live!Block(kind, t) \in Wrote
    /\ \A kind, t : Live!Block(kind, t).type = kind /\ Live!Block(kind, t).text = t
BY DEF Live!Block, Wrote, Kinds, Live!Texts

(* The messages it makes of them.                                            *)
LEMMA MessagesWritten ==
    \A role \in Live!Roles : \A blocks \in Seq(Wrote) :
        /\ Live!Message(role, blocks) \in Written
        /\ Live!Message(role, blocks).role = role /\ Live!Message(role, blocks).blocks = blocks
BY DEF Live!Message, Written

(* Two messages, neither of a tool.                                          *)
LEMMA PairIsTurn ==
    ASSUME NEW a \in Written, NEW u \in Written, a.role = "assistant", u.role = "user"
    PROVE  IsTurn(<< a, u >>)
  <1> DEFINE messages == << a, u >>
  <1>1. /\ messages \in Seq(Written) /\ Len(messages) = 2 /\ messages[1] = a /\ messages[2] = u
    OBVIOUS
  <1> HIDE DEF messages
  <1>2. \A i \in 1..Len(messages) : messages[i].role \in {"assistant", "user"}
    BY <1>1
  <1>3. \A i \in 1..Len(messages) : TurnReply(messages, i)
    BY <1>2 DEF TurnReply
  <1>4. \E i \in 1..Len(messages) : messages[i].role = "user"
    BY <1>1
  <1>5. IsTurn(messages)
    BY <1>1, <1>3, <1>4 DEF IsTurn
  <1> QED BY <1>5 DEF messages

(* Asks: a question and the answer before it.                                *)
LEMMA AsksKept == ASSUME MaxTurns \in Nat, ZoneIInv, Live!Asks PROVE ZoneIInv'
  <1>1. PICK q \in Questions :
          /\ Live!Turn(<< Live!Message("assistant", <<>>), Live!Message("user", << Live!Block("text", q) >>) >>)
          /\ from' = IF delta THEN Len(history) + 2 ELSE 1
    BY Zenon DEF Live!Asks
  <1> DEFINE a == Live!Message("assistant", <<>>)
             u == Live!Message("user", << Live!Block("text", q) >>)
  <1>2. Live!Block("text", q) \in Wrote
    BY BlocksWritten
  <1>3. << Live!Block("text", q) >> \in Seq(Wrote) /\ <<>> \in Seq(Wrote)
    BY <1>2
  <1>4. "assistant" \in Live!Roles /\ "user" \in Live!Roles
    BY DEF Live!Roles
  <1>5. a \in Written /\ u \in Written /\ a.role = "assistant" /\ u.role = "user"
    BY <1>3, <1>4, MessagesWritten
  <1>6. Live!Turn(<< a, u >>)
    BY <1>1
  <1> HIDE DEF a, u
  <1>7. IsTurn(<< a, u >>)
    BY <1>5, PairIsTurn
  <1> QED BY <1>1, <1>6, <1>7, TurnKept

(* The answers to a call of another tool.                                    *)
LEMMA ResultsAreTurn ==
    ASSUME NEW texts \in Seq(Live!Classes), Len(texts) >= 1
    PROVE  IsTurn(Live!Results(texts))
  <1> DEFINE call == Live!Message("assistant", << Live!Block("tool_use", "log") >>)
             answers(role) == [i \in DOMAIN texts |-> Live!Message(role, << Live!Block("result", texts[i]) >>)]
             all == [i \in DOMAIN texts |-> Live!Block("result", texts[i])]
             user == Live!Message("user", all)
  <1>1. Len(texts) \in Nat /\ DOMAIN texts = 1..Len(texts) /\ \A i \in 1..Len(texts) : texts[i] \in Live!Classes
    OBVIOUS
  <1>2. /\ Live!Block("tool_use", "log") \in Wrote
        /\ \A i \in 1..Len(texts) : Live!Block("result", texts[i]) \in Wrote
    BY <1>1, BlocksWritten DEF Live!Classes
  <1>3. << Live!Block("tool_use", "log") >> \in Seq(Wrote)
    BY <1>2
  <1>4. {"assistant", "user", "tool", "output"} \subseteq Live!Roles
    BY DEF Live!Roles
  <1>5. call \in Written /\ call.role = "assistant"
    BY <1>3, <1>4, MessagesWritten
  <1>6. all \in Seq(Wrote)
    <2>1. all \in [1..Len(texts) -> Wrote]
      BY <1>1, <1>2
    <2> HIDE DEF all
    <2> QED BY <1>1, <2>1, FunctionIsSeq
  <1>7. user \in Written /\ user.role = "user"
    <2> HIDE DEF all
    <2> QED BY <1>4, <1>6, MessagesWritten
  <1>8. ASSUME NEW role \in {"tool", "output"}, NEW i \in 1..Len(texts)
        PROVE  /\ answers(role)[i] \in Written /\ answers(role)[i].role = role
               /\ answers(role)[i].blocks # <<>> /\ answers(role)[i].blocks[1].type = "result"
    <2> DEFINE block == Live!Block("result", texts[i])
    <2>1. answers(role)[i] = Live!Message(role, << block >>)
      BY <1>1
    <2>2. block \in Wrote /\ block.type = "result"
      BY <1>2, BlocksWritten
    <2> HIDE DEF block, answers
    <2>3. << block >> \in Seq(Wrote) /\ << block >> # <<>> /\ << block >>[1] = block
      BY <2>2
    <2>4. /\ Live!Message(role, << block >>) \in Written /\ Live!Message(role, << block >>).role = role
          /\ Live!Message(role, << block >>).blocks = << block >>
      BY <1>4, <2>3, MessagesWritten
    <2> QED BY <2>1, <2>2, <2>3, <2>4
  <1>9. Live!Results(texts) = IF route = "responses" THEN << call >> \o answers("output")
                              ELSE IF route = "chat" THEN << call >> \o answers("tool")
                              ELSE << call, user >>
    BY DEF Live!Results
  <1> HIDE DEF call, user, all
  <1>10. ASSUME NEW role \in {"tool", "output"}, role = "output" => route = "responses",
                route \in {"responses", "chat"}
         PROVE  IsTurn(<< call >> \o answers(role))
    <2> DEFINE rest == answers(role)
               messages == << call >> \o rest
    <2>1. rest \in Seq(Written) /\ Len(rest) = Len(texts)
      <3>1. rest \in [1..Len(texts) -> Written]
        <4>1. DOMAIN rest = 1..Len(texts) /\ rest = [i \in 1..Len(texts) |-> rest[i]]
          BY <1>1
        <4>2. \A i \in 1..Len(texts) : rest[i] \in Written
          BY <1>8
        <4> HIDE DEF rest
        <4> QED BY <4>1, <4>2
      <3> HIDE DEF rest
      <3> QED BY <1>1, <3>1, FunctionIsSeq
    <2>2. \A i \in 1..Len(texts) : /\ rest[i].role = role /\ rest[i].blocks # <<>>
                                   /\ rest[i].blocks[1].type = "result"
      BY <1>8
    <2> HIDE DEF rest, answers
    <2>3. /\ messages \in Seq(Written) /\ Len(messages) = 1 + Len(texts) /\ messages[1] = call
          /\ \A i \in 1..Len(messages) : i = 1 \/ (i - 1 \in 1..Len(texts) /\ messages[i] = rest[i - 1])
      BY <1>1, <1>5, <2>1
    <2> HIDE DEF messages
    <2>4. ASSUME NEW i \in 1..Len(messages) PROVE TurnReply(messages, i)
      <3>1. CASE i = 1
        BY <1>5, <2>3, <3>1 DEF TurnReply
      <3>2. CASE i - 1 \in 1..Len(texts) /\ messages[i] = rest[i - 1]
        <4>1. /\ messages[i].role = role /\ messages[i].blocks # <<>>
              /\ messages[i].blocks[1].type = "result"
          BY <2>2, <3>2
        <4> QED BY <1>10, <4>1 DEF TurnReply
      <3> QED BY <2>3, <3>1, <3>2
    <2>5. IsTurn(messages)
      BY <1>1, <1>10, <2>3, <2>4 DEF IsTurn
    <2> QED BY <2>5 DEF messages, rest
  <1>11. IsTurn(<< call, user >>)
    BY <1>5, <1>7, PairIsTurn
  <1> QED
    <2>1. CASE route = "responses"
      <3>1. IsTurn(<< call >> \o answers("output"))
        BY <1>10, <2>1
      <3> QED BY <1>9, <2>1, <3>1
    <2>2. CASE route = "chat"
      <3>1. IsTurn(<< call >> \o answers("tool"))
        BY <1>10, <2>2
      <3> QED BY <1>9, <2>2, <3>1
    <2>3. CASE route \notin {"responses", "chat"}
      BY <1>9, <1>11, <2>3
    <2> QED BY <2>1, <2>2, <2>3

(* CallsTools: the answers to calls.                                         *)
LEMMA CallsKept == ASSUME MaxTurns \in Nat, ZoneIInv, Live!CallsTools PROVE ZoneIInv'
  <1>1. PICK texts \in {<< t >> : t \in Live!Classes} \cup {<< s, t >> : s, t \in {"log", "ranked"}} :
          Live!Turn(Live!Results(texts)) /\ from' = IF delta THEN Len(history) + 2 ELSE 1
    BY DEF Live!CallsTools
  <1>2. texts \in Seq(Live!Classes) /\ Len(texts) >= 1
    <2>1. CASE texts \in {<< t >> : t \in Live!Classes}
      <3>1. PICK t \in Live!Classes : texts = << t >>
        BY <2>1
      <3> QED BY <3>1
    <2>2. CASE texts \in {<< s, t >> : s, t \in {"log", "ranked"}}
      <3>1. PICK s, t \in {"log", "ranked"} : texts = << s, t >>
        BY <2>2
      <3>2. s \in Live!Classes /\ t \in Live!Classes
        BY DEF Live!Classes
      <3> QED BY <3>1, <3>2
    <2> QED BY <1>1, <2>1, <2>2
  <1> QED BY <1>1, <1>2, ResultsAreTurn, TurnKept

(* A call of lm_resizer_retrieve and its answer.                             *)
LEMMA RetrievesKept == ASSUME MaxTurns \in Nat, ZoneIInv, Live!Retrieves PROVE ZoneIInv'
  <1>1. PICK t \in {"log", "ranked"} :
          /\ route = "responses" /\ Live!Turn(Live!Retrieved(t))
          /\ from' = IF delta THEN Len(history) + 2 ELSE 1
    BY DEF Live!Retrieves
  <1> DEFINE block == Live!Block("retrieved", t)
             a == Live!Message("retrieve", << block >>)
             b == Live!Message("output", << block >>)
  <1>2. block \in Wrote /\ block.type = "retrieved"
    BY BlocksWritten DEF Live!Classes
  <1>3. "retrieve" \in Live!Roles /\ "output" \in Live!Roles
    BY DEF Live!Roles
  <1>4. Live!Retrieved(t) = << a, b >>
    BY DEF Live!Retrieved
  <1> DEFINE blocks == << block >>
  <1>5. blocks \in Seq(Wrote) /\ blocks # <<>> /\ blocks[1].type = "retrieved"
    <2> HIDE DEF block
    <2> QED BY <1>2
  <1>6. /\ a \in Written /\ b \in Written /\ a.role = "retrieve" /\ b.role = "output"
        /\ a.blocks = blocks /\ b.blocks = blocks
    <2>1. a = Live!Message("retrieve", blocks) /\ b = Live!Message("output", blocks)
      OBVIOUS
    <2> HIDE DEF blocks, a, b
    <2> QED BY <1>3, <1>5, <2>1, MessagesWritten
  <1> HIDE DEF a, b, blocks, block
  <1> DEFINE messages == << a, b >>
  <1>7. messages \in Seq(Written) /\ Len(messages) = 2 /\ messages[1] = a /\ messages[2] = b
    BY <1>6
  <1> HIDE DEF messages
  <1>8. TurnReply(messages, 1)
    BY <1>1, <1>5, <1>6, <1>7 DEF TurnReply
  <1>9. TurnReply(messages, 2)
    <2>1. 1 \in 1..(2 - 1) /\ messages[1].role = "retrieve" /\ messages[1].blocks = messages[2].blocks
      BY <1>6, <1>7
    <2> QED BY <1>1, <1>5, <1>6, <1>7, <2>1 DEF TurnReply
  <1>10. \A i \in 1..Len(messages) : i = 1 \/ i = 2
    BY <1>7
  <1>11. IsTurn(messages)
    BY <1>1, <1>7, <1>8, <1>9, <1>10 DEF IsTurn
  <1> QED BY <1>1, <1>4, <1>11, TurnKept DEF messages

-----------------------------------------------------------------------------
(* The theorems.                                                             *)

(* The invariant holds at the first question.                                *)
LEMMA ZoneInit ==
    ASSUME MaxTurns \in Nat \ {0}, MaxLosses \in Nat, Live!Init PROVE ZoneIInv
  <1>1. PICK q \in Questions : history = << Live!Message("user", << Live!Block("text", q) >>) >>
    BY DEF Live!Init
  <1>2. /\ route \in Live!Routes /\ delta \in {FALSE, route = "responses"} /\ turns = 1 /\ from = 1 /\ mark = 0
        /\ pending = <<>> /\ sent = <<>> /\ cached = {} /\ stored = {} /\ losses = <<>>
    BY DEF Live!Init
  <1> DEFINE first == Live!Message("user", << Live!Block("text", q) >>)
  <1>3. first \in Written /\ first.role = "user"
    <2>1. Live!Block("text", q) \in Wrote /\ "user" \in Live!Roles
      BY BlocksWritten DEF Live!Roles
    <2>2. << Live!Block("text", q) >> \in Seq(Wrote)
      BY <2>1
    <2> QED BY <2>1, <2>2, MessagesWritten
  <1>4. history = << first >>
    BY <1>1
  <1> HIDE DEF first
  <1>5. history \in Seq(Written) /\ Len(history) = 1 /\ history[1] = first /\ history # <<>>
    BY <1>3, <1>4
  <1>6. ZoneTypes
    <2>1. delta \in BOOLEAN /\ (delta => route = "responses")
      BY <1>2
    <2>2. /\ turns \in 1..MaxTurns /\ from \in 1..Len(history) /\ (~delta => from = 1)
          /\ mark \in 0..Len(history)
      BY <1>2, <1>5
    <2>3. /\ pending \in Seq(Sendable) /\ sent \in Seq(Requests) /\ losses \in Seq({"log", "ranked"})
          /\ Len(losses) = 0 /\ Len(losses) <= MaxLosses /\ stored \in SUBSET {"log", "ranked"}
      BY <1>2
    <2> QED BY <1>2, <1>5, <2>1, <2>2, <2>3 DEF ZoneTypes
  <1>7. Dialogue
    BY <1>3, <1>5 DEF Dialogue, Reply
  <1>8. Turns
    BY <1>2 DEF Turns
  <1>9. Conversation
    <2>1. EndOf(turns) = Len(history)
      BY <1>2 DEF EndOf
    <2> QED BY <1>2, <2>1 DEF Conversation
  <1>10. Cache /\ Live!MarkersResolve
    BY <1>2, NothingMarked DEF Cache, Live!MarkersResolve
  <1> QED BY <1>6, <1>7, <1>8, <1>9, <1>10 DEF ZoneIInv

(* Every step keeps it.                                                      *)
LEMMA ZoneStep ==
    ASSUME MaxTurns \in Nat, MaxLosses \in Nat, ZoneIInv, [Live!Next]_Live!vars PROVE ZoneIInv'
  <1>1. ASSUME NEW i \in 0..Len(history), Live!PlaceMark(i) PROVE ZoneIInv'
    BY <1>1, MarkPlaced
  <1>2. CASE Live!Dispatch
    BY <1>2, DispatchKept
  <1>3. CASE Live!Forward
    BY <1>3, ForwardKept
  <1>4. CASE Live!Refused
    BY <1>4, RefusalKept
  <1>5. CASE Live!Asks
    BY <1>5, AsksKept
  <1>6. CASE Live!CallsTools
    BY <1>6, CallsKept
  <1>7. CASE Live!Retrieves
    BY <1>7, RetrievesKept
  <1>8. CASE Live!Expire
    BY <1>8, ExpireKept
  <1>9. CASE UNCHANGED Live!vars
    <2>1. UNCHANGED << route, delta, history, turns, from, mark, pending, sent, cached, stored, losses >>
      BY <1>9 DEF Live!vars
    <2>2. ZoneTypes /\ Dialogue /\ Turns /\ Conversation /\ Cache /\ Live!MarkersResolve
      BY DEF ZoneIInv
    <2>3. ZoneTypes'
      BY <2>1, <2>2 DEF ZoneTypes
    <2>4. Turns'
      <3>1. Live!Body' = Live!Body
        BY <2>1 DEF Live!Body
      <3>2. pending' # <<>> => pending' = Live!Prepared(route', Live!Body', mark')
        BY <2>1, <2>2, <3>1 DEF Turns
      <3> QED BY <2>1, <2>2, <3>2 DEF Turns
    <2>5. Live!MarkersResolve'
      <3>1. Live!Marked(pending') \subseteq stored' \cup Live!Range(losses')
        BY <2>1, <2>2 DEF Live!MarkersResolve
      <3> QED BY <3>1, Zenon DEF Live!MarkersResolve
    <2>6. Dialogue' /\ Conversation' /\ Cache'
      BY <2>1, <2>2, SameDialogue, SameConversation, SameCache
    <2> QED BY <2>3, <2>4, <2>5, <2>6 DEF ZoneIInv
  <1>10. CASE Live!Over
    BY <1>9, <1>10 DEF Live!Over
  <1> QED BY <1>1, <1>2, <1>3, <1>4, <1>5, <1>6, <1>7, <1>8, <1>9, <1>10 DEF Live!Next

(* The inductive invariant of a conversation.                                *)
THEOREM ConversationKept == Live!Spec => []ZoneIInv
  <1>1. Live!Init => ZoneIInv
    BY ZoneInit, TurnsAssumption
  <1>2. ZoneIInv /\ [Live!Next]_Live!vars => ZoneIInv'
    BY ZoneStep, TurnsAssumption
  <1> QED BY <1>1, <1>2, PTL DEF Live!Spec

(* A prefix the provider has cached is never asked for again in other bytes, *)
(* however long the conversation, wherever the client puts its markers, and  *)
(* whatever is refused, repeated, lost or expires between two requests.      *)
THEOREM CachedPrefixStays == Live!Spec => []CachedPrefixKept
  <1>1. Live!Spec => []ZoneIInv
    BY ConversationKept
  <1>2. ZoneIInv => CachedPrefixKept
    BY CacheIsKept DEF CachedPrefixKept
  <1> QED BY <1>1, <1>2, PTL

(* Every marker of a body resolves, unless the store lost the original; what *)
(* was retrieved reaches the model as it was; and consecutive requests of a  *)
(* client that sends its whole history differ only in the live zone of the   *)
(* earlier one.                                                              *)
THEOREM ZoneIsSound == Live!Spec => []ZoneInv
  <1>1. Live!Spec => []ZoneIInv
    BY ConversationKept
  <1>2. ZoneIInv => ZoneInv
    <2> SUFFICES ASSUME ZoneIInv PROVE Live!ZoneInv /\ Live!DivergesOnlyInLiveZone
      BY DEF ZoneInv
    <2>1. Live!TypeOK /\ Live!MarkersResolve
      BY ZoneTyped, TurnsAssumption DEF ZoneIInv
    <2> QED BY <2>1, RetrievedIsSent, DifferWhereLive DEF Live!ZoneInv
  <1> QED BY <1>1, <1>2, PTL
===============================================================================

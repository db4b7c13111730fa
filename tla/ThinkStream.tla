---------------------------- MODULE ThinkStream ----------------------------
(***************************************************************************)
(* thinkingExtractor (pkg/chat/chat_harness.go): the provider's stream is   *)
(* cut into visible text and thinking while it arrives, a tag possibly      *)
(* spread over several chunks.  Characters are abstract; a tag has two.     *)
(***************************************************************************)
EXTENDS Integers, Sequences, SequencesExt

CONSTANT MaxText     \* length of the whole stream

VARIABLES
  whole,       \* everything the provider will send
  stream,      \* what it has still to send
  inThinking, pending,
  shown, thought,
  closed       \* Flush was called

streamVars == <<whole, stream, inThinking, pending, shown, thought, closed>>

Char == {"a", "z", "t"}
thinkOpenTag == <<"a", "t">>
thinkCloseTag == <<"z", "t">>
Tag(in) == IF in THEN thinkCloseTag ELSE thinkOpenTag

TypeOK ==
  /\ inThinking \in BOOLEAN /\ closed \in BOOLEAN
  /\ Len(stream) + Len(pending) <= MaxText

Init ==
  /\ whole \in UNION {[1..n -> Char] : n \in 0..MaxText}
  /\ stream = whole
  /\ inThinking = FALSE /\ pending = <<>> /\ shown = <<>> /\ thought = <<>> /\ closed = FALSE

\* strings.Index: the first occurrence of a tag, or 0.
Index(s, tag) ==
  LET at == {i \in 1..(Len(s) - Len(tag) + 1) : SubSeq(s, i, i + Len(tag) - 1) = tag}
  IN IF at = {} THEN 0 ELSE CHOOSE i \in at : \A j \in at : i <= j

\* Mutant: nothing is held back for a tag that is still arriving.
NothingHeld(tag) == 0

\* The characters that may be the beginning of a tag.
HeldBack(tag) == Len(tag) - 1

Larger(m, n) == IF m > n THEN m ELSE n

\* Process: the pending text is cut at every tag found in it, and what cannot
\* be part of a tag is passed on.  (st has fields in, pend, out, think.)
Cut(st) ==
  LET tag == Tag(st.in)
      i == Index(st.pend, tag)
      n == IF i # 0 THEN i - 1 ELSE Larger(0, Len(st.pend) - HeldBack(tag))
      passed == SubSeq(st.pend, 1, n)
      rest == SubSeq(st.pend, (IF i # 0 THEN n + Len(tag) ELSE n) + 1, Len(st.pend))
  IN [in |-> IF i # 0 THEN ~st.in ELSE st.in,
      pend |-> rest,
      out |-> IF st.in THEN st.out ELSE st.out \o passed,
      think |-> IF st.in THEN st.think \o passed ELSE st.think]

\* A chunk of the stream arrives.
Process(n) ==
  LET before == [in |-> inThinking, pend |-> pending \o SubSeq(stream, 1, n),
                 out |-> shown, think |-> thought]
      f[k \in 0..MaxText] == IF k = 0 THEN before ELSE Cut(f[k - 1])
      after == f[MaxText]
  IN /\ n \in 1..Len(stream)
     /\ stream' = SubSeq(stream, n + 1, Len(stream))
     /\ inThinking' = after.in /\ pending' = after.pend
     /\ shown' = after.out /\ thought' = after.think
     /\ UNCHANGED <<whole, closed>>

Flush ==
  /\ stream = <<>> /\ ~closed
  /\ closed' = TRUE /\ pending' = <<>>
  /\ shown' = IF inThinking THEN shown ELSE shown \o pending
  /\ thought' = IF inThinking THEN thought \o pending ELSE thought
  /\ UNCHANGED <<whole, stream, inThinking>>

Next == (\E n \in 1..MaxText : Process(n)) \/ Flush

Spec == Init /\ [][Next]_streamVars

----------------------------------------------------------------------------
(* The reference: one character after the other over the whole text.       *)

Scan(text) ==
  LET f[i \in 0..Len(text)] ==
        IF i = 0 THEN [in |-> FALSE, skip |-> 0, out |-> <<>>, think |-> <<>>]
        ELSE LET st == f[i - 1]
             IN CASE st.skip > 0 -> [st EXCEPT !.skip = @ - 1]
                  [] st.skip = 0 /\ i < Len(text) /\ SubSeq(text, i, i + 1) = Tag(st.in) ->
                       [st EXCEPT !.in = ~@, !.skip = 1]
                  [] OTHER -> IF st.in THEN [st EXCEPT !.think = Append(@, text[i])]
                              ELSE [st EXCEPT !.out = Append(@, text[i])]
  IN f[Len(text)]

\* Whatever the chunks, what is shown and what is thinking in the end is what
\* one pass over the whole text gives: a tag cut in two by the stream is still
\* a tag, and no character is lost, repeated or shown on the wrong side.
ChunkingIrrelevant ==
  closed => shown = Scan(whole).out /\ thought = Scan(whole).think

=============================================================================

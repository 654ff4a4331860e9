---------------------------- MODULE TerminalText ----------------------------
(***************************************************************************)
(* What a command puts out, from the chunks read of its channel to the     *)
(* history a reloaded page is given: the sudo gate, which swallows all     *)
(* there is before the mark of the command's start, the batcher, which     *)
(* decodes and groups, and the history, which keeps the text of the last   *)
(* lines (read_channel, SudoGate, OutputBatcher, TerminalHistory).         *)
(*                                                                         *)
(* A chunk may be cut anywhere, within the gate's words and within a       *)
(* character.  An escape sequence is one symbol here: the history reads    *)
(* them a character at a time, whatever batch each is in.                  *)
(***************************************************************************)
EXTENDS Integers, SequencesExt

CONSTANTS
    MaxRead,      \* bound: bytes read of the channel
    MaxChunk,     \* bound: bytes in a chunk
    MaxLines,     \* TERM_HISTORY_MAX_LINES
    MaxColumns    \* TERM_HISTORY_MAX_LINE_CHARS

ASSUME TextAssumption == {MaxRead, MaxChunk, MaxLines, MaxColumns} \subseteq Nat

\* build_command: the prompt's phrase and the mark begin alike, and neither
\* begins within the other
Phrase == <<"s", "n", "p">>
Mark == <<"s", "n", "m">>
GateBytes == {"s", "n", "p", "m"}

\* A letter, the first byte of a character and the one that completes it, and
\* what moves the cursor, erases or changes the screen
OutputBytes == {"a", "lead", "rest", "newline", "return", "back", "erase", "full", "normal"}

VARIABLES
    got,          \* history: all that was read
    gate,         \* the SudoGate; one that has passed stands for none
    passwords,    \* times the password was sent
    decoder,      \* bytes of a character the decoder waits to see completed
    text,         \* OutputBatcher._text
    seq,          \* OutputBatcher._seq
    history,      \* the TerminalHistory of the run
    ended         \* the channel has been read to its end

textVars == <<got, gate, passwords, decoder, text, seq, history, ended>>

NoHistory == [lines |-> << >>, line |-> << >>, position |-> 0, fullscreen |-> FALSE, seq |-> 0]

\* With sudo; or without, which is as if the mark had been read
TInit ==
    /\ \E sudo \in BOOLEAN :
          /\ got = IF sudo THEN << >> ELSE Mark
          /\ gate = [pending |-> << >>, asked |-> FALSE, refused |-> FALSE, passed |-> ~sudo]
    /\ passwords = 0
    /\ decoder = << >>
    /\ text = << >>
    /\ seq = 0
    /\ history = NoHistory
    /\ ended = FALSE

-----------------------------------------------------------------------------
(* SudoGate *)

Places(word, buf) ==
    {i \in 1..(Len(buf) - Len(word) + 1) : SubSeq(buf, i, i + Len(word) - 1) = word}

\* Where the mark is first, or one past all the places it could be
MarkAt(buf) == Min(Places(Mark, buf) \union {Len(buf) + 1})

\* The phrases before the mark, which feed finds one after the other
Asks(buf) == {i \in Places(Phrase, buf) : i < MarkAt(buf)}

After(word, i, buf) == SubSeq(buf, i + Len(word), Len(buf))

\* Faulty variant: a word cut by the end of a chunk is not put together again
SuffixNone(buf) == << >>

\* _suffix_prefix: the longest end of what is left that may begin a word
SuffixPrefix(buf) ==
    LET end(n) == SubSeq(buf, Len(buf) - n + 1, Len(buf))
        begins == {n \in 0..Min({Len(buf), Len(Mark) - 1}) :
                      IsPrefix(end(n), Phrase) \/ IsPrefix(end(n), Mark)}
    IN  end(Max(begins))

\* Faulty variant: what is read with the mark is dropped with it
FeedGateDrops(chunk) ==
    LET buf == gate.pending \o chunk
        asks == Asks(buf)
        refused == Cardinality(asks) > (IF gate.asked THEN 0 ELSE 1)
        passed == ~refused /\ Places(Mark, buf) # {}
        rest == IF asks = {} THEN buf ELSE After(Phrase, Max(asks), buf)
    IN  [gate |-> [pending |-> IF refused \/ passed THEN << >> ELSE SuffixPrefix(rest),
                   asked |-> gate.asked \/ asks # {}, refused |-> refused, passed |-> passed],
         sends |-> ~gate.asked /\ asks # {},
         output |-> << >>]

\* feed, of a gate that is closed: the gate afterwards, whether the password
\* is to be sent, and the output that follows the mark
FeedGate(chunk) ==
    LET buf == gate.pending \o chunk
        asks == Asks(buf)
        refused == Cardinality(asks) > (IF gate.asked THEN 0 ELSE 1)
        passed == ~refused /\ Places(Mark, buf) # {}
        rest == IF asks = {} THEN buf ELSE After(Phrase, Max(asks), buf)
    IN  [gate |-> [pending |-> IF refused \/ passed THEN << >> ELSE SuffixPrefix(rest),
                   asked |-> gate.asked \/ asks # {}, refused |-> refused, passed |-> passed],
         sends |-> ~gate.asked /\ asks # {},
         output |-> IF passed THEN After(Mark, MarkAt(buf), buf) ELSE << >>]

-----------------------------------------------------------------------------
(* The incremental decoder of OutputBatcher *)

\* What a byte adds after one that began a character, or after another: the
\* character is complete, or begun, or it is replaced as it never will be
CharsOf(byte, begun) ==
    LET cut == IF begun THEN <<"?">> ELSE << >>
    IN  CASE byte = "rest" -> << IF begun THEN "wide" ELSE "?" >>
          [] byte = "lead" -> cut
          [] OTHER -> Append(cut, byte)

Decode(bytes) ==
    LET chars[i \in 0..Len(bytes)] ==
            IF i = 0 THEN << >>
            ELSE chars[i - 1] \o CharsOf(bytes[i], i > 1 /\ bytes[i - 1] = "lead")
    IN  chars[Len(bytes)]

Unfinished(bytes) == IF bytes # << >> /\ Last(bytes) = "lead" THEN <<"lead">> ELSE << >>

-----------------------------------------------------------------------------
(* TerminalHistory *)

\* _write_char, in the line that is not finished: over what is there, or after
\* it while there is room
WriteLetter(h, char) ==
    IF h.position < Len(h.line)
    THEN [h EXCEPT !.line[h.position + 1] = char, !.position = @ + 1]
    ELSE IF Len(h.line) < MaxColumns
    THEN [h EXCEPT !.line = Append(@, char), !.position = @ + 1]
    ELSE h

FinishLine(h) ==
    LET all == Append(h.lines, h.line)
    IN  [h EXCEPT !.lines = SubSeq(all, Max({0, Len(all) - MaxLines}) + 1, Len(all)),
                  !.line = << >>, !.position = 0]

\* _feed_char and _handle_csi: nothing of a full-screen program is kept
FeedChar(h, char) ==
    CASE char = "full"   -> [h EXCEPT !.fullscreen = TRUE]
      [] char = "normal" -> [h EXCEPT !.fullscreen = FALSE]
      [] OTHER -> IF h.fullscreen THEN h
                  ELSE CASE char = "erase"   -> [h EXCEPT !.line = SubSeq(@, 1, h.position)]
                         [] char = "newline" -> FinishLine(h)
                         [] char = "return"  -> [h EXCEPT !.position = 0]
                         [] char = "back"    -> [h EXCEPT !.position = Max({0, @ - 1})]
                         [] OTHER            -> WriteLetter(h, char)

Feed(h, chars) ==
    LET fed[i \in 0..Len(chars)] == IF i = 0 THEN h ELSE FeedChar(fed[i - 1], chars[i])
    IN  fed[Len(chars)]

-----------------------------------------------------------------------------
(* read_channel *)

\* A batch leaves the batcher for the history (and for the page, TerminalStream)
Emit(chars) ==
    IF chars = << >>
    THEN text' = << >> /\ UNCHANGED <<seq, history>>
    ELSE /\ text' = << >>
         /\ seq' = seq + 1
         /\ history' = [Feed(history, chars) EXCEPT !.seq = seq + 1]

\* OutputBatcher.add: the batch is due when it is large or has waited
Add(bytes) ==
    LET all == decoder \o bytes
    IN  /\ decoder' = Unfinished(all)
        /\ \/ Emit(text \o Decode(all))
           \/ text' = text \o Decode(all) /\ UNCHANGED <<seq, history>>

\* Up to so many bytes
Pieces(bytes, most) == UNION {[1..n -> bytes] : n \in 0..most}
Room == Min({MaxChunk, MaxRead - Len(got)})

\* A chunk of output; a run without sudo has no other
ReadOutput ==
    /\ ~ended /\ gate.passed
    /\ \E chunk \in Pieces(OutputBytes, Room) \ {<< >>} :
          /\ got' = got \o chunk
          /\ Add(chunk)
    /\ UNCHANGED <<gate, passwords, ended>>

\* A chunk that the gate is given first, and that may end with output
ReadGated ==
    /\ ~ended /\ ~gate.passed /\ ~gate.refused
    /\ \E chunk \in Pieces(GateBytes, Room) \ {<< >>} :
       \E more \in IF FeedGate(chunk).gate.passed
                   THEN Pieces(OutputBytes, Room - Len(chunk)) ELSE {<< >>} :
          LET fed == FeedGate(chunk \o more)
          IN  /\ got' = got \o chunk \o more
              /\ gate' = fed.gate
              /\ passwords' = IF fed.sends THEN passwords + 1 ELSE passwords
              /\ Add(fed.output)
    /\ UNCHANGED ended

\* A batch that has waited long enough goes out between two chunks
Flush ==
    /\ ~ended /\ ~gate.refused
    /\ text # << >>
    /\ Emit(text)
    /\ UNCHANGED <<got, gate, passwords, decoder, ended>>

\* Faulty variant: the last flush is like the others
EndOfOutputCut ==
    /\ ~ended
    /\ ended' = TRUE
    /\ decoder' = << >>
    /\ IF gate.refused THEN UNCHANGED <<text, seq, history>> ELSE Emit(text)
    /\ UNCHANGED <<got, gate, passwords>>

\* The command has exited, or was refused: the last batch takes with it what
\* the decoder still holds
EndOfOutput ==
    /\ ~ended
    /\ ended' = TRUE
    /\ decoder' = << >>
    /\ IF gate.refused
       THEN UNCHANGED <<text, seq, history>>
       ELSE Emit(IF decoder = << >> THEN text ELSE Append(text, "?"))
    /\ UNCHANGED <<got, gate, passwords>>

TNext == ReadOutput \/ ReadGated \/ Flush \/ EndOfOutput

TSpec == TInit /\ [][TNext]_textVars

-----------------------------------------------------------------------------
(* Properties *)

\* However the channel's output is cut into chunks, the gate opens at the first
\* mark, refuses when the phrase comes twice before it, and has the password
\* sent once, at the first (SudoGate.feed).
GateExact ==
    /\ gate.refused <=> Cardinality(Asks(got)) > 1
    /\ gate.passed <=> Places(Mark, got) # {} /\ ~gate.refused
    /\ passwords = IF Asks(got) = {} THEN 0 ELSE 1

\* All the text there is to show of what was read
ToShow ==
    LET bytes == IF gate.passed THEN After(Mark, MarkAt(got), got) ELSE << >>
        late == IF ended /\ Unfinished(bytes) # << >> THEN <<"?">> ELSE << >>
    IN  Decode(bytes) \o late

\* The history a reloaded page is given is what the command put out after the
\* mark, all of it but what waits in the batcher, nothing twice and nothing
\* of the sudo prompt, however it was cut into chunks and batches.
OutputWhole ==
    /\ IsSuffix(text, ToShow)
    /\ history = [Feed(NoHistory, SubSeq(ToShow, 1, Len(ToShow) - Len(text)))
                     EXCEPT !.seq = seq]
    /\ ended => text = << >>
=============================================================================

------------------------------ MODULE Chunker ------------------------------
(***************************************************************************)
(* How src/knowledge/chunker.ts normalises a document and cuts it into     *)
(* overlapping chunks, on which the digests and the duplicate check of the *)
(* knowledge plane rest.                                                   *)
(*                                                                         *)
(* A text is a sequence of characters of five kinds: visible, full stop    *)
(* (for the sentence ends), space (for horizontal blanks), line break and  *)
(* invisible.  Offsets are the code's: 0-based and half-open.  The two     *)
(* numbers the code fixes at 4 and 16 are parameters, so that short texts  *)
(* have many windows.                                                      *)
(***************************************************************************)
EXTENDS Integers, Sequences, Subsequences

CONSTANTS CHARS_PER_TOKEN, MinWindow

Visible == "x"
Stop == "."
Space == " "
Break == "\n"
Invisible == "z"
Characters == {Visible, Stop, Space, Break, Invisible}
Blank == {Space, Break}

endsIn(s, t) == Len(s) >= Len(t) /\ SubSeq(s, Len(s) - Len(t) + 1, Len(s)) = t

trim(s) ==
    LET inked == {i \in DOMAIN s : s[i] \notin Blank}
    IN  IF inked = {} THEN <<>>
        ELSE SubSeq(s, CHOOSE i \in inked : \A o \in inked : i <= o,
                       CHOOSE i \in inked : \A o \in inked : o <= i)

(* Of a run of c the first n stay.                                          *)
collapse(s, c, n) ==
    keep(s, {i \in DOMAIN s : i <= n \/ \E k \in i - n .. i : s[k] # c})

trimLines(s) ==
    LET edge(i) == s[i] = Space /\ (\/ i = 1 \/ s[i - 1] = Break
                                    \/ i = Len(s) \/ s[i + 1] = Break)
    IN  keep(s, {i \in DOMAIN s : ~edge(i)})

normaliseText(input) ==
    LET stripped == keep(input, {i \in DOMAIN input : input[i] # Invisible})
    IN  trim(trimLines(collapse(collapse(stripped, Space, 1), Break, 2)))

----------------------------------------------------------------------------
windowChars(options) ==
    IF options.size * CHARS_PER_TOKEN > MinWindow THEN options.size * CHARS_PER_TOKEN ELSE MinWindow

overlapChars(options) == options.overlap * CHARS_PER_TOKEN

(* The ends of the pieces of text[from .. to) that finish with one of the   *)
(* marks and lie past the floor.                                            *)
boundaries(text, from, to, floor, marks) ==
    {e \in floor + 1 .. to : \E k \in marks : endsIn(SubSeq(text, from + 1, e), k)}

(* Paragraph before sentence before line before word; the last boundary of  *)
(* the first kind that has one; a hard cut where no kind has any.           *)
Preferences ==
    <<{<<Break, Break>>}, {<<Stop, Space>>, <<Stop, Break>>}, {<<Break>>}, {<<Space>>}>>

cutOf(text, cursor, options) ==
    LET limit == cursor + windowChars(options)
        floor == cursor + windowChars(options) \div 2
        at(k) == boundaries(text, cursor, limit, floor, Preferences[k])
        kinds == {k \in DOMAIN Preferences : at(k) # {}}
        best == CHOOSE k \in kinds : \A o \in kinds : k <= o
    IN  IF kinds = {} THEN limit ELSE CHOOSE e \in at(best) : \A o \in at(best) : o <= e

(* Mutant: the overlap is left out between two chunks instead of shared. *)
advanceFrom_Skips(cursor, cut, options) == cut + overlapChars(options)

(* The next chunk begins the overlap before the cut, or at the cut where    *)
(* the overlap would take it back to where this one began.                  *)
advanceFrom(cursor, cut, options) ==
    IF cut - overlapChars(options) > cursor THEN cut - overlapChars(options) ELSE cut

(* One turn of the loop.  The last piece takes what the window holds.       *)
nextPiece(s, text, options) ==
    LET pushed(to, next) == [raw |-> Append(s.raw, [start |-> s.cursor, end |-> to]),
                             cursor |-> next]
        cut == cutOf(text, s.cursor, options)
    IN  IF s.cursor >= Len(text) THEN s
        ELSE IF Len(text) - s.cursor <= windowChars(options) THEN pushed(Len(text), Len(text))
        ELSE pushed(cut, advanceFrom(s.cursor, cut, options))

pieces(text, options) ==
    LET state[n \in 0 .. Len(text)] ==
            IF n = 0 THEN [raw |-> <<>>, cursor |-> 0]
            ELSE nextPiece(state[n - 1], text, options)
    IN  state[Len(text)].raw

chunkText(input, options) ==
    LET text == normaliseText(input)
        raw == pieces(text, options)
    IN  IF options.overlap >= options.size \/ text = <<>> THEN [ok |-> FALSE, chunks |-> <<>>]
        ELSE [ok |-> TRUE,
              chunks |-> [i \in DOMAIN raw |->
                            [index |-> i - 1, total |-> Len(raw),
                             start |-> raw[i].start, end |-> raw[i].end,
                             text |-> trim(SubSeq(text, raw[i].start + 1, raw[i].end))]]]

(* K-INV-5 as ingestion checks it: by index and total alone.                *)
isGaplessCover(chunks) ==
    /\ chunks # <<>>
    /\ \A i \in DOMAIN chunks : chunks[i].total = Len(chunks)
    /\ {chunks[i].index : i \in DOMAIN chunks} = 0 .. Len(chunks) - 1
=============================================================================

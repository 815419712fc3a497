-------------------------- MODULE StreamingRedactor --------------------------
(***************************************************************************)
(* app/privacy/streaming.py: redaction of an answer that is still being    *)
(* written, as operators on texts.                                         *)
(*                                                                         *)
(* A text is a sequence of the characters that the redaction rules tell    *)
(* apart.  redact_final is modelled by one rule of each shape the patterns *)
(* of answer_safety.py and outbound_redaction.py have: a credential (a key *)
(* word, at most Gap spaces, and a value without spaces) and a telephone   *)
(* number (digits with any amount of white space between them).            *)
(***************************************************************************)
EXTENDS Naturals, Sequences, SequencesExt

CONSTANTS
    Margin,  \* BASE_SAFETY_MARGIN and the longest custom term
    Gap      \* the {0,8} of the credential patterns

ASSUME RedactorAssumption == Margin \in Nat /\ Gap \in Nat /\ Gap < Margin

Space == " "
Key == "k"        \* "password =", "Bearer": where a credential may begin
Digit == "d"
Letter == "a"
Open == "["       \* a citation marker is Open, Close: [E1]
Close == "]"
Redacted == "*"   \* what a match is replaced by

Characters == {Space, Key, Digit, Letter, Open, Close}
OfNumber == {Space, Digit}

(***************************************************************************)
(* One scan from left to right: out is settled, held is a tail that a      *)
(* match in progress may still take in.                                    *)
(***************************************************************************)
Clean == [out |-> << >>, held |-> << >>, in |-> "text"]

Scan(state, c) ==
    LET flushed == state.out \o state.held
        start == [out  |-> IF c \in {Key, Digit} THEN flushed ELSE Append(flushed, c),
                  held |-> IF c \in {Key, Digit} THEN <<c>> ELSE << >>,
                  in   |-> IF c \in {Key, Digit} THEN c ELSE "text"]
    IN  CASE state.in = "value" /\ c # Space -> state
          [] state.in = Key /\ c # Space ->
                [out |-> Append(state.out, Redacted), held |-> << >>, in |-> "value"]
          [] state.in = Key /\ c = Space /\ Len(state.held) <= Gap ->
                [state EXCEPT !.held = Append(@, c)]
          [] state.in = Digit /\ c = Digit ->
                [out |-> Append(state.out, Redacted), held |-> << >>, in |-> "number"]
          [] state.in = "number" /\ c = Digit -> [state EXCEPT !.held = << >>]
          [] state.in \in {Digit, "number"} /\ c = Space ->
                [state EXCEPT !.held = Append(@, c)]
          [] OTHER -> start

\* The scan's state after each number of characters.
Scanned(text) ==
    LET after[n \in 0..Len(text)] ==
            IF n = 0 THEN Clean ELSE Scan(after[n - 1], text[n])
    IN  after

\* redact_final
RedactFinal(text) ==
    LET end == Scanned(text)[Len(text)]
    IN  end.out \o end.held

Prefix(text, n) == SubSeq(text, 1, n)

\* EVIDENCE_MARKER_RE.sub: the markers that are whole in this chunk.
InMarker(chunk, i) ==
    \/ chunk[i] = Open /\ i < Len(chunk) /\ chunk[i + 1] = Close
    \/ chunk[i] = Close /\ i > 1 /\ chunk[i - 1] = Open

StripMarkers(chunk) ==
    LET kept[n \in 0..Len(chunk)] ==
            IF n = 0 THEN << >>
            ELSE IF InMarker(chunk, n) THEN kept[n - 1] ELSE Append(kept[n - 1], chunk[n])
    IN  kept[Len(chunk)]

(***************************************************************************)
(* The state of one redactor: the text so far, how much of it has been     *)
(* released, and the redacted text that was shown for it.                  *)
(***************************************************************************)
Fresh == [raw |-> << >>, released |-> 0, emitted |-> << >>]

\* Mutant: white space alone is taken for a safe place to cut.
SettledAtSpace(r, b) == b > r.released /\ b <= Len(r.raw) - Margin /\ r.raw[b] = Space

\* What follows white space and is settled by the margin after it.
Settled(r, b) ==
    /\ b > r.released /\ b <= Len(r.raw) - Margin /\ r.raw[b] = Space
    /\ IsPrefix(RedactFinal(Prefix(r.raw, b)), RedactFinal(Prefix(r.raw, b + Margin)))

\* _safe_boundary: the last such place, or where it was.
SafeBoundary(r) ==
    CHOOSE b \in {r.released} \cup {c \in 1..Len(r.raw) : Settled(r, c)} :
        \A c \in 1..Len(r.raw) : Settled(r, c) => c <= b

\* _release: a match that reaches back into what was shown emits nothing.
Release(r, b) ==
    LET redacted == RedactFinal(Prefix(r.raw, b))
    IN  IF b > r.released /\ IsPrefix(r.emitted, redacted)
        THEN [r EXCEPT !.released = b, !.emitted = redacted]
        ELSE r

PushText(r, chunk) ==
    LET longer == [r EXCEPT !.raw = @ \o StripMarkers(chunk)]
    IN  Release(longer, SafeBoundary(longer))

FinishText(r) == Release(r, Len(r.raw))

\* Wherever white space is followed by a margin of text, a word begins in it.
Worded(text) ==
    \A b \in 1..Len(text) :
        text[b] = Space /\ b + Margin <= Len(text)
            => \E k \in (b + 1)..(b + Margin) : text[k] \in {Key, Letter}

=============================================================================

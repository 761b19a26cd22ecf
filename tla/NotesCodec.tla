------------------------------ MODULE NotesCodec ------------------------------
(***************************************************************************)
(* The envelope that Chiefly keeps in the notes of a Google task           *)
(* (core/domain/notes_codec.py).  Notes are a sequence of segments:        *)
(*   text   what the user wrote, told apart by a number;                   *)
(*   env    a whole envelope, from START to END, naming a stable id;       *)
(*   start  an envelope without its END, which the user has cut off.       *)
(***************************************************************************)
EXTENDS Naturals, Sequences

NoId == 0

Text(v)      == [kind |-> "text",  v |-> v]
Envelope(id) == [kind |-> "env",   v |-> id]
Broken(id)   == [kind |-> "start", v |-> id]

IsText(s) == s.kind = "text"

\* parse: what lies between the first START and the first END after it must be
\* JSON, which it is only when both belong to one envelope.
Parse(notes) ==
  LET starts == {k \in DOMAIN notes : ~IsText(notes[k])}
      first  == CHOOSE k \in starts : \A j \in starts : k <= j
  IN  IF starts # {} /\ notes[first].kind = "env" THEN notes[first].v ELSE NoId

\* _ENVELOPE_PATTERN: every stretch from a START to the first END after it.
InEnvelope(notes, k) ==
  \/ notes[k].kind = "env"
  \/ \E i \in 1 .. k, j \in k + 1 .. Len(notes) :
       /\ notes[i].kind = "start" /\ notes[j].kind = "env"
       /\ \A m \in i .. k : notes[m].kind # "env"

\* The segments at these positions.
Selected(notes, positions) ==
  LET upTo[k \in 0 .. Len(notes)] ==
        IF k = 0 THEN <<>>
        ELSE IF k \in positions THEN Append(upTo[k - 1], notes[k]) ELSE upTo[k - 1]
  IN  upTo[Len(notes)]

\* extract_user_notes, and "cleaned" in format
UserNotes(notes) == Selected(notes, {k \in DOMAIN notes : ~InEnvelope(notes, k)})

\* Mutant: the envelope replaces the notes.
FormatAlone(id, existing) == <<Envelope(id)>>

\* format: the new envelope goes below the user's text.
Format(id, existing) == Append(UserNotes(existing), Envelope(id))

\* What the user wrote, wherever it stands.
Texts(notes) == Selected(notes, {k \in DOMAIN notes : IsText(notes[k])})
==============================================================================

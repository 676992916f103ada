------------------------------- MODULE Plates -------------------------------
(***************************************************************************)
(* When a lane's read passes for the plate a QR was made for               *)
(* (enrolment.py): the one normal form a plate is compared in, the         *)
(* look-alikes, and one character of difference on a plate long enough.    *)
(*                                                                         *)
(* The desk types a plate and the QR keeps it in its normal form.  The     *)
(* plate reader is external: it prints a look-alike, adds a separator,     *)
(* slips by one character, or reads nothing.                               *)
(***************************************************************************)
EXTENDS Integers, SequencesExt

CONSTANTS
    Chars,       \* the characters of a plate
    Separators,  \* what is not part of a plate: spaces, dashes, dots
    KeyOf,       \* KeyOf[ch]: ch in capitals, O read as 0 and I as 1
    LookAlike,   \* LookAlike[ch]: the first of its LOOK_ALIKE_GROUPS
    MinLength,   \* ONE_DIFFERENCE_MIN_LENGTH
    MaxTyped,    \* BOUND: characters a desk types
    MaxRead,     \* BOUND: characters a reader hands in
    MaxSlips     \* BOUND: characters a reader gets wrong

(* The normal form has no look-alike of two keys in one key: folding twice *)
(* is folding once, and O/0 and I/1 are look-alikes too.                   *)
ASSUME FoldAssumption ==
    /\ KeyOf \in [Chars -> Chars] /\ LookAlike \in [Chars -> Chars]
    /\ \A ch \in Chars : KeyOf[KeyOf[ch]] = KeyOf[ch]
                         /\ LookAlike[LookAlike[ch]] = LookAlike[ch]
    /\ Chars \cap Separators = {}

VARIABLES
    plate,  \* enrolments.plate
    read,   \* what the lane's reader hands in
    slips   \* how many characters of it the reader got wrong

readVars == <<plate, read, slips>>

Text == Chars \cup Separators

-----------------------------------------------------------------------------
Mapped(f, s) == [i \in DOMAIN s |-> f[s[i]]]

(* The normal form of the first i characters of a text. *)
KeyUpTo(text) ==
    LET key[i \in 0..Len(text)] ==
            IF i = 0 THEN << >>
            ELSE IF text[i] \in Separators THEN key[i - 1]
            ELSE Append(key[i - 1], KeyOf[text[i]])
    IN  key

plate_key(text) == KeyUpTo(text)[Len(text)]

look_alike_key(text) == Mapped(LookAlike, plate_key(text))

(* The first place where they differ decides which character was added.    *)
within_one_difference(a, b) ==
    LET shorter == IF Len(a) < Len(b) THEN a ELSE b
        longer == IF Len(a) < Len(b) THEN b ELSE a
        differ == { i \in DOMAIN shorter : shorter[i] # longer[i] }
    IN  /\ Len(longer) - Len(shorter) <= 1
        /\ IF Len(a) = Len(b) THEN Cardinality(differ) <= 1
           ELSE \A i \in differ : (\A j \in differ : i <= j) =>
                  SubSeq(shorter, i, Len(shorter)) = SubSeq(longer, i + 1, Len(longer))

(* MUTANT: the length is the read's, not the QR plate's.                   *)
SimilarByTheReadsLength(text, made) ==
    LET seen == look_alike_key(text)
        made_for == look_alike_key(made)
    IN  CASE plate_key(text) = << >>            -> "nothing_read"
          [] plate_key(text) = plate_key(made)  -> "same_plate"
          [] seen = made_for                    -> "look_alike"
          [] OTHER -> IF Len(seen) >= MinLength /\ within_one_difference(seen, made_for)
                      THEN "one_difference" ELSE "none"

(* THE ONE DECISION on whether the car at the lane is the QR's car.        *)
similar_enough(text, made) ==
    LET seen == look_alike_key(text)
        made_for == look_alike_key(made)
    IN  CASE plate_key(text) = << >>            -> "nothing_read"
          [] plate_key(text) = plate_key(made)  -> "same_plate"
          [] seen = made_for                    -> "look_alike"
          [] OTHER -> IF Len(made_for) >= MinLength /\ within_one_difference(seen, made_for)
                      THEN "one_difference" ELSE "none"

-----------------------------------------------------------------------------
(* require_plate: a plate that is blank once its separators are out is     *)
(* refused; the car comes with the plate it was typed from.                *)
ReadInit ==
    /\ read \in SeqOf(Text, MaxTyped)
    /\ plate_key(read) # << >>
    /\ plate = plate_key(read)
    /\ slips = 0

Confuse(i, ch) ==
    /\ read[i] \in Chars
    /\ LookAlike[KeyOf[ch]] = LookAlike[KeyOf[read[i]]]
    /\ read' = ReplaceAt(read, i, ch)
    /\ UNCHANGED <<plate, slips>>

Separate(i, ch) ==
    /\ Len(read) < MaxRead
    /\ read' = InsertAt(read, i, ch)
    /\ UNCHANGED <<plate, slips>>

Slip(text) ==
    /\ slips < MaxSlips
    /\ plate_key(read) # << >>
    /\ read' = text
    /\ slips' = slips + 1
    /\ UNCHANGED plate

ReadNothing ==
    /\ read' = << >>
    /\ UNCHANGED <<plate, slips>>

ReadNext ==
    \/ \E i \in DOMAIN read, ch \in Chars : Confuse(i, ch)
    \/ \E i \in 1..(Len(read) + 1), ch \in Separators : Separate(i, ch)
    \/ \E i \in DOMAIN read, ch \in Chars : Slip(ReplaceAt(read, i, ch))
    \/ \E i \in DOMAIN read : Slip(RemoveAt(read, i))
    \/ Len(read) < MaxRead /\ \E i \in 1..(Len(read) + 1), ch \in Chars : Slip(InsertAt(read, i, ch))
    \/ ReadNothing

ReadSpec == ReadInit /\ [][ReadNext]_readVars

-----------------------------------------------------------------------------
(* The texts one character away from s, by making the change: what         *)
(* within_one_difference must answer, without its walk.                    *)
OneAway(s) ==
    (UNION { {RemoveAt(s, i)} \cup { ReplaceAt(s, i, ch) : ch \in Chars } : i \in DOMAIN s })
      \cup { InsertAt(s, i, ch) : i \in 1..(Len(s) + 1), ch \in Chars }

(* SIMILAR ENOUGH GETS A PASS, AND NOTHING ELSE DOES: whatever the reader  *)
(* prints and wherever the dashes are, the car's own plate always passes   *)
(* until a character is wrong; with one wrong it still passes on a plate   *)
(* of MinLength; and a read that passes by one difference is really one    *)
(* away from such a plate -- on a shorter one it is another car.           *)
OnlyASlipIsForgiven ==
    LET passed == similar_enough(read, plate)
        made_for == look_alike_key(plate)
        long == Len(made_for) >= MinLength
    IN  /\ slips = 0 \/ (slips = 1 /\ long) => passed # "none"
        /\ passed = "one_difference" <=>
             /\ plate_key(read) # << >> /\ look_alike_key(read) # made_for
             /\ long /\ look_alike_key(read) \in OneAway(made_for)
=============================================================================

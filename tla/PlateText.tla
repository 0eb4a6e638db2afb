------------------------------ MODULE PlateText ------------------------------
(***************************************************************************)
(* Plates as text: what the reader makes of the pieces it has read         *)
(* (backend/app/modules/plate_ocr/plate_text.py) and the form in which the *)
(* system keeps a plate (backend/app/shared/plate.py). A text is a         *)
(* sequence of characters after normalize: digits and the letters plates   *)
(* have, under their Latin names. Pieces arrive from left to right. What   *)
(* a reading scores is left out: candidates are sets.                      *)
(***************************************************************************)
EXTENDS Naturals, Sequences, FiniteSets, SequencesExt

CONSTANTS
  Pieces,      \* the texts a piece may be
  MaxPieces    \* bound

VARIABLE pieces
textVars == <<pieces>>

TextInit == pieces = <<>>

ReadPiece(t) == Len(pieces) < MaxPieces /\ pieces' = Append(pieces, t)

TextNext == \E t \in Pieces : ReadPiece(t)
TextSpec == TextInit /\ [][TextNext]_textVars

-----------------------------------------------------------------------------
(* The form of a plate: two digits, a letter, three digits and, or not,    *)
(* the two digits of the province.                                         *)

Digits == {"0", "1", "2", "3", "4", "5", "6", "7", "8", "9"}
OfficialLetters ==
  {"be", "jim", "dal", "sin", "sad", "ta", "eyn", "qaf", "lam", "mim", "nun", "vav", "he", "ye"}

Digital(t) == ToSet(t) \subseteq Digits

validate(t) ==
  Len(t) \in {6, 8} /\ t[3] \in OfficialLetters /\ Digital(RemoveAt(t, 3))

\* Letters a digit is mistaken for, and letters tried for their frequency.
VisualTwins ==
  [c \in Digits |-> CASE c \in {"0", "4", "8"} -> {"he"} [] c = "1" -> {"lam"}
                      [] c = "2" -> {"be", "mim"} [] c = "3" -> {"eyn"} [] c = "5" -> {"dal"}
                      [] c = "6" -> {"ta"} [] c = "7" -> {"nun"} [] c = "9" -> {"qaf", "eyn"}]
FirstTwin(c) == CASE c = "2" -> "be" [] c = "9" -> "qaf"
                  [] OTHER -> CHOOSE l \in VisualTwins[c] : TRUE
PriorLetters == <<"be", "sin", "dal", "lam", "mim", "he", "ta", "qaf", "nun", "vav", "eyn">>

\* The twins of c, then the frequent letters, four in all.
Guesses(c) ==
  LET others == {i \in DOMAIN PriorLetters : PriorLetters[i] \notin VisualTwins[c]}
      tried  == {i \in others : Cardinality(VisualTwins[c]) + Cardinality({j \in others : j < i}) < 4}
  IN  VisualTwins[c] \cup {PriorLetters[i] : i \in tried}

Upto(t, i) == SubSeq(t, 1, i)
From(t, i) == SubSeq(t, i, Len(t))
WithLetter(t, l) == Upto(t, 2) \o <<l>> \o From(t, 4)

-----------------------------------------------------------------------------
(* Repairs of a text that is no plate.                                     *)

\* Three digits, a letter, two digits: the groups in the wrong order.
Mirrored(t) ==
  Len(t) = 6 /\ Digital(Upto(t, 3)) /\ t[4] \in OfficialLetters /\ Digital(From(t, 5))

Turned(t) == From(t, 5) \o <<t[4]>> \o Upto(t, 3)

RepairOfSeven(s) ==
  IF validate(s) THEN {s}
  ELSE IF Digital(s) THEN {WithLetter(s, l) : l \in Guesses(s[3])}
  ELSE IF Mirrored(s) THEN {Turned(s)} ELSE {}

repair_candidates(t) ==
  CASE Len(t) = 7 -> UNION {RepairOfSeven(RemoveAt(t, i)) : i \in 1 .. 7}
    [] Len(t) = 6 -> IF Mirrored(t) THEN {Turned(t)} ELSE {}
    [] Len(t) = 5 /\ Digital(t) ->
         {Upto(t, 2) \o <<l>> \o From(t, 3) : l \in ToSet(PriorLetters)}
    [] Len(t) = 5 /\ ~Digital(t) /\ Cardinality({i \in 1 .. 5 : t[i] \in Digits}) = 4 ->
         {s \in {InsertAt(t, i, d) : i \in 1 .. 6, d \in Digits} : validate(s)}
    [] OTHER -> {}

\* One letter that is not third, with the groups of a plate read backwards.
canonical_order(t) ==
  LET at == {i \in DOMAIN t : t[i] \notin Digits}
      i  == CHOOSE x \in at : TRUE
  IN  IF Len(t) \notin {6, 8} \/ t[3] \in OfficialLetters \/ Cardinality(at) # 1 THEN t
      ELSE CASE i = 4 /\ Len(t) = 6 -> Turned(t)
             [] i = 4 /\ Len(t) = 8 -> SubSeq(t, 5, 6) \o <<t[4]>> \o Upto(t, 3) \o From(t, 7)
             [] i = 6 /\ Len(t) = 8 -> From(t, 7) \o <<t[6]>> \o SubSeq(t, 3, 5) \o Upto(t, 2)
             [] OTHER -> t

\* Lossy: a letter is put third, a zero wherever else there is no digit.
enforce_format(t) ==
  IF Len(t) \notin {6, 8} THEN t
  ELSE [i \in DOMAIN t |->
         IF i # 3 THEN IF t[i] \in Digits THEN t[i] ELSE "0"
         ELSE IF t[i] \in Digits THEN FirstTwin(t[i]) ELSE t[i]]

-----------------------------------------------------------------------------
(* Plates put together from up to four of the pieces, joined in either     *)
(* direction. A letter that was guessed is tried as the four most frequent *)
(* ones too.                                                               *)

Joins ==
  LET chosen == {I \in SUBSET DOMAIN pieces : Cardinality(I) \in 1 .. 4}
      ordered(I) == SetToSortSeq(I, LAMBDA a, b : a < b)
      joined(o) == FlattenSeq([k \in DOMAIN o |-> pieces[o[k]]])
  IN  {s \in UNION {{joined(ordered(I)), joined(Reverse(ordered(I)))} : I \in chosen} :
         Len(s) \in 6 .. 8}

assemble_from_pieces ==
  LET enforced == {enforce_format(s) : s \in {j \in Joins : Len(j) # 7
                                                            /\ j # enforce_format(j)}}
      exact    == {s \in Joins : validate(s)}
      repaired == UNION {repair_candidates(s) : s \in {j \in Joins : Len(j) = 7}}
      retried  == {WithLetter(s, l) : s \in {e \in enforced : validate(e)},
                                      l \in ToSet(SubSeq(PriorLetters, 1, 4))}
  IN  exact \cup {s \in enforced \cup repaired \cup retried : validate(s)}

-----------------------------------------------------------------------------
(* The system's form: the letter under a Latin code, of which the first    *)
(* table gives several letters the same and the second each its own.       *)

MappedLetters ==
  OfficialLetters \cup {"alef", "pe", "te", "se", "che", "heh", "khe", "zal", "re", "ze", "zhe",
                        "shin", "zad", "za", "gheyn", "fe", "kaf", "gaf"}

\* What normalize leaves of a text is digits and letters.
ASSUME TextAssumption == MaxPieces \in Nat /\ Pieces \subseteq Seq(Digits \cup MappedLetters)

LETTER_MAP ==
  [l \in MappedLetters |->
    CASE l \in {"alef", "eyn"} -> "A" [] l = "be" -> "B" [] l = "pe" -> "P" [] l \in {"te", "ta"} -> "T"
      [] l \in {"se", "sin", "shin", "sad"} -> "S" [] l = "jim" -> "J" [] l = "che" -> "C"
      [] l \in {"heh", "he"} -> "H" [] l = "khe" -> "X" [] l = "dal" -> "D" [] l = "re" -> "R"
      [] l \in {"zal", "ze", "zhe", "zad", "za"} -> "Z" [] l \in {"gheyn", "qaf", "gaf"} -> "G"
      [] l = "fe" -> "F" [] l = "kaf" -> "K" [] l = "lam" -> "L" [] l = "mim" -> "M"
      [] l = "nun" -> "N" [] l = "vav" -> "V" [] l = "ye" -> "Y"]

UNIQUE_LETTER_MAP ==
  [l \in MappedLetters |->
    CASE l = "se" -> "SS" [] l = "che" -> "CC" [] l = "khe" -> "KH" [] l = "zal" -> "ZD"
      [] l = "zhe" -> "ZJ" [] l = "shin" -> "SH" [] l = "sad" -> "SC" [] l = "zad" -> "ZB"
      [] l = "ta" -> "TA" [] l = "za" -> "ZZ" [] l = "eyn" -> "E" [] l = "gheyn" -> "GH"
      [] l = "gaf" -> "GG" [] l = "he" -> "HH" [] OTHER -> LETTER_MAP[l]]

NoPlate == <<>>

\* Of a text laid out as a plate, the province behind its own word: digits on
\* both sides of the third character, which gives its code, X if a digit.
normalize_plate(t, map) ==
  IF Digital(Upto(t, 2)) /\ Digital(From(t, 4))
  THEN Upto(t, 2) \o <<IF t[3] \in Digits THEN "X" ELSE map[t[3]]>> \o From(t, 4)
  ELSE NoPlate

to_system_normalized(t, map) ==
  LET c == canonical_order(t)
  IN  IF Len(c) \in {6, 8} THEN normalize_plate(c, map) ELSE NoPlate

(* Mutant of remap_normalized_plate: any letter with the code will do. *)
RemapsToAny(n, from, to) ==
  LET L == {l \in MappedLetters : from[l] = n[3]}
  IN  IF n = NoPlate \/ L = {} THEN NoPlate
      ELSE [n EXCEPT ![3] = to[CHOOSE l \in L : TRUE]]

\* A code of several letters cannot be taken back.
remap_normalized_plate(n, from, to) ==
  LET L == {l \in MappedLetters : from[l] = n[3]}
  IN  IF n = NoPlate \/ Cardinality(L) # 1 THEN NoPlate
      ELSE [n EXCEPT ![3] = to[CHOOSE l \in L : TRUE]]

-----------------------------------------------------------------------------
(* Properties.                                                             *)

Text == FlattenSeq(pieces)

\* Everything repair_candidates and assemble_from_pieces return has the form of
\* a plate, as their docstrings say.
CandidatesArePlates ==
  \A s \in repair_candidates(Text) \cup assemble_from_pieces : validate(s)

\* The order is changed of what is no plate only, and of that once
\* (_canonical_order).
OrderSettles ==
  /\ validate(Text) => canonical_order(Text) = Text
  /\ canonical_order(canonical_order(Text)) = canonical_order(Text)

\* A plate kept under the old codes is moved to the new ones as it would be
\* read from what was typed, or not at all (remap_normalized_plate).
MigrationAgrees ==
  validate(Text) =>
    remap_normalized_plate(to_system_normalized(Text, LETTER_MAP), LETTER_MAP, UNIQUE_LETTER_MAP)
      \in {NoPlate, to_system_normalized(Text, UNIQUE_LETTER_MAP)}

PlateSound == CandidatesArePlates /\ OrderSettles /\ MigrationAgrees

\* Types of the pieces (assemble_from_pieces).
TextTypeOK == Len(pieces) <= MaxPieces /\ ToSet(pieces) \subseteq Pieces
=============================================================================

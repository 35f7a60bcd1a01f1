-------------------------------- MODULE Tty --------------------------------
(***************************************************************************)
(* What the console promises its readers: characters are collected in a    *)
(* line that can be edited until it is ended (or the buffer is full); what *)
(* has been handed over can no longer be edited and is read once, in order.*)
(***************************************************************************)
EXTENDS Naturals, Sequences, SequencesExt

CONSTANTS Size, Char, Ends

VARIABLES edit,    \* the line being edited
          input    \* what readers may take

tvars == <<edit, input>>

TInit == edit = <<>> /\ input = <<>>

Type(c) ==
  /\ Len(edit) + Len(input) < Size
  /\ IF c \in Ends \/ Len(edit) + Len(input) + 1 = Size
     THEN input' = input \o Append(edit, c) /\ edit' = <<>>
     ELSE edit' = Append(edit, c) /\ UNCHANGED input

Erase == edit # <<>> /\ edit' = Front(edit) /\ UNCHANGED input

Take == input # <<>> /\ input' = Tail(input) /\ UNCHANGED edit

TNext == Erase \/ Take \/ \E c \in Char : Type(c)

TSpec == TInit /\ [][TNext]_tvars
=============================================================================

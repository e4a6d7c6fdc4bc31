------------------------------- MODULE CStrings -------------------------------
(***************************************************************************)
(* The lists of strings that cross between guest and host as bytes, each   *)
(* string ended by NUL: cstring.go of the guest and of the host.  A        *)
(* character is any value, NUL included; a string is a sequence of them.   *)
(***************************************************************************)
EXTENDS Naturals, Sequences, SequencesExt

NUL == "NUL"

(* The strings one after the other.                                        *)
Concat(strings) ==
  LET bytes[i \in 0..Len(strings)] ==
        IF i = 0 THEN <<>> ELSE bytes[i - 1] \o strings[i]
  IN  bytes[Len(strings)]

Terminated(strings) ==
  Concat([i \in DOMAIN strings |-> Append(strings[i], NUL)])

NonEmpty(strings) ==
  LET kept[i \in 0..Len(strings)] ==
        IF i = 0 THEN <<>>
        ELSE IF strings[i] = <<>> THEN kept[i - 1]
        ELSE Append(kept[i - 1], strings[i])
  IN  kept[Len(strings)]

(* Of an empty string not even the terminator is written.                  *)
toNULTerminated(input) == Terminated(NonEmpty(input))

(* The entries read and the one under way, before and after a byte: a NUL  *)
(* ends an entry and a second one nothing.                                 *)
NothingRead == [entries |-> <<>>, entry |-> <<>>]

ReadByte(read, c) ==
  IF c # NUL THEN [read EXCEPT !.entry = Append(@, c)]
  ELSE [entries |-> IF read.entry = <<>> THEN read.entries
                    ELSE Append(read.entries, read.entry),
        entry |-> <<>>]

Read(b) ==
  LET read[i \in 0..Len(b)] ==
        IF i = 0 THEN NothingRead ELSE ReadByte(read[i - 1], b[i])
  IN  read[Len(b)]

(* Characters with no NUL after them are dropped.                          *)
fromNULTerminated(b) == Read(b).entries
=============================================================================

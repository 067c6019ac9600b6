------------------------------- MODULE Formats -------------------------------
(***************************************************************************)
(* What Register accepts as a user name, an email address and a password.  *)
(* (internal/service/user_service.go:668-717)                              *)
(*                                                                         *)
(* A text is a sequence of characters.  The limits of a user name count    *)
(* characters, those of an email address and of a password count bytes.    *)
(***************************************************************************)
EXTENDS Integers, Sequences, SequencesExt

CONSTANTS
    Letters,        \* a-z and A-Z
    OtherLetters,   \* letters of other scripts
    Digits,
    Underscore,
    At,
    OtherWidth,     \* bytes of a letter of another script
    MinUsername, MaxUsername,   \* 2 and 32 in the code
    MinEmail, MaxEmail,         \* 3 and 128
    MinPassword, MaxPassword    \* 6 and 32

ASSUME AtAssumption == At \notin Letters \cup OtherLetters \cup Digits \cup {Underscore}
ASSUME LimitsAssumption ==
    {OtherWidth, MinUsername, MaxUsername, MinEmail, MaxEmail, MinPassword, MaxPassword}
        \subseteq Nat \ {0}

\* The length of a string in bytes.
Bytes(text) == Len(text) + (OtherWidth - 1) * Len(SelectSeq(text, LAMBDA c : c \in OtherLetters))

\* Mistake: the characters are not looked at.
IsValidUsernameByLength(text) == Len(text) \in MinUsername .. MaxUsername

IsValidUsername(text) ==
    /\ Len(text) \in MinUsername .. MaxUsername
    /\ ToSet(text) \subseteq Letters \cup OtherLetters \cup Digits \cup {Underscore}

\* One @, neither first nor last.
IsValidEmail(text) ==
    /\ Bytes(text) \in MinEmail .. MaxEmail
    /\ \E p \in 2 .. Len(text) - 1 : \A q \in DOMAIN text : text[q] = At <=> q = p

IsValidPassword(text) ==
    /\ Bytes(text) \in MinPassword .. MaxPassword
    /\ ToSet(text) \cap Letters # {}
    /\ ToSet(text) \cap Digits # {}

=============================================================================

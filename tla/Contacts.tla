------------------------------ MODULE Contacts ------------------------------
(***************************************************************************)
(* Telephone numbers and e-mail addresses: how a save rewrites them into   *)
(* house style and what is remarked on beside them                         *)
(* (pkg/rolo/normalize.go, validate.go).                                   *)
(***************************************************************************)
EXTENDS Naturals, Sequences

CONSTANT PhoneDigits    \* housePhoneDigits: the digits of a number without its country code

ASSUME PhoneDigitsAssumption == PhoneDigits \in Nat \ {0}

\* What is around the digits: nothing, as in an empty field; the hyphens of
\* house style; other punctuation; or words.
Dress == {"empty", "house", "punctuation", "words"}

\* several: an extension, a list or a slashed alternative (any of xX#,;/).
Phone == [digits : Seq(0 .. 9), dress : Dress, plus : BOOLEAN, several : BOOLEAN]

NoPhone == [digits |-> <<>>, dress |-> "empty", plus |-> FALSE, several |-> FALSE]

HouseStyle(digits) ==
    [digits |-> digits, dress |-> "house", plus |-> FALSE, several |-> FALSE]

BeginsWithOne(digits) == digits # <<>> /\ Head(digits) = 1

\* The digits, less a North American country code.
National(digits) ==
    IF Len(digits) = PhoneDigits + 1 /\ BeginsWithOne(digits) THEN Tail(digits) ELSE digits

\* One North American number and nothing that says otherwise.
IsOneNumber(phone) ==
    /\ ~phone.several
    /\ phone.plus => BeginsWithOne(phone.digits)
    /\ Len(National(phone.digits)) = PhoneDigits

Recognized(phone) == phone = NoPhone \/ IsOneNumber(phone)

\* A variant that puts hyphens into whatever has the digits.
NormalizeAnyPhone(phone) ==
    IF Len(phone.digits) >= PhoneDigits
    THEN HouseStyle(SubSeq(phone.digits, 1, PhoneDigits)) ELSE phone

NormalizePhone(phone) ==
    IF IsOneNumber(phone) THEN HouseStyle(National(phone.digits)) ELSE phone

\* A domain in capitals, the local part as it is; parsed says what net/mail makes
\* of it: an address, one with a display name, or none.
Email == [at : BOOLEAN, capitals : BOOLEAN, parsed : {"plain", "named", "malformed"}]

NoEmail == [at |-> FALSE, capitals |-> FALSE, parsed |-> "malformed"]

NormalizeEmail(email) == IF email.at THEN [email EXCEPT !.capitals = FALSE] ELSE email

\* checkEmail: nothing is remarked on where there is nothing.
Suspect(email) == email # NoEmail /\ email.parsed # "plain"
=============================================================================

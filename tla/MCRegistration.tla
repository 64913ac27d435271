--------------------------- MODULE MCRegistration ---------------------------
(* Three addresses, two of them spellings of one mailbox.                  *)
EXTENDS Registration

CONSTANTS anna, dotted, bob

MCMailbox(e) == IF e = dotted THEN anna ELSE e

=============================================================================

-------------------------- MODULE MCOutboxSchedule --------------------------
(* A finite instance of OutboxSchedule for TLC. *)
EXTENDS OutboxSchedule

CONSTANT mail

MailDestination == <<mail>>
=============================================================================

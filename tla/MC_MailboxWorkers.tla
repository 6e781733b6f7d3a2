------------------------- MODULE MC_MailboxWorkers -------------------------
(* A small instance of MailboxWorkers: a message that always awaits a reply  *)
(* and one, of another thread, that is archived.                             *)
EXTENDS MailboxWorkers

Class(c, p) == [category |-> c, priority |-> p]

MCThreadOf == <<"t1", "t2">>
MCVerdicts == <<{Class("awaiting_reply", "high"), Class("awaiting_reply", "medium")},
               {Class("follow_up", "low")}>>
MCUnread == {2}

=============================================================================

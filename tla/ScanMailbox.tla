---------------------------- MODULE ScanMailbox ----------------------------
(***************************************************************************)
(* What the lidar driver promises the subscribers of /scan: a mailbox with *)
(* one place. Every scan published has been completed, none is older than  *)
(* the one before, scans may be skipped, one may be published again but    *)
(* never more than MaxRepeats times. LidarDriver implements it.            *)
(***************************************************************************)
EXTENDS Naturals

CONSTANT MaxRepeats

VARIABLES
  stored,     \* scans put into the mailbox so far; they are numbered from 1
  published,  \* the last scan published, 0 before the first
  repeats,    \* how often it was published again
  open        \* the driver runs

mailboxVars == <<stored, published, repeats, open>>

MailboxInit == stored = 0 /\ published = 0 /\ repeats = 0 /\ open = TRUE

Store == /\ open = TRUE
         /\ stored' = stored + 1
         /\ UNCHANGED <<published, repeats, open>>

PublishNewer == /\ open = TRUE
                /\ published' \in (published + 1)..stored
                /\ repeats' = 0
                /\ UNCHANGED <<stored, open>>

PublishAgain == /\ open = TRUE
                /\ published > 0 /\ repeats < MaxRepeats
                /\ repeats' = repeats + 1
                /\ UNCHANGED <<stored, published, open>>

Close == /\ open = TRUE /\ open' = FALSE
         /\ UNCHANGED <<stored, published, repeats>>

MailboxNext == Store \/ PublishNewer \/ PublishAgain \/ Close

MailboxSpec == MailboxInit /\ [][MailboxNext]_mailboxVars
==============================================================================

---- MODULE MCConversation ----
\* One file whose first line fills a read, so that the cap on size cuts before
\* the cap on lines, and whose third overshoots it and is spilled; one empty.
EXTENDS Conversation

MCFiles == [f |-> <<3, 1, 4, 1>>, e |-> <<>>]
====

---- MODULE MCMcpClient ----
\* Two workers, which is what it takes to read each other's lines, and two
\* files; requests enough for one to be lost, one to be left and two to meet.
EXTENDS McpClient
====

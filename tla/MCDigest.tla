------------------------------ MODULE MCDigest ------------------------------
EXTENDS Digest, TLC

CONSTANTS c1, c2, p1, p2, none

MCCallers == {c1, c2}
MCPosts == {p1, p2}
Symmetry == {[x \in MCCallers \cup MCPosts |-> IF x \in MCPosts THEN f[x] ELSE g[x]] :
               f \in Permutations(MCPosts), g \in Permutations(MCCallers)}

Mailer(user, host, tls) ==
  [user |-> user, from |-> TRUE, to |-> TRUE, host |-> host, smtps |-> FALSE, tls |-> tls]

Garbled == Mailer(FALSE, "remote", "garbled")
Server == Mailer(TRUE, "remote", "auto")
Mailpit == [Mailer(TRUE, "local", "disabled") EXCEPT !.from = FALSE]

Rss == [pages |-> 2, comments |-> FALSE, reads |-> "none"]
Scrape == [pages |-> 2, comments |-> FALSE, reads |-> "required"]
Reddit == [pages |-> 1, comments |-> TRUE, reads |-> "optional"]
Arxiv == [pages |-> 1, comments |-> FALSE, reads |-> "optional"]

Flow(source, partial, outputs) ==
  [source |-> source, partial |-> partial, outputs |-> outputs]

MCSetups ==
  {Flow(Rss, TRUE, <<Mailpit>>),
   Flow(Scrape, TRUE, <<Server>>),
   Flow(Arxiv, FALSE, <<Mailpit, Garbled>>),
   Flow(Reddit, FALSE, <<Server, Mailpit>>)}
=============================================================================

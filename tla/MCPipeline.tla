----------------------------- MODULE MCPipeline -----------------------------
(* Values for Pipeline: two feeds that bring one story under two ids and one  *)
(* entry twice, a page of the user with the same link, and the same page again *)
(* the next day, with a note that holds a line separator.                      *)
EXTENDS Pipeline, TLC

CONSTANTS news, blog, site, first, again, other, copy, draft, page, retry

Entry(source, position, guid, link, weight, says, tags) ==
    [source |-> source, position |-> position, guid |-> guid, link |-> link,
     platform |-> FALSE, titled |-> TRUE, priority |-> weight, kind |-> 30,
     rich |-> FALSE, says |-> says, meta |-> tags, tags |-> tags, published |-> 1,
     category |-> IF source = news THEN "news" ELSE "models",
     title |-> position, hash |-> 10 - position]

\* Shared on day n with a note of that day.
Page(n, link, says) ==
    [source |-> site, guid |-> None, link |-> link, platform |-> FALSE, titled |-> TRUE,
     priority |-> 120, kind |-> 0, rich |-> FALSE, says |-> says, meta |-> {},
     tags |-> {"user-shared"}, category |-> "inbox", published |-> n, title |-> 10 + n, hash |-> n]

Rules == [agents |-> {"agent"}, coding |-> {"editor", "agent"}, models |-> {"model"},
          china |-> {"shanghai"}]

\* The tables are definitions of their own: TLC evaluates those once.
Table ==
    draft :> [Entry(news, 1, "g", "l", 120, {"agent", "model"}, {"ai"})
                 EXCEPT !.titled = FALSE]
    @@ first :> [Entry(news, 2, "g", "l", 120, {"agent", "model", "shanghai", "mcp", "solo"},
                       {"ai"})
                       EXCEPT !.rich = TRUE]
    @@ other :> [Entry(news, 3, None, "m", 120, {"mcp", "solo"}, {}) EXCEPT !.published = 9]
    @@ again :> [Entry(blog, 4, None, "l", 20, {"agent", "model", "mcp"}, {"code"})
                       EXCEPT !.published = 0]
    @@ copy :> Entry(blog, 5, None, "m", 20, {"agent", "mcp", "gossip"}, {"ai"})
    @@ page :> Page(1, "l", {"mcp"})
    @@ retry :> Page(2, "l", {"mcp", "agent"})

Opinion(x, counter) ==
    [relevance |-> x, novelty |-> x, credibility |-> x, urgency |-> x, counter |-> counter]
Extremes == {Opinion(100, 0), Opinion(0, 100)}

MCAbout == Table
MCRuleTerms == Rules
MCResembles == {<<"ai", "agent">>, <<"models", "model">>}
MCOpinions == Extremes

=============================================================================

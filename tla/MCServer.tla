------------------------------ MODULE MCServer ------------------------------
(* Two threads of the web server and one call of the command line; two         *)
(* templates, one name, the keys of all three and the GitHub token, the first  *)
(* of them exported by the server's shell as well.  .env is the copy of        *)
(* .env.example, in which that key is blank and the others are not there.      *)
EXTENDS Server

CONSTANTS web1, web2, cli, shared, own, shell,
          openai, custom, mine, openaiKey, customKey, mineKey,
          old, new, url, otherUrl, model, otherModel, exported, blank, cut

Connect1 == [t \in {web1, web2, cli} |-> IF t = cli THEN own ELSE shared]
MCConnectionOf == Connect1
Process1 == [c \in {shared, own} |-> IF c = own THEN shell ELSE Server]
MCProcessOf == Process1

MCShell == [k \in EnvKeys |-> IF k = openaiKey THEN exported ELSE None]
MCValues == {None, old, new, exported, blank, cut}
\* An old key holds " #", behind which dotenv reads nothing.
MCReads == [v \in MCValues |-> IF v = old THEN cut ELSE v]
MCEnvAtFirst == {[k \in EnvKeys |-> IF k = openaiKey THEN blank ELSE None]}
MCExample ==
    [p \in {openai, custom} |->
       [template |-> None, key |-> IF p = openai THEN openaiKey ELSE customKey,
        url |-> url, model |-> model]]
MCIdentity == [n \in {mine} |-> [id |-> mine, key |-> mineKey]]

Blank == [token |-> FALSE, config |-> None, name |-> None, provider |-> None,
          key |-> None, url |-> None, model |-> None]

\* The token; a key for a template; a new named profile; a change of it, alone
\* and with its name, as the settings page sends it; a model for a template.
MCForms ==
    { [Blank EXCEPT !.token = TRUE, !.key = new],
      [Blank EXCEPT !.provider = openai, !.key = new],
      [Blank EXCEPT !.name = mine, !.provider = custom, !.key = old, !.url = otherUrl],
      [Blank EXCEPT !.config = mine, !.key = new, !.model = otherModel],
      [Blank EXCEPT !.config = mine, !.name = mine, !.key = new],
      [Blank EXCEPT !.config = openai, !.model = otherModel] }

=============================================================================

-------------------------- MODULE MCServerStartup --------------------------
\* Policies that shadow a built-in persona, inherit from all tools, from
\* themselves, in a circle and from nobody; that filter; that restrict.
EXTENDS ServerStartup

P(star, tools, inherit) == [star |-> star, tools |-> tools, inherit |-> inherit]

MCBuiltIn == [readonly |-> P(FALSE, {"get", "health"}, {}),
              scientist |-> P(FALSE, {"tune", "delete"}, {"readonly"}),
              admin |-> P(TRUE, {}, {})]
MCPersonas == {"readonly", "scientist", "admin", "ops"}
MCModules == [trainer |-> [tools |-> {"get", "tune", "delete", "inspect"}, reads |-> {"get", "inspect"},
                           resources |-> {"guide", "fixes"}],
              hub |-> [tools |-> {}, reads |-> {}, resources |-> {}]]
MCClientLists == {<<"trainer">>, <<"other", "hub">>}
MCHealthTools == {"health"}
MCAskingTools == {"get", "tune", "delete"}
MCSilentTools == {"inspect"}

MCContents ==
    {[NoPolicy EXCEPT !.personas = [ops |-> P(FALSE, {"tune", "inspect"}, {"admin"})],
                      !.namespaces = {{"team"}}],
     [NoPolicy EXCEPT !.personas = [readonly |-> P(FALSE, {"tune"}, {"readonly"})]],
     [NoPolicy EXCEPT !.personas = [ops |-> P(FALSE, {"get"}, {"scientist"}),
                                    scientist |-> P(FALSE, {"tune"}, {"ops"})]],
     [NoPolicy EXCEPT !.personas = [readonly |-> P(TRUE, {}, {}),
                                    ops |-> P(FALSE, {"delete"}, {"nobody"})],
                      !.deny = {{"delete"}}],
     [NoPolicy EXCEPT !.allow = {{"get", "tune"}, {}}, !.deny = {{"tune", "delete"}}],
     [NoPolicy EXCEPT !.allow = {{}}, !.namespaces = {{}}],
     [NoPolicy EXCEPT !.read_only = TRUE, !.deny = {{"inspect"}}, !.namespaces = {{"prod"}}]}
MCNamespaces == {"team", "prod"}
=============================================================================

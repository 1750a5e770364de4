--------------------------- MODULE MCClientCaches ---------------------------
\* One namespace more than entries, so that the cache evicts.
EXTENDS ClientCaches

CONSTANTS t1, t2, ns1, ns2

MCThreads == {t1, t2}
MCFactories == <<"get_trainer_client", "_get_api_client">>
MCNamespaces == {ns1, ns2}
=============================================================================

--------------------------- MODULE MCRequestChain ---------------------------
EXTENDS RequestChain

MCRoutes == [Request -> {"http", "ws"}]
=============================================================================

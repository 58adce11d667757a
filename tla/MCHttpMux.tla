----------------------------- MODULE MCHttpMux -----------------------------
EXTENDS HttpMux
=============================================================================

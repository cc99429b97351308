--------------------------- MODULE MCAsyncLitePool ---------------------------
EXTENDS AsyncLitePool
=============================================================================

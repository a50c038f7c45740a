------------------------------- MODULE MCHtml -------------------------------
EXTENDS Html
=============================================================================

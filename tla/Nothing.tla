------------------------------ MODULE Nothing ------------------------------
CONSTANT None  \* nothing: JavaScript's undefined, an absent file, no node
=============================================================================

------------------------------ MODULE MCSeeding ------------------------------
EXTENDS Seeding
=============================================================================

-------------------------- MODULE MCDeleteListing --------------------------
EXTENDS DeleteListing
=============================================================================

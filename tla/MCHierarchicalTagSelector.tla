--------------------- MODULE MCHierarchicalTagSelector ---------------------
EXTENDS HierarchicalTagSelector, MCHierarchicalTags
=============================================================================

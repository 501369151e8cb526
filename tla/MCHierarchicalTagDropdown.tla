--------------------- MODULE MCHierarchicalTagDropdown ---------------------
EXTENDS HierarchicalTagDropdown, MCHierarchicalTags
=============================================================================

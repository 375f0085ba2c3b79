------------------------------ MODULE MCPaging ------------------------------
EXTENDS Paging

\* The stack that elf_loader::load asks for, a segment that begins behind a
\* page's base, one that ends behind one, one inside a page, and one that
\* reaches the end of the address space.
RequestedRanges == {<<0, 8>>, <<5, 6>>, <<6, 2>>, <<12, 4>>}

\* elf_loader::load maps for the user, what a segment may write or not.
RequestedRights == {<<FALSE, TRUE>>, <<FALSE, FALSE>>}
=============================================================================

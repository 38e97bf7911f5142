\* Three initializers move the heap's end by up to 2 pages each; below the
\* kernel stack there is room for that, for the copy of a stack, and more.
CONSTANTS
  None = None
  first_kernel_text_page = 0
  first_kernel_data_page = 1
  orig_kernel_brk_page = 3
  K_STACK_BASE_VPN = 14
  K_STACK_LIMIT_VPN = 16
  NUM_FRAMES = 18
  MaxGrowth = 2
SPECIFICATION BootSpec
INVARIANT SoundWhenAgreed
